------------------------------ MODULE AggProofs -----------------------------
(***************************************************************************)
(* Theorems about AggMaps, for any number of CPUs and prefixes, sizes of   *)
(* maps and batches: the maps that are printed are left alone, no entry is *)
(* pruned under a program, backup entries stay, every variable has its     *)
(* type, and the reports are those of AggReports.                          *)
(***************************************************************************)
EXTENDS AggMaps, FiniteSetTheorems, TLAPS

-----------------------------------------------------------------------------
(* The inductive invariant. *)

Shape ==
  /\ active \in Instances
  /\ maps \in [Instances -> [Keys -> Entry \union {None}]]
  /\ handler \in [CPUs -> Handler]
  /\ report \in Report

(* The program on c has chosen instance m, or may count through a pointer. *)
Uses(c, m) ==
  /\ handler[c] # Idle
  /\ \/ ~ At(c, "choose") /\ handler[c].map = m
     \/ handler[c].stats # None /\ handler[c].stats[1] = m

(* Until the wait is over, only programs that are waited for. *)
UsersAreAwaited ==
  /\ report.at = "sync" \/ Walking => active # report.map
  /\ report.at = "sync" => \A c \in CPUs : Uses(c, report.map) => c \in grace
  /\ Walking => \A c \in CPUs : ~ Uses(c, report.map)

(* The walk has only entries of its map before it, and no backup to delete. *)
WalkIsSound ==
  /\ Walking => /\ report.left \subseteq KeysOf(report.ipv)
                /\ report.left \subseteq Stored(report.map)
                /\ report.del \subseteq KeysOf(report.ipv)
  /\ \A k \in report.del : k[2] # Backup

(* init_agg_backup_entries has made the backup entry of v in instance m. *)
Made(v, m) ==
  \/ report.at \notin {"setup", "failed"}
  \/ /\ report.at = "setup"
     /\ \/ v = "v4" /\ report.ipv = "v6"
        \/ v = report.ipv /\ m < report.map

BackupsSoFar ==
  /\ report.at = "setup" => report.ipv \in Prefixed
  /\ \A v \in Prefixed, m \in Instances :
       Made(v, m) => maps[m][BackupKey(v)] # None

(* What the program on c counts on finding is there. *)
EntriesStay(c) ==
  handler[c] # Idle =>
    /\ At(c, "find") => maps[handler[c].map][Key(handler[c])] # None
    /\ handler[c].stats # None =>
         maps[handler[c].stats[1]][handler[c].stats[2]] # None

AInv ==
  /\ Shape
  /\ UsersAreAwaited
  /\ WalkIsSound
  /\ BackupsSoFar
  /\ \A c \in CPUs : EntriesStay(c)

-----------------------------------------------------------------------------
(* The parts that the states are made of. *)

Busy ==
  [at : {"choose", "lookup", "create", "find", "backup", "rtt"},
   pkt : Packets, side : {"src", "dst"}, map : Instances,
   stats : (Instances \X Keys) \union {None}]

LEMMA HandlerIsBusy ==
  /\ \A h \in Handler : h # Idle => h \in Busy
  /\ Busy \subseteq Handler /\ Idle \in Handler
  /\ \A h \in Busy : h # Idle
BY DEF Handler, Busy, Idle

LEMMA KeyIsKey ==
  ASSUME NEW h \in Busy
  PROVE  Key(h) \in Keys /\ BackupKey(h.pkt.ipv) \in Keys
<1>1. PICK v \in Versions :
        /\ h.pkt.src \in KeysOf(v) /\ h.pkt.dst \in KeysOf(v)
        /\ h.pkt.ipv = v
  BY DEF Busy, Packets, KeysOf
<1>2. BackupKey(v) \in KeysOf(v)
  BY DEF BackupKey, KeysOf
<1> QED
  BY <1>1, <1>2 DEF Key, Keys

LEMMA EntryTypes ==
  /\ EmptyStats \in Stats /\ EmptyEntry \in Entry
  /\ \A e \in Entry : clear_percpu(e) \in Entry
  /\ \A e \in Entry : [c \in CPUs |-> [e[c] EXCEPT !.old = TRUE]] \in Entry
BY DEF EmptyStats, Stats, EmptyEntry, Entry, clear_percpu

-----------------------------------------------------------------------------
(* Programs only add entries and change the values in them. *)

Grows ==
  /\ maps' \in [Instances -> [Keys -> Entry \union {None}]]
  /\ \A m \in Instances, k \in Keys : maps[m][k] # None => maps'[m][k] # None

(* Entries in use outlast a step that removes none of those in use. *)
LEMMA StayingOn ==
  ASSUME Shape, NEW c \in CPUs, EntriesStay(c), handler'[c] = handler[c],
         \A m \in Instances, k \in Keys :
            Uses(c, m) /\ maps[m][k] # None => maps'[m][k] # None
  PROVE  EntriesStay(c)'
<1> SUFFICES ASSUME handler[c] # Idle PROVE EntriesStay(c)'
  BY DEF EntriesStay
<1>1. handler[c] \in Busy
  BY HandlerIsBusy DEF Shape
<1>2. handler[c].map \in Instances /\ Key(handler[c]) \in Keys
  BY <1>1, KeyIsKey DEF Busy
<1>3. handler[c].stats # None =>
        handler[c].stats[1] \in Instances /\ handler[c].stats[2] \in Keys
  BY <1>1 DEF Busy
<1>4. At(c, "find") => Uses(c, handler[c].map)
  BY DEF Uses, At
<1>5. handler[c].stats # None => Uses(c, handler[c].stats[1])
  BY DEF Uses
<1>6. Key(handler[c])' = Key(handler[c]) /\ (At(c, "find")' <=> At(c, "find"))
  BY DEF Key, At
<1> QED
  BY <1>2, <1>3, <1>4, <1>5, <1>6 DEF EntriesStay

LEMMA CountingGrows ==
  ASSUME Shape, NEW m \in Instances, NEW k \in Keys, NEW c \in CPUs,
         maps[m][k] # None,
         NEW s \in Stats, maps' = [maps EXCEPT ![m][k][c] = s]
  PROVE  Grows
<1>1. maps[m][k] \in Entry
  BY DEF Shape
<1>2. [maps[m][k] EXCEPT ![c] = s] \in Entry
  BY <1>1 DEF Entry
<1>3. maps' = [maps EXCEPT ![m] = [maps[m] EXCEPT ![k] =
                 [maps[m][k] EXCEPT ![c] = s]]]
  OBVIOUS
<1> QED
  BY <1>2, <1>3, NoneAssumption DEF Shape, Grows

(***************************************************************************)
(* What a step of the program on c may do: it may end, and it uses no      *)
(* instance that it did not use before, unless it is the active one.       *)
(***************************************************************************)
Obeys(c) ==
  /\ UNCHANGED <<active, report>>
  /\ Grows
  /\ handler' \in [CPUs -> Handler]
  /\ \A x \in CPUs \ {c} : handler'[x] = handler[x] /\ (x \in grace => x \in grace')
  /\ \/ handler'[c] = Idle
     \/ /\ grace' = grace
        /\ \A m \in Instances : Uses(c, m)' => Uses(c, m) \/ m = active
  /\ EntriesStay(c)'

LEMMA ObeyingKeepsAInv ==
  ASSUME AInv, NEW c \in CPUs, Obeys(c)
  PROVE  AInv'
<1>1. Shape'
  BY DEF AInv, Obeys, Shape, Grows
<1>2. report.map \in Instances
  BY DEF AInv, Shape, Report
<1>3. \A x \in CPUs \ {c} : Uses(x, report.map)' <=> Uses(x, report.map)
  BY DEF Obeys, Uses, At
<1>4. handler'[c] = Idle => ~ Uses(c, report.map)'
  BY DEF Obeys, Uses
<1>5. UsersAreAwaited'
  <2>1. report.at = "sync" \/ Walking => active # report.map
    BY DEF AInv, UsersAreAwaited
  <2>2. ASSUME report.at = "sync" \/ Walking, Uses(c, report.map)'
        PROVE  Uses(c, report.map) /\ grace' = grace
    BY <1>2, <1>4, <2>1, <2>2 DEF Obeys
  <2>3. (report.at = "sync")' <=> report.at = "sync"
    BY DEF Obeys
  <2>4. Walking' <=> Walking
    BY DEF Obeys, Walking
  <2>5. active' = active /\ report' = report
    BY DEF Obeys
  <2> QED
    BY <1>3, <2>1, <2>2, <2>3, <2>4, <2>5 DEF AInv, UsersAreAwaited, Obeys
<1>6. WalkIsSound'
  <2>1. Stored(report.map) \subseteq Stored(report.map)'
    BY <1>2 DEF Stored, Obeys, Grows
  <2> QED
    BY <2>1 DEF AInv, WalkIsSound, Walking, Obeys
<1>7. BackupsSoFar'
  <2>1. \A v \in Prefixed : BackupKey(v) \in Keys
    BY AggAssumption DEF BackupKey, KeysOf, Keys
  <2> QED
    BY <2>1 DEF AInv, BackupsSoFar, Made, Obeys, Grows
<1>8. ASSUME NEW x \in CPUs
      PROVE  EntriesStay(x)'
  <2>1. CASE x = c
    BY <2>1 DEF Obeys
  <2>2. CASE x # c
    BY <2>2, StayingOn DEF AInv, Obeys, Grows
  <2> QED
    BY <2>1, <2>2
<1> QED
  BY <1>1, <1>5, <1>6, <1>7, <1>8 DEF AInv

-----------------------------------------------------------------------------
(* The steps of the programs. *)

LEMMA BusySteps ==
  ASSUME NEW h \in Busy
  PROVE  /\ \A l \in {"choose", "lookup", "create", "find", "backup", "rtt"} :
              [h EXCEPT !.at = l] \in Busy
         /\ \A m \in Instances : [h EXCEPT !.at = "lookup", !.map = m] \in Busy
BY DEF Busy

LEMMA AtIsBusy ==
  ASSUME Shape, NEW c \in CPUs, ~ At(c, "idle")
  PROVE  handler[c] \in Busy
BY HandlerIsBusy DEF Shape, At, Idle

LEMMA SameMapsGrow == Shape /\ maps' = maps => Grows
BY DEF Shape, Grows

(* A step that changes the program counter only. *)
LEMMA GotoObeys ==
  ASSUME AInv, NEW c \in CPUs, ~ At(c, "idle"), ~ At(c, "choose"), Grows,
         NEW l \in {"choose", "lookup", "create", "find", "backup", "rtt"},
         l = "find" => maps'[handler[c].map][Key(handler[c])] # None,
         Goto(c, l), UNCHANGED <<active, grace, report>>
  PROVE  Obeys(c)
<1>1. handler[c] \in Busy
  BY AtIsBusy DEF AInv
<1>2. handler' = [handler EXCEPT ![c] = [handler[c] EXCEPT !.at = l]]
  BY DEF Goto
<1>3. [handler[c] EXCEPT !.at = l] \in Handler
  BY <1>1, BusySteps, HandlerIsBusy
<1>4. handler' \in [CPUs -> Handler] /\ handler'[c] = [handler[c] EXCEPT !.at = l]
  BY <1>2, <1>3 DEF AInv, Shape
<1>5. /\ handler'[c].map = handler[c].map
      /\ handler'[c].stats = handler[c].stats
      /\ handler[c] # Idle
  BY <1>1, <1>4, HandlerIsBusy DEF Busy
<1>6. \A m \in Instances : Uses(c, m)' => Uses(c, m)
  BY <1>5 DEF Uses, At
<1>7. EntriesStay(c)'
  <2>1. Key(handler[c])' = Key(handler[c]) /\ (At(c, "find")' => l = "find")
    BY <1>1, <1>4 DEF Key, At, Busy
  <2>2. handler[c].stats # None =>
          maps'[handler[c].stats[1]][handler[c].stats[2]] # None
    BY <1>1, <1>5 DEF AInv, EntriesStay, Grows, Busy
  <2> QED
    BY <1>5, <2>1, <2>2 DEF EntriesStay
<1> QED
  BY <1>2, <1>4, <1>6, <1>7 DEF Obeys, AInv, Shape

LEMMA LeaveObeys ==
  ASSUME AInv, NEW c \in CPUs, Grows, Leave(c), UNCHANGED <<active, report>>
  PROVE  Obeys(c)
BY HandlerIsBusy DEF Obeys, AInv, Shape, Leave, EntriesStay

LEMMA ArriveObeys ==
  ASSUME AInv, NEW c \in CPUs, NEW p \in Packets, Arrive(c, p)
  PROVE  Obeys(c)
<1> DEFINE h == [at |-> "choose", pkt |-> p, side |-> "src", map |-> 0,
                 stats |-> None]
<1>1. h \in Busy
  BY DEF Busy, Instances
<1>2. handler' = [handler EXCEPT ![c] = h]
  BY DEF Arrive
<1>3. handler' \in [CPUs -> Handler] /\ handler'[c] = h
  BY <1>1, <1>2, HandlerIsBusy DEF AInv, Shape
<1>4. (\A m \in Instances : ~ Uses(c, m)') /\ EntriesStay(c)'
  BY <1>3 DEF Uses, EntriesStay, At
<1> QED
  BY <1>2, <1>3, <1>4, SameMapsGrow DEF Obeys, Arrive, AInv, Shape

LEMMA ChooseObeys ==
  ASSUME AInv, NEW c \in CPUs, Choose(c)
  PROVE  Obeys(c)
<1> DEFINE h == [handler[c] EXCEPT !.at = "lookup", !.map = active]
<1>1. handler[c] \in Busy
  BY AtIsBusy DEF AInv, Choose, At
<1>2. h \in Busy
  BY <1>1, BusySteps DEF AInv, Shape
<1>3. handler' = [handler EXCEPT ![c] = h]
  BY <1>1 DEF Choose, Busy
<1>4. handler' \in [CPUs -> Handler] /\ handler'[c] = h
  BY <1>2, <1>3, HandlerIsBusy DEF AInv, Shape
<1>5. h.map = active /\ h.stats = handler[c].stats /\ h.at = "lookup"
  BY <1>1 DEF Busy
<1>6. \A m \in Instances : Uses(c, m)' => Uses(c, m) \/ m = active
  BY <1>1, <1>4, <1>5, HandlerIsBusy DEF Uses, At
<1>7. EntriesStay(c)'
  BY <1>1, <1>4, <1>5, HandlerIsBusy DEF AInv, EntriesStay, At, Choose
<1> QED
  BY <1>3, <1>4, <1>6, <1>7, SameMapsGrow DEF Obeys, Choose, AInv, Shape

LEMMA CountObeys ==
  ASSUME AInv, NEW c \in CPUs, NEW k,
         handler[c].at \in {"lookup", "find", "backup"},
         k = None \/ (k \in Keys /\ maps[handler[c].map][k] # None),
         update_subnet_pktcnt(c, k), UNCHANGED <<active, report>>
  PROVE  Obeys(c)
<1> DEFINE h == handler[c]
           s == IF ~ ((h.side = "dst") = AggByDst) THEN h.stats
                ELSE IF k = None THEN None ELSE <<h.map, k>>
<1>1. h \in Busy /\ h # Idle
  BY AtIsBusy, HandlerIsBusy DEF AInv, At
<1>2. Grows
  <2>1. CASE k = None
    BY <2>1, SameMapsGrow DEF update_subnet_pktcnt, AInv
  <2>2. CASE k # None
    <3> DEFINE e == maps[h.map][k]
               t == [e[c] EXCEPT !.traffic = TRUE, !.old = FALSE]
    <3>1. h.map \in Instances /\ k \in Keys /\ e # None
      BY <1>1, <2>2 DEF Busy
    <3>2. e \in Entry
      BY <3>1 DEF AInv, Shape
    <3>3. t \in Stats
      BY <3>2 DEF Entry, Stats
    <3>4. maps' = [maps EXCEPT ![h.map][k][c] = t]
      <4>1. /\ maps \in [Instances -> [Keys -> Entry \union {None}]]
            /\ maps[h.map] \in [Keys -> Entry \union {None}] /\ c \in DOMAIN e
        BY <3>1, <3>2 DEF AInv, Shape, Entry
      <4> QED
        BY <2>2, <3>1, <4>1 DEF update_subnet_pktcnt
    <3> QED
      BY <3>1, <3>3, <3>4, CountingGrows DEF AInv
  <2> QED
    BY <2>1, <2>2
<1>3. s \in (Instances \X Keys) \union {None}
  BY <1>1 DEF Busy
<1>4. s # None =>
        \/ s = h.stats
        \/ k # None /\ s = <<h.map, k>> /\ s[1] = h.map /\ s[2] = k
  OBVIOUS
<1>9. s # None => maps'[s[1]][s[2]] # None
  <2>1. CASE s = h.stats /\ s # None
    BY <1>1, <1>2, <2>1 DEF AInv, EntriesStay, Grows, Busy
  <2>2. CASE k # None /\ s[1] = h.map /\ s[2] = k
    BY <1>1, <1>2, <2>2 DEF Grows, Busy
  <2> QED
    BY <1>4, <2>1, <2>2
<1>5. ASSUME NEW g \in Busy, handler' = [handler EXCEPT ![c] = g],
             g.stats = s, g.map = h.map, g.at # "find", grace' = grace
      PROVE  Obeys(c)
  <2>1. handler' \in [CPUs -> Handler] /\ handler'[c] = g
    BY <1>5, HandlerIsBusy DEF AInv, Shape
  <2>2. \A m \in Instances : Uses(c, m)' => Uses(c, m)
    BY <1>1, <1>3, <1>4, <1>5, <2>1 DEF Uses, At
  <2>3. EntriesStay(c)'
    BY <1>5, <1>9, <2>1 DEF EntriesStay, At
  <2> QED
    BY <1>2, <1>5, <2>1, <2>2, <2>3 DEF Obeys, AInv, Shape
<1>6. CASE handler' = [handler EXCEPT ![c].at = "choose", ![c].side = "dst",
                                      ![c].stats = s] /\ UNCHANGED grace
  <2> DEFINE g == [h EXCEPT !.at = "choose", !.side = "dst", !.stats = s]
  <2>1. g \in Busy /\ g.stats = s /\ g.map = h.map /\ g.at # "find"
    <3> HIDE DEF s, h
    <3> QED
      BY <1>1, <1>3 DEF Busy
  <2>2. handler' = [handler EXCEPT ![c] = g]
    BY <1>1, <1>6 DEF Busy, AInv, Shape
  <2> QED
    BY <1>5, <1>6, <2>1, <2>2
<1>7. CASE handler' = [handler EXCEPT ![c].at = "rtt", ![c].stats = s]
           /\ UNCHANGED grace
  <2> DEFINE g == [h EXCEPT !.at = "rtt", !.stats = s]
  <2>1. g \in Busy /\ g.stats = s /\ g.map = h.map /\ g.at # "find"
    <3> HIDE DEF s, h
    <3> QED
      BY <1>1, <1>3 DEF Busy
  <2>2. handler' = [handler EXCEPT ![c] = g]
    BY <1>1, <1>7 DEF Busy, AInv, Shape
  <2> QED
    BY <1>5, <1>7, <2>1, <2>2
<1>8. CASE Leave(c)
  BY <1>2, <1>8, LeaveObeys
<1> QED
  BY <1>6, <1>7, <1>8 DEF update_subnet_pktcnt

LEMMA LookupObeys ==
  ASSUME AInv, NEW c \in CPUs, lookup_aggregation_stats(c)
  PROVE  Obeys(c)
<1>1. handler[c] \in Busy
  BY AtIsBusy DEF AInv, lookup_aggregation_stats, At
<1>2. CASE maps[handler[c].map][Key(handler[c])] # None
           /\ update_subnet_pktcnt(c, Key(handler[c]))
  BY <1>1, <1>2, KeyIsKey, CountObeys DEF lookup_aggregation_stats, At
<1>3. CASE \E l \in {"create", "backup"} : Goto(c, l) /\ UNCHANGED <<maps, grace>>
  BY <1>3, GotoObeys, SameMapsGrow DEF lookup_aggregation_stats, At, AInv
<1> QED
  BY <1>2, <1>3 DEF lookup_aggregation_stats

LEMMA CreateObeys ==
  ASSUME AInv, NEW c \in CPUs, create_aggregation_stats(c)
  PROVE  Obeys(c)
<1> DEFINE h == handler[c]
           k == Key(h)
<1>1. h \in Busy /\ k \in Keys
  BY AtIsBusy, KeyIsKey DEF AInv, create_aggregation_stats, At
<1>2. \/ maps' = maps
      \/ maps' = [maps EXCEPT ![h.map][k] = EmptyEntry]
  BY DEF create_aggregation_stats
<1>3. h.map \in Instances
  BY <1>1 DEF Busy
<1>4. Grows
  BY <1>1, <1>2, <1>3, SameMapsGrow, EntryTypes, NoneAssumption
     DEF AInv, Shape, Grows
<1>5. PICK l \in {"backup", "find"} :
        Goto(c, l) /\ (l = "find" => maps'[h.map][k] # None)
  <2>1. maps[h.map][k] # None => maps'[h.map][k] # None
    BY <1>1, <1>3, <1>4 DEF Grows
  <2>2. CASE maps[h.map][k] = None /\ ~ IsFull(h.map, h.pkt.ipv)
    BY <1>1, <1>3, <2>2, EntryTypes, NoneAssumption
       DEF create_aggregation_stats, AInv, Shape
  <2> QED
    BY <2>1, <2>2 DEF create_aggregation_stats
<1> QED
  BY <1>4, <1>5, GotoObeys DEF create_aggregation_stats, At

LEMMA FindObeys ==
  ASSUME AInv, NEW c \in CPUs, find_aggregation_stats(c)
  PROVE  Obeys(c)
<1> DEFINE k == IF At(c, "find") THEN Key(handler[c])
                ELSE BackupKey(handler[c].pkt.ipv)
<1>1. handler[c] \in Busy
  BY AtIsBusy DEF AInv, find_aggregation_stats, At
<1>2. k \in Keys
  BY <1>1, KeyIsKey
<1>3. \E j : /\ j = None \/ (j \in Keys /\ maps[handler[c].map][j] # None)
             /\ update_subnet_pktcnt(c, j)
  BY <1>2 DEF find_aggregation_stats
<1> QED
  BY <1>3, CountObeys DEF find_aggregation_stats, At

LEMMA RttObeys ==
  ASSUME AInv, NEW c \in CPUs, aggregate_rtt(c)
  PROVE  Obeys(c)
<1> DEFINE s == handler[c].stats
<1>1. handler[c] \in Busy
  BY AtIsBusy DEF AInv, aggregate_rtt, At
<1>2. CASE s # None /\ maps[s[1]][s[2]] # None
           /\ maps' = [maps EXCEPT ![s[1]][s[2]][c].rtts = @ + 1]
  <2>1. PICK m \in Instances, k \in Keys : m = s[1] /\ k = s[2]
    BY <1>1, <1>2 DEF Busy
  <2> DEFINE e == maps[m][k]
             t == [e[c] EXCEPT !.rtts = e[c].rtts + 1]
  <2>2. e \in Entry
    <3>1. maps[m][k] # None
      BY <1>2, <2>1
    <3>2. maps[m][k] \in Entry \union {None}
      BY DEF AInv, Shape
    <3> QED
      BY <3>1, <3>2
  <2>3. t \in Stats
    <3>1. e[c] \in Stats
      BY <2>2 DEF Entry
    <3>2. e[c].rtts + 1 \in Nat
      BY <3>1 DEF Stats
    <3> HIDE DEF e
    <3> QED
      BY <3>1, <3>2 DEF Stats
  <2>4. maps' = [maps EXCEPT ![m][k][c] = t]
    <3>1. maps[m][k][c] = e[c] /\ e[c] \in Stats
      BY <2>2 DEF Entry
    <3>2. [e[c] EXCEPT !.rtts = @ + 1] = t
      OBVIOUS
    <3>3. /\ maps \in [Instances -> [Keys -> Entry \union {None}]]
          /\ maps[m] \in [Keys -> Entry \union {None}]
      BY DEF AInv, Shape
    <3> QED
      BY <1>2, <2>1, <2>2, <3>1, <3>2, <3>3 DEF Entry, Stats
  <2>5. Grows
    <3>1. maps[m][k] # None
      BY <1>2, <2>1
    <3> HIDE DEF t
    <3> QED
      BY <2>3, <2>4, <3>1, CountingGrows DEF AInv
  <2> QED
    BY <2>5, LeaveObeys DEF aggregate_rtt
<1>3. CASE maps' = maps
  BY <1>3, SameMapsGrow, LeaveObeys DEF aggregate_rtt, AInv
<1> QED
  BY <1>2, <1>3 DEF aggregate_rtt

-----------------------------------------------------------------------------
(* The steps of the report. *)

LEMMA ReportFields ==
  ASSUME NEW r \in Report
  PROVE  /\ r.map \in Instances /\ r.ipv \in {"v4", "v6"}
         /\ r.left \subseteq Keys /\ r.del \subseteq Keys
         /\ r.values \in [Keys -> Entry \union {None}]
BY DEF Report

LEMMA NoKeyIsInBoth ==
  ASSUME NEW u, NEW v, u # v
  PROVE  KeysOf(u) \intersect KeysOf(v) = {}
BY DEF KeysOf

LEMMA ReportIs ==
  ASSUME Shape
  PROVE  /\ report.map \in Instances /\ active \in Instances
         /\ 1 - active \in Instances /\ 1 - active # active
         /\ \A m \in Instances : m # active => m = 1 - active
         /\ \A k \in Keys : k[1] \in {"v4", "v6"} /\ k \in KeysOf(k[1])
<1>1. \A k \in Keys : k[1] \in {"v4", "v6"} /\ k \in KeysOf(k[1])
  BY AggAssumption DEF Keys, KeysOf
<1> QED
  BY <1>1, ReportFields DEF Shape, Instances

LEMMA SwitchKeepsAInv ==
  ASSUME AInv, switch_agg_map
  PROVE  AInv'
<1>1. /\ report' \in Report /\ report'.at = "sync"
      /\ report'.map = active /\ report'.del = report.del
  BY DEF AInv, Shape, switch_agg_map, Report
<1>2. active' \in Instances /\ active' # active
  BY DEF AInv, Shape, switch_agg_map, Instances
<1>3. \A c \in CPUs : Uses(c, report.map)' => c \in grace'
  BY DEF switch_agg_map, Uses, Running
<1>4. \A c \in CPUs : EntriesStay(c)'
  BY StayingOn DEF AInv, switch_agg_map
<1> QED
  BY <1>1, <1>2, <1>3, <1>4
     DEF AInv, Shape, UsersAreAwaited, WalkIsSound, BackupsSoFar, Made, Walking,
         switch_agg_map

(* A walk begins: nobody uses the map, and none of its entries is in hand. *)
LEMMA WalkOverIsSound ==
  ASSUME Shape, NEW v \in {"v4", "v6"}, report' = WalkOver(v),
         maps' \in [Instances -> [Keys -> Entry \union {None}]],
         \A k \in KeysOf(v) : k \in Keys =>
            maps'[report.map][k] = maps[report.map][k]
  PROVE  report' \in Report /\ report'.map = report.map /\ WalkIsSound'
<1> DEFINE l == KeysOf(v) \intersect Stored(report.map)
<1>1. l \subseteq Keys /\ l \subseteq KeysOf(v)
  BY DEF Stored
<1>2. /\ report'.map = report.map /\ report'.ipv = v
      /\ report'.left = l /\ report'.del = {}
  BY DEF WalkOver, Shape, Report
<1>3. report' \in Report
  <2>1. report' = [report EXCEPT !.at = "fetch", !.ipv = v, !.del = {}, !.left = l]
    BY DEF WalkOver
  <2> HIDE DEF l
  <2> QED
    BY <1>1, <2>1 DEF Shape, Report
<1>4. l \subseteq Stored(report.map)'
  BY <1>2 DEF Stored
<1> QED
  BY <1>1, <1>2, <1>3, <1>4 DEF WalkIsSound

LEMMA SyncKeepsAInv ==
  ASSUME AInv, kern_sync_rcu
  PROVE  AInv'
<1>1. report' \in Report /\ report'.map = report.map /\ WalkIsSound'
  BY WalkOverIsSound DEF AInv, Shape, kern_sync_rcu
<1>2. active # report.map /\ \A c \in CPUs : ~ Uses(c, report.map)
  BY DEF AInv, UsersAreAwaited, kern_sync_rcu
<1>3. UsersAreAwaited'
  <2>1. report'.at = "fetch"
    BY DEF kern_sync_rcu, WalkOver, AInv, Shape, Report
  <2>2. \A c \in CPUs : ~ Uses(c, report.map)'
    BY <1>1, <1>2 DEF kern_sync_rcu, Uses, At
  <2> QED
    BY <1>1, <1>2, <2>1, <2>2 DEF UsersAreAwaited, kern_sync_rcu
<1>4. \A c \in CPUs : EntriesStay(c)'
  BY StayingOn DEF AInv, kern_sync_rcu
<1>5. report'.at = "fetch"
  BY DEF kern_sync_rcu, WalkOver, AInv, Shape, Report
<1> QED
  BY <1>1, <1>3, <1>4, <1>5 DEF AInv, Shape, BackupsSoFar, Made, kern_sync_rcu

(* A step of the walk that leaves the programs and the walk's map alone. *)
LEMMA WalkingOn ==
  ASSUME AInv, Walking, UNCHANGED <<active, handler>>,
         report'.map = report.map, report'.at # "sync"
  PROVE  UsersAreAwaited'
BY DEF AInv, UsersAreAwaited, Walking, Uses, At

LEMMA FetchKeepsAInv ==
  ASSUME AInv, NEW B \in Batches, fetch_batch(B)
  PROVE  AInv'
<1> DEFINE values == [k \in Keys |-> IF k \in B THEN ValueAfter(k) ELSE None]
           outdated == {k \in B : IsOutdated(k)}
<1>1. /\ B \subseteq report.left /\ report.left \subseteq Stored(report.map)
      /\ Walking
  BY DEF Batches, AInv, WalkIsSound, Walking, fetch_batch
<1>2. values \in [Keys -> Entry \union {None}]
  <2>1. ASSUME NEW k \in B, k \in Keys
        PROVE  ValueAfter(k) \in Entry
    <3>1. maps[report.map][k] \in Entry
      BY <1>1, <2>1, ReportFields DEF Stored, AInv, Shape
    <3> QED
      BY <3>1, EntryTypes DEF ValueAfter
  <2> QED
    BY <2>1
<1>3. outdated \subseteq B /\ \A k \in outdated : k[2] # Backup
  BY DEF IsOutdated
<1>4. /\ report' = [report EXCEPT !.at = "update", !.left = report.left \ B,
                        !.values = values, !.del = report.del \union outdated]
      /\ report.left \subseteq Keys /\ report.del \subseteq Keys
  BY ReportFields DEF fetch_batch, AInv, Shape
<1> HIDE DEF values, outdated
<1>5. /\ report' \in Report /\ report'.map = report.map
      /\ report'.ipv = report.ipv /\ report'.left = report.left \ B
      /\ report'.del = report.del \union outdated /\ report'.at = "update"
  BY <1>1, <1>2, <1>3, <1>4 DEF AInv, Shape, Report
<1>6. UsersAreAwaited'
  BY <1>1, <1>5, WalkingOn DEF fetch_batch
<1>7. Stored(report.map)' = Stored(report.map)
  BY <1>5 DEF Stored, fetch_batch
<1>8. WalkIsSound'
  BY <1>1, <1>3, <1>5, <1>7 DEF AInv, WalkIsSound
<1>9. \A c \in CPUs : EntriesStay(c)'
  BY StayingOn DEF AInv, fetch_batch
<1> QED
  BY <1>5, <1>6, <1>8, <1>9
     DEF AInv, Shape, BackupsSoFar, Made, fetch_batch

(* Writing an instance as a whole. *)
LEMMA Rewrite ==
  ASSUME Shape, NEW m \in Instances,
         NEW f \in [Keys -> Entry \union {None}], maps' = [maps EXCEPT ![m] = f]
  PROVE  /\ maps' \in [Instances -> [Keys -> Entry \union {None}]]
         /\ maps'[m] = f /\ \A i \in Instances \ {m} : maps'[i] = maps[i]
BY DEF Shape

LEMMA UpdateKeepsAInv ==
  ASSUME AInv, update_batch
  PROVE  AInv'
<1> DEFINE m == report.map
           f == [k \in Keys |-> IF k \in Batch /\ maps[m][k] # None
                                  THEN report.values[k] ELSE maps[m][k]]
<1>1. m \in Instances /\ maps[m] \in [Keys -> Entry \union {None}] /\ Walking
  BY ReportFields DEF AInv, Shape, Walking, update_batch
<1>2. maps' = [maps EXCEPT ![m] = f]
  BY <1>1 DEF update_batch, AInv, Shape
<1>3. /\ f \in [Keys -> Entry \union {None}]
      /\ \A k \in Keys : maps[m][k] # None => f[k] # None
  BY <1>1, ReportFields DEF AInv, Shape, Batch
<1>4. Grows
  <2> HIDE DEF f
  <2>1. /\ maps' \in [Instances -> [Keys -> Entry \union {None}]]
        /\ maps'[m] = f /\ \A i \in Instances \ {m} : maps'[i] = maps[i]
    BY <1>1, <1>2, <1>3, Rewrite DEF AInv
  <2> QED
    BY <1>1, <1>3, <2>1 DEF Grows
<1>5. /\ report' \in Report /\ report'.map = report.map
      /\ report'.ipv = report.ipv /\ report'.left = report.left
      /\ report'.del = report.del /\ report'.at # "sync"
  BY DEF AInv, Shape, Report, update_batch, NoValues
<1>6. UsersAreAwaited'
  BY <1>1, <1>5, WalkingOn DEF update_batch
<1>7. WalkIsSound'
  <2>1. Stored(report.map) \subseteq Stored(report.map)'
    BY <1>1, <1>4, <1>5 DEF Stored, Grows
  <2> QED
    BY <1>1, <1>5, <2>1 DEF AInv, WalkIsSound
<1>8. BackupsSoFar'
  <2>1. report'.at # "setup"
    BY DEF AInv, Shape, Report, update_batch
  <2>2. \A v \in Prefixed, i \in Instances : Made(v, i)
    BY DEF Made, update_batch
  <2> QED
    BY <1>4, <2>1, <2>2, AggAssumption
       DEF AInv, BackupsSoFar, Grows, BackupKey, KeysOf, Keys
<1>9. \A c \in CPUs : EntriesStay(c)'
  BY <1>4, StayingOn DEF AInv, Grows, update_batch
<1> QED
  BY <1>4, <1>5, <1>6, <1>7, <1>8, <1>9 DEF AInv, Shape, Grows, update_batch

LEMMA DeleteKeepsAInv ==
  ASSUME AInv, delete_batch
  PROVE  AInv'
<1> DEFINE m == report.map
           f == [k \in Keys |-> IF k \in report.del THEN None ELSE maps[m][k]]
<1>1. m \in Instances /\ maps[m] \in [Keys -> Entry \union {None}] /\ Walking
  BY ReportFields DEF AInv, Shape, Walking, delete_batch
<1>2. maps' = [maps EXCEPT ![m] = f] /\ f \in [Keys -> Entry \union {None}]
  BY <1>1 DEF delete_batch, AInv, Shape
<1>3. /\ maps' \in [Instances -> [Keys -> Entry \union {None}]]
      /\ maps'[m] = f /\ \A i \in Instances \ {m} : maps'[i] = maps[i]
  <2> HIDE DEF f
  <2> QED
    BY <1>1, <1>2, Rewrite DEF AInv
<1>4. BackupsSoFar'
  <2>1. ASSUME NEW v \in Prefixed
        PROVE  BackupKey(v) \in Keys /\ BackupKey(v) \notin report.del
    BY AggAssumption DEF BackupKey, KeysOf, Keys, AInv, WalkIsSound
  <2>2. \A v \in Prefixed, i \in Instances : Made(v, i)
    BY DEF Made, delete_batch
  <2>3. report'.at # "setup"
    BY DEF delete_batch, WalkOver, AInv, Shape, Report
  <2> QED
    BY <1>1, <1>3, <2>1, <2>2, <2>3 DEF AInv, BackupsSoFar
<1>7. \A c \in CPUs : EntriesStay(c)'
  <2>1. \A c \in CPUs, i \in Instances, k \in Keys :
          Uses(c, i) => maps'[i][k] = maps[i][k]
    BY <1>1, <1>3 DEF AInv, UsersAreAwaited
  <2> QED
    BY <2>1, StayingOn DEF AInv, delete_batch
<1>5. CASE report.ipv = "v4"
  <2>1. \A k \in KeysOf("v6") : k \notin report.del
    BY <1>1, <1>5, NoKeyIsInBoth DEF AInv, WalkIsSound
  <2>2. report' = WalkOver("v6")
    BY <1>5 DEF delete_batch
  <2>3. report' \in Report /\ report'.map = m /\ WalkIsSound'
    <3>1. \A k \in KeysOf("v6") : k \in Keys => maps'[m][k] = maps[m][k]
      BY <1>3, <2>1
    <3> QED
      BY <1>3, <2>2, <3>1, WalkOverIsSound DEF AInv
  <2>4. report'.at # "sync"
    BY <2>2 DEF WalkOver, AInv, Shape, Report
  <2>5. UsersAreAwaited'
    BY <1>1, <2>3, <2>4, WalkingOn DEF delete_batch
  <2> QED
    BY <1>3, <1>4, <1>7, <2>3, <2>5 DEF AInv, Shape, delete_batch
<1>6. CASE report.ipv # "v4"
  <2>1. report' = [report EXCEPT !.at = "idle", !.del = {}]
    BY <1>6 DEF delete_batch
  <2>2. report' \in Report /\ report'.at = "idle" /\ report'.del = {}
    BY <2>1 DEF AInv, Shape, Report
  <2> QED
    BY <1>3, <1>4, <1>7, <2>2
       DEF AInv, Shape, UsersAreAwaited, WalkIsSound, Walking, delete_batch
<1> QED
  BY <1>5, <1>6

LEMMA FailingKeepsAInv ==
  ASSUME AInv, report_failed
  PROVE  AInv'
<1>1. /\ report' \in Report /\ report'.at = "failed"
      /\ report'.del = report.del
  BY DEF AInv, Shape, Report, report_failed
<1>2. \A c \in CPUs : EntriesStay(c)'
  BY StayingOn DEF AInv, report_failed
<1> QED
  BY <1>1, <1>2 DEF AInv, Shape, UsersAreAwaited, WalkIsSound, BackupsSoFar,
              Made, Walking, report_failed

LEMMA BackupKeepsAInv ==
  ASSUME AInv, init_agg_backup_entries
  PROVE  AInv'
<1> DEFINE m == report.map
           v == report.ipv
           k == BackupKey(v)
<1>1. m \in Instances /\ v \in Prefixed /\ k \in Keys
  <2>1. m \in Instances
    BY ReportFields DEF AInv, Shape
  <2>2. v \in Prefixed
    <3>1. report.at = "setup"
      BY DEF init_agg_backup_entries
    <3> QED
      BY <3>1 DEF AInv, BackupsSoFar
  <2>3. \A u \in Prefixed : BackupKey(u) \in Keys
    BY AggAssumption DEF BackupKey, KeysOf, Keys
  <2> QED
    BY <2>1, <2>2, <2>3
<1>2. \/ maps' = maps /\ report' = [report EXCEPT !.at = "failed"]
      \/ maps' = [maps EXCEPT ![m][k] = EmptyEntry] /\ report' = AfterBackup
  BY DEF init_agg_backup_entries
<1>3. Grows
  BY <1>1, <1>2, SameMapsGrow, EntryTypes, NoneAssumption DEF AInv, Shape, Grows
<1>4. /\ report' \in Report /\ report'.at \in {"failed", "setup", "idle"}
      /\ report'.del = report.del
  <2>1. report \in Report /\ report.at = "setup"
    BY DEF AInv, Shape, init_agg_backup_entries
  <2>2. CASE report' = [report EXCEPT !.at = "failed"]
    BY <2>1, <2>2 DEF Report
  <2>3. CASE report' = AfterBackup
    BY <2>1, <2>3 DEF AfterBackup, Report, Instances
  <2> QED
    BY <1>2, <2>2, <2>3
<1>5. UsersAreAwaited' /\ WalkIsSound'
  BY <1>4 DEF UsersAreAwaited, WalkIsSound, Walking, AInv
<1>6. BackupsSoFar'
  <2>1. CASE report'.at = "failed"
    BY <2>1 DEF BackupsSoFar, Made
  <2>2. CASE maps' = [maps EXCEPT ![m][k] = EmptyEntry] /\ report' = AfterBackup
    <3>1. maps'[m][k] # None
      BY <1>1, <2>2, EntryTypes, NoneAssumption DEF AInv, Shape
    <3>2. \A u \in Prefixed, i \in Instances : Made(u, i) =>
            maps'[i][BackupKey(u)] # None
      BY <1>3, AggAssumption DEF AInv, BackupsSoFar, Grows, BackupKey, KeysOf, Keys
    <3>3. \A u \in Prefixed, i \in Instances : Made(u, i)' =>
            Made(u, i) \/ (u = v /\ i = m)
      BY <1>1, <2>2, AggAssumption
         DEF Made, AfterBackup, AInv, Shape, Report, Instances,
             init_agg_backup_entries
    <3>4. report'.at = "setup" => report'.ipv \in Prefixed
      BY <1>1, <2>2 DEF AfterBackup, AInv, Shape, Report, Instances
    <3> QED
      BY <3>1, <3>2, <3>3, <3>4 DEF BackupsSoFar
  <2> QED
    BY <1>2, <2>1, <2>2 DEF AInv, Shape, Report
<1>7. \A c \in CPUs : EntriesStay(c)'
  BY <1>3, StayingOn DEF AInv, Grows, init_agg_backup_entries
<1> QED
  BY <1>3, <1>4, <1>5, <1>6, <1>7 DEF AInv, Shape, Grows, init_agg_backup_entries

LEMMA SilenceKeepsAInv ==
  ASSUME AInv, Silence
  PROVE  AInv'
<1> DEFINE g(m, k) ==
      IF maps[m][k] = None THEN None
      ELSE [c \in CPUs |-> [maps[m][k][c] EXCEPT !.old = TRUE]]
<1>1. ASSUME NEW m \in Instances, NEW k \in Keys
      PROVE  /\ g(m, k) \in Entry \union {None}
             /\ maps[m][k] # None => g(m, k) # None
  <2>1. maps[m][k] \in Entry \union {None}
    BY DEF AInv, Shape
  <2> QED
    BY <2>1, EntryTypes, NoneAssumption
<1>2. maps' = [m \in Instances |-> [k \in Keys |-> g(m, k)]]
  BY DEF Silence
<1> HIDE DEF g
<1>3. /\ maps' \in [Instances -> [Keys -> Entry \union {None}]]
      /\ \A m \in Instances, k \in Keys : maps'[m][k] = g(m, k)
  BY <1>1, <1>2
<1>4. Grows /\ UNCHANGED <<active, handler, report>> /\ report.at = "idle"
  <2>1. UNCHANGED <<active, handler, report>> /\ report.at = "idle"
    BY DEF Silence
  <2> QED
    BY <1>1, <1>3, <2>1 DEF Grows
<1>5. BackupsSoFar'
  BY <1>4, AggAssumption DEF AInv, BackupsSoFar, Made, Grows, BackupKey, KeysOf, Keys
<1>6. \A c \in CPUs : EntriesStay(c)'
  BY <1>4, StayingOn DEF AInv, Grows
<1> QED
  BY <1>3, <1>4, <1>5, <1>6
     DEF AInv, Shape, UsersAreAwaited, WalkIsSound, Walking

-----------------------------------------------------------------------------
(* The invariant, and what follows. *)

LEMMA InitAInv == Init => AInv
<1> SUFFICES ASSUME Init PROVE AInv
  OBVIOUS
<1>1. /\ report \in Report /\ report.at \in {"setup", "idle"}
      /\ report.del = {} /\ report.map = 0
      /\ report.at = "idle" => Prefixed = {}
      /\ report.ipv = IF "v4" \in Prefixed THEN "v4" ELSE "v6"
  BY DEF Init, Report, NoValues, Instances
<1>2. Shape
  BY <1>1, EntryTypes, HandlerIsBusy DEF Init, Shape, Instances
<1>3. BackupsSoFar
  <2>1. \A v \in Prefixed, m \in Instances : ~ Made(v, m)
    BY <1>1, AggAssumption DEF Made, Instances
  <2>2. report.at = "setup" => report.ipv \in Prefixed
    BY <1>1, AggAssumption DEF Init
  <2> QED
    BY <2>1, <2>2 DEF BackupsSoFar
<1>4. \A c \in CPUs : EntriesStay(c)
  BY DEF Init, EntriesStay
<1> QED
  BY <1>1, <1>2, <1>3, <1>4 DEF AInv, UsersAreAwaited, WalkIsSound, Walking

LEMMA NextAInv == AInv /\ [Next]_vars => AInv'
<1> SUFFICES ASSUME AInv, [Next]_vars PROVE AInv'
  OBVIOUS
<1>1. ASSUME NEW c \in CPUs, NEW p \in Packets, Arrive(c, p)
      PROVE  AInv'
  BY <1>1, ArriveObeys, ObeyingKeepsAInv
<1>2. ASSUME NEW c \in CPUs, Proceed(c)
      PROVE  AInv'
  BY <1>2, ChooseObeys, LookupObeys, CreateObeys, FindObeys, RttObeys,
     ObeyingKeepsAInv DEF Proceed
<1>3. CASE report_aggregated_stats
  BY <1>3, BackupKeepsAInv, SwitchKeepsAInv, SyncKeepsAInv, FetchKeepsAInv, UpdateKeepsAInv,
     DeleteKeepsAInv DEF report_aggregated_stats
<1>4. CASE report_failed \/ Silence
  BY <1>4, FailingKeepsAInv, SilenceKeepsAInv
<1>5. CASE UNCHANGED vars
  BY <1>5 DEF vars, AInv, Shape, UsersAreAwaited, WalkIsSound, BackupsSoFar,
              Made, EntriesStay, Key, Walking, Uses, At, Stored
<1> QED
  BY <1>1, <1>2, <1>3, <1>4, <1>5 DEF Next

(***************************************************************************)
(* While the older maps are printed, cleared and pruned, no program on any *)
(* number of CPUs has chosen one of them or still counts through a pointer *)
(* into them: waiting once, for the programs that ran at the switch, is    *)
(* enough.                                                                 *)
(***************************************************************************)
THEOREM QuietWhilePrinted == Spec => []InactiveIsQuiet
<1>1. AInv => InactiveIsQuiet
  BY DEF AInv, UsersAreAwaited, InactiveIsQuiet, Uses, Running
<1> QED
  BY <1>1, InitAInv, NextAInv, PTL DEF Spec

(***************************************************************************)
(* No walk deletes an entry that a program has just created and is about   *)
(* to look up, or keeps a pointer to for the RTT it may measure.           *)
(***************************************************************************)
THEOREM NothingPrunedInUse == Spec => []EntriesInUseStay
<1>1. AInv => EntriesInUseStay
  BY DEF AInv, EntriesStay, EntriesInUseStay, Running
<1> QED
  BY <1>1, InitAInv, NextAInv, PTL DEF Spec

(***************************************************************************)
(* Once user space waits for its timer, the backup entries are in both     *)
(* instances for ever, whatever programs have created before and create    *)
(* since, and whatever is written back or pruned.                          *)
(***************************************************************************)
THEOREM BackupsAreKept == Spec => []BackupStays
<1>1. AInv => BackupStays
  BY DEF AInv, BackupsSoFar, Made, BackupStays
<1> QED
  BY <1>1, InitAInv, NextAInv, PTL DEF Spec

-----------------------------------------------------------------------------
(* Sums. *)

(***************************************************************************)
(* Sums over finite sets. A sum of naturals is the number of dots in a     *)
(* diagram that has as many dots in a column as the term says: so what is  *)
(* known of cardinalities, which needs no induction, holds of sums. That   *)
(* the fold counts the dots is shown by a smallest set for which it does   *)
(* not.                                                                    *)
(***************************************************************************)
LEMMA SmallestSubset ==
  ASSUME NEW S, IsFiniteSet(S), NEW Bad \in SUBSET SUBSET S, Bad # {}
  PROVE  \E s \in Bad : \A t \in SUBSET s : t # s => t \notin Bad
<1>1. IsWellFoundedOn(StrictSubsetOrdering(S), SUBSET S)
  BY FS_StrictSubsetOrderingWellFounded, FS_FiniteSubsetsOfFinite
<1>2. PICK s \in Bad : \A t \in Bad : <<t, s>> \notin StrictSubsetOrdering(S)
  BY <1>1, WFMin
<1> QED
  BY <1>2 DEF StrictSubsetOrdering

Column(f, x) == {<<x, i>> : i \in 1 .. f[x]}
Dots(f, S) == {p \in S \X Nat : p[2] \in 1 .. f[p[1]]}

Some(s) == CHOOSE x \in s : TRUE

LEMMA SomeIsIn == ASSUME NEW s, s # {} PROVE Some(s) \in s
BY DEF Some

LEMMA ColumnCount ==
  ASSUME NEW f, NEW x, f[x] \in Nat
  PROVE  IsFiniteSet(Column(f, x)) /\ Cardinality(Column(f, x)) = f[x]
<1> DEFINE n == f[x]
           up == [i \in 1 .. n |-> <<x, i>>]
<1>1. IsFiniteSet(1 .. n) /\ Cardinality(1 .. n) = n
  <2>1. n \in Nat
    OBVIOUS
  <2> HIDE DEF n
  <2> QED
    BY <2>1, FS_Interval
<1>2. up \in Bijection(1 .. n, Column(f, x))
  <2>1. up \in [1 .. n -> Column(f, x)]
    <3>1. \A i \in 1 .. n : <<x, i>> \in Column(f, x)
      BY DEF Column
    <3> HIDE DEF n
    <3> QED
      BY <3>1
  <2>2. \A i, j \in 1 .. n : up[i] = up[j] => i = j
    OBVIOUS
  <2>3. \A p \in Column(f, x) : \E i \in 1 .. n : up[i] = p
    BY DEF Column
  <2> HIDE DEF up
  <2> QED
    BY <2>1, <2>2, <2>3 DEF Bijection, Injection, Surjection, IsInjective
<1>3. ExistsBijection(1 .. n, Column(f, x))
  BY <1>2 DEF ExistsBijection
<1> QED
  BY <1>1, <1>3, FS_Bijection

LEMMA DotsSplit ==
  ASSUME NEW S, NEW f \in [S -> Nat], NEW s \in SUBSET S, NEW x \in s
  PROVE  /\ Dots(f, s) = Dots(f, s \ {x}) \union Column(f, x)
         /\ Dots(f, s \ {x}) \intersect Column(f, x) = {}
<1>1. f[x] \in Nat
  OBVIOUS
<1>2. ASSUME NEW p
      PROVE  p \in Dots(f, s) <=> p \in Dots(f, s \ {x}) \/ p \in Column(f, x)
  BY <1>1 DEF Dots, Column
<1> QED
  BY <1>2 DEF Dots, Column

LEMMA DotsFinite ==
  ASSUME NEW S, IsFiniteSet(S), NEW f \in [S -> Nat]
  PROVE  \A s \in SUBSET S : IsFiniteSet(Dots(f, s))
<1> DEFINE Bad == {s \in SUBSET S : ~ IsFiniteSet(Dots(f, s))}
<1> SUFFICES ASSUME Bad # {} PROVE FALSE
  OBVIOUS
<1>1. PICK s \in Bad : \A t \in SUBSET s : t # s => t \notin Bad
  <2>1. Bad \in SUBSET SUBSET S
    OBVIOUS
  <2> HIDE DEF Bad
  <2> QED
    BY <2>1, SmallestSubset
<1>2. s # {}
  <2>1. Dots(f, {}) = {}
    BY DEF Dots
  <2> QED
    BY <2>1, FS_EmptySet
<1>3. PICK x \in s : TRUE
  BY <1>2
<1>4. IsFiniteSet(Dots(f, s \ {x}))
  BY <1>1, <1>3
<1>5. IsFiniteSet(Column(f, x))
  BY ColumnCount
<1>6. Dots(f, s) = Dots(f, s \ {x}) \union Column(f, x)
  <2>1. s \in SUBSET S /\ x \in s
    BY <1>3
  <2> HIDE DEF Bad
  <2> QED
    BY <2>1, DotsSplit
<1>7. IsFiniteSet(Dots(f, s \ {x}) \union Column(f, x))
  <2> DEFINE A == Dots(f, s \ {x})
             B == Column(f, x)
  <2>1. IsFiniteSet(A) /\ IsFiniteSet(B)
    BY <1>4, <1>5
  <2> HIDE DEF A, B
  <2>2. IsFiniteSet(A \union B)
    BY <2>1, FS_Union
  <2> QED
    BY <2>2 DEF A, B
<1> QED
  BY <1>6, <1>7

(* The count of the dots solves the recursion of the fold, and it alone does. *)
LEMMA SumCountsDots ==
  ASSUME NEW S, IsFiniteSet(S), NEW f \in [S -> Nat]
  PROVE  SumFunction(f) = Cardinality(Dots(f, S))
<1> DEFINE Step(g, s) ==
      IF s = {} THEN 0
      ELSE LET x == CHOOSE x \in s : TRUE IN f[x] + g[s \ {x}]
    Solves(g) == g = [s \in SUBSET S |-> Step(g, s)]
    count == [s \in SUBSET S |-> Cardinality(Dots(f, s))]
<1>1. PICK sum : SumFunction(f) = sum[S] /\ sum = CHOOSE g : Solves(g)
  BY DEF SumFunction, SumFunctionOnSet, FoldFunctionOnSet, MapThenFoldSet
<1>2. ASSUME NEW s \in SUBSET S
      PROVE  count[s] = Step(count, s) /\ count[s] \in Nat
  <2>1. CASE s = {}
    <3>1. Dots(f, s) = {}
      BY <2>1 DEF Dots
    <3> QED
      BY <2>1, <3>1, FS_EmptySet
  <2>2. CASE s # {}
    <3> DEFINE x == Some(s)
               t == s \ {x}
    <3>1. x \in s
      BY <2>2, SomeIsIn
    <3>2. IsFiniteSet(Dots(f, t)) /\ IsFiniteSet(Column(f, x)) /\ f[x] \in Nat
          /\ Cardinality(Column(f, x)) = f[x]
      BY <3>1, DotsFinite, ColumnCount
    <3>3. /\ Dots(f, s) = Dots(f, t) \union Column(f, x)
          /\ Dots(f, t) \intersect Column(f, x) = {}
      BY <3>1, DotsSplit
    <3>4. Cardinality(Dots(f, t)) \in Nat
      BY <3>2, FS_CardinalityType
    <3>5. Cardinality(Dots(f, s)) = f[x] + Cardinality(Dots(f, t))
      <4> DEFINE A == Dots(f, t)
                 B == Column(f, x)
      <4>1. /\ IsFiniteSet(A) /\ IsFiniteSet(B) /\ A \intersect B = {}
            /\ Cardinality(A) \in Nat /\ Cardinality(B) = f[x] /\ f[x] \in Nat
            /\ Dots(f, s) = A \union B
        BY <3>2, <3>3, <3>4
      <4> HIDE DEF A, B, x, t
      <4>2. Cardinality(A \union B) = Cardinality(A) + Cardinality(B)
        <5>1. Cardinality(A \intersect B) = 0
          BY <4>1, FS_EmptySet
        <5>2. Cardinality(A \union B)
                = Cardinality(A) + Cardinality(B) - Cardinality(A \intersect B)
          BY <4>1, FS_Union
        <5> QED
          BY <4>1, <5>1, <5>2
      <4>3. Cardinality(Dots(f, s)) = f[x] + Cardinality(A)
        BY <4>1, <4>2
      <4> QED
        BY <4>3 DEF A
    <3>6. count[s] = f[x] + count[t]
      BY <3>5
    <3> QED
      BY <2>2, <3>2, <3>4, <3>6 DEF Some
  <2> QED
    BY <2>1, <2>2
<1>3. Solves(count)
  <2>1. \A s \in SUBSET S : count[s] = Step(count, s)
    BY <1>2
  <2> HIDE DEF Step
  <2> QED
    BY <2>1
<1>4. Solves(sum)
  <2> HIDE DEF Solves, count
  <2> QED
    BY <1>1, <1>3
<1>5. \A s \in SUBSET S : sum[s] = count[s]
  <2> DEFINE Bad == {s \in SUBSET S : sum[s] # count[s]}
  <2> SUFFICES ASSUME Bad # {} PROVE FALSE
    OBVIOUS
  <2>1. PICK s \in Bad : \A t \in SUBSET s : t # s => t \notin Bad
    <3>1. Bad \in SUBSET SUBSET S
      OBVIOUS
    <3> HIDE DEF Bad
    <3> QED
      BY <3>1, SmallestSubset
  <2>2. sum[s] = Step(sum, s) /\ count[s] = Step(count, s)
    <3>1. \A u \in SUBSET S : sum[u] = Step(sum, u)
      <4> HIDE DEF Step
      <4> QED
        BY <1>4
    <3> HIDE DEF Step, count
    <3> QED
      BY <1>2, <3>1
  <2>3. CASE s = {}
    BY <2>2, <2>3
  <2>4. CASE s # {}
    <3> DEFINE x == CHOOSE x \in s : TRUE
    <3>1. x \in s
      BY <2>4
    <3>2. sum[s \ {x}] = count[s \ {x}]
      BY <2>1, <3>1
    <3> QED
      BY <2>2, <2>4, <3>2
  <2> QED
    BY <2>3, <2>4
<1> QED
  BY <1>1, <1>5

LEMMA SumOfNaturals ==
  ASSUME NEW S, IsFiniteSet(S), NEW f \in [S -> Nat]
  PROVE  SumFunction(f) \in Nat
<1>1. IsFiniteSet(Dots(f, S))
  BY DotsFinite
<1> QED
  BY <1>1, SumCountsDots, FS_CardinalityType

LEMMA SumOfZeros ==
  ASSUME NEW S, IsFiniteSet(S), NEW f \in [S -> Nat], \A x \in S : f[x] = 0
  PROVE  SumFunction(f) = 0
<1>1. Dots(f, S) = {}
  BY DEF Dots
<1> QED
  BY <1>1, SumCountsDots, FS_EmptySet

LEMMA SumPlusOne ==
  ASSUME NEW S, IsFiniteSet(S), NEW f \in [S -> Nat], NEW x \in S
  PROVE  SumFunction([f EXCEPT ![x] = @ + 1]) = SumFunction(f) + 1
<1> DEFINE g == [f EXCEPT ![x] = @ + 1]
           dot == <<x, f[x] + 1>>
<1>1. g \in [S -> Nat] /\ f[x] \in Nat
  OBVIOUS
<1>2. Dots(g, S) = Dots(f, S) \union {dot} /\ dot \notin Dots(f, S)
  <2>1. \A y \in S : g[y] = IF y = x THEN f[x] + 1 ELSE f[y]
    OBVIOUS
  <2>2. dot \in Dots(g, S) /\ dot \notin Dots(f, S)
    BY <1>1, <2>1 DEF Dots
  <2>3. Dots(g, S) \subseteq Dots(f, S) \union {dot}
    BY <1>1, <2>1 DEF Dots
  <2>4. Dots(f, S) \subseteq Dots(g, S)
    BY <1>1, <2>1 DEF Dots
  <2> QED
    BY <2>2, <2>3, <2>4
<1>3. IsFiniteSet(Dots(f, S))
  BY DotsFinite
<1>4. Cardinality(Dots(g, S)) = Cardinality(Dots(f, S)) + 1
  BY <1>2, <1>3, FS_AddElement
<1> QED
  BY <1>1, <1>4, SumCountsDots

-----------------------------------------------------------------------------
(* The RTTs in an entry, over all CPUs. *)

LEMMA RttsOfAnEntry ==
  ASSUME NEW e \in Entry
  PROVE  /\ [c \in CPUs |-> e[c].rtts] \in [CPUs -> Nat]
         /\ Rtts(e) \in Nat
<1>1. [c \in CPUs |-> e[c].rtts] \in [CPUs -> Nat]
  BY DEF Entry, Stats
<1> QED
  BY <1>1, SumOfNaturals, AggAssumption DEF Rtts

LEMMA NoRtts ==
  ASSUME NEW e \in Entry, \A c \in CPUs : e[c].rtts = 0
  PROVE  Rtts(e) = 0
<1> DEFINE f == [c \in CPUs |-> e[c].rtts]
<1>1. f \in [CPUs -> Nat] /\ \A c \in CPUs : f[c] = 0
  BY RttsOfAnEntry
<1> HIDE DEF f
<1>2. SumFunction(f) = 0
  BY <1>1, SumOfZeros, AggAssumption
<1> QED
  BY <1>2 DEF f, Rtts

LEMMA SameRtts ==
  ASSUME NEW e, NEW d, \A c \in CPUs : d[c].rtts = e[c].rtts
  PROVE  Rtts(d) = Rtts(e)
<1>1. [c \in CPUs |-> d[c].rtts] = [c \in CPUs |-> e[c].rtts]
  OBVIOUS
<1> QED
  BY <1>1 DEF Rtts

LEMMA OneMoreRtt ==
  ASSUME NEW e \in Entry, NEW d \in Entry, NEW c \in CPUs,
         \A x \in CPUs : d[x].rtts = IF x = c THEN e[x].rtts + 1 ELSE e[x].rtts
  PROVE  Rtts(d) = Rtts(e) + 1
<1> DEFINE f == [x \in CPUs |-> e[x].rtts]
           g == [x \in CPUs |-> d[x].rtts]
<1>1. f \in [CPUs -> Nat]
  BY RttsOfAnEntry
<1>2. g = [f EXCEPT ![c] = @ + 1]
  OBVIOUS
<1> HIDE DEF f, g
<1>3. SumFunction(g) = SumFunction(f) + 1
  BY <1>1, <1>2, SumPlusOne, AggAssumption
<1> QED
  BY <1>3 DEF f, g, Rtts

-----------------------------------------------------------------------------
(***************************************************************************)
(* What the refinement rests on.  An entry without traffic has no RTTs:    *)
(* the packet that an RTT comes from has been counted before, on the same  *)
(* CPU and in the same entry, and no report clears the entry in between.   *)
(***************************************************************************)
RttsHaveTraffic(e) == \A c \in CPUs : e[c].rtts > 0 => e[c].traffic

PointsToTraffic(c) ==
  handler[c] # Idle /\ handler[c].stats # None =>
    maps[handler[c].stats[1]][handler[c].stats[2]][c].traffic

TrafficInv ==
  /\ \A m \in Instances, k \in Keys :
       maps[m][k] # None => RttsHaveTraffic(maps[m][k])
  /\ \A c \in CPUs : PointsToTraffic(c)

(* What the report has in its hands, between printing and writing back. *)
HandInv ==
  /\ report.at \in {"setup", "idle", "sync", "fetch", "delete"} => Batch = {}
  /\ report.at \in {"setup", "idle", "sync"} => report.del = {}
  /\ report.at = "delete" => report.left = {}
  /\ Batch \union report.del # {} => report.map # active
  /\ Walking => report.left \intersect report.del = {}
  /\ \A k \in Batch :
       /\ RttsHaveTraffic(report.values[k])
       /\ k \notin report.del => \A c \in CPUs : report.values[k][c].rtts = 0

(* Programs use the instance that is not active only until the wait ends. *)
QuietInv == \A c \in CPUs : Uses(c, 1 - active) => report.at = "sync"

(* The keys of the walk that have had their turn. *)
Done(k) ==
  \/ k[1] = report.ipv /\ k \notin report.left
  \/ k[1] = "v4" /\ report.ipv = "v6"

PrintedInv ==
  /\ report.at \in {"setup", "idle"} =>
       \A k \in Keys : Unprinted(1 - active, k) = 0
  /\ Walking => \A k \in Keys : Done(k) => Unprinted(report.map, k) = 0

BookInv == TrafficInv /\ HandInv /\ QuietInv /\ PrintedInv

RInv == AInv /\ BookInv

(***************************************************************************)
(* Steps that keep the numbers: they may add empty entries, count packets  *)
(* and let entries become old.                                             *)
(***************************************************************************)
Hidden(m, k) == m = report.map /\ k \in Batch \union report.del

LEMMA UnprintedIs ==
  \A m, k : Unprinted(m, k) =
    IF maps[m][k] = None \/ Hidden(m, k) THEN 0 ELSE Rtts(maps[m][k])
BY DEF Unprinted, Hidden

KeepsNumbers ==
  \A m \in Instances, k \in Keys :
    /\ maps[m][k] # None =>
         /\ maps'[m][k] # None
         /\ \A c \in CPUs : /\ maps'[m][k][c].rtts = maps[m][k][c].rtts
                            /\ maps[m][k][c].traffic => maps'[m][k][c].traffic
    /\ maps[m][k] = None /\ maps'[m][k] # None =>
         \A c \in CPUs : maps'[m][k][c].rtts = 0

BookKept == \A m \in Instances, k \in Keys : Unprinted(m, k)' = Unprinted(m, k)

LEMMA KeepingNumbersKeepsBook ==
  ASSUME Shape, Shape', KeepsNumbers,
         \A m \in Instances, k \in Keys : Hidden(m, k)' <=> Hidden(m, k)
  PROVE  BookKept
<1> SUFFICES ASSUME NEW m \in Instances, NEW k \in Keys
             PROVE  Unprinted(m, k)' = Unprinted(m, k)
  BY DEF BookKept
<1>1. Unprinted(m, k)' =
        IF maps'[m][k] = None \/ Hidden(m, k)' THEN 0 ELSE Rtts(maps'[m][k])
  BY DEF Unprinted, Hidden, Rtts, Batch
<1>2. maps'[m][k] \in Entry \union {None}
  BY DEF Shape
<1>3. CASE maps[m][k] = None
  <2>1. CASE maps'[m][k] = None
    BY <1>1, <1>3, <2>1, UnprintedIs
  <2>2. CASE maps'[m][k] # None
    <3>1. Rtts(maps'[m][k]) = 0
      BY <1>2, <1>3, <2>2, NoRtts DEF KeepsNumbers
    <3> QED
      BY <1>1, <1>3, <3>1, UnprintedIs
  <2> QED
    BY <2>1, <2>2
<1>4. CASE maps[m][k] # None
  <2>1. maps'[m][k] # None /\ Rtts(maps'[m][k]) = Rtts(maps[m][k])
    BY <1>4, SameRtts DEF KeepsNumbers
  <2> QED
    BY <1>1, <1>4, <2>1, UnprintedIs
<1> QED
  BY <1>3, <1>4

LEMMA KeepingNumbersKeepsTraffic ==
  ASSUME Shape, Shape', KeepsNumbers, NEW m \in Instances, NEW k \in Keys,
         maps[m][k] # None => RttsHaveTraffic(maps[m][k]), maps'[m][k] # None
  PROVE  RttsHaveTraffic(maps'[m][k])
<1>1. maps'[m][k] \in Entry
  BY DEF Shape
<1> QED
  BY <1>1 DEF KeepsNumbers, RttsHaveTraffic, Entry, Stats

LEMMA AddingKeepsNumbers ==
  ASSUME Shape, NEW m \in Instances, NEW k \in Keys, maps[m][k] = None,
         maps' = [maps EXCEPT ![m][k] = EmptyEntry]
  PROVE  KeepsNumbers
<1>1. \A i \in Instances, j \in Keys :
        maps'[i][j] = IF i = m /\ j = k THEN EmptyEntry ELSE maps[i][j]
  BY DEF Shape
<1>2. \A c \in CPUs : EmptyEntry[c].rtts = 0
  BY DEF EmptyEntry, EmptyStats
<1> QED
  BY <1>1, <1>2 DEF KeepsNumbers

LEMMA SameMapsKeepNumbers == maps' = maps => KeepsNumbers
BY DEF KeepsNumbers

(***************************************************************************)
(* The steps of the programs. *)
(***************************************************************************)
OnlyCellChanges(m, k, c, t) ==
  /\ \A i \in Instances, j \in Keys :
       i # m \/ j # k => maps'[i][j] = maps[i][j]
  /\ maps'[m][k][c] = t
  /\ \A x \in CPUs \ {c} : maps'[m][k][x] = maps[m][k][x]

LEMMA CellWritten ==
  ASSUME Shape, NEW m \in Instances, NEW k \in Keys, NEW c \in CPUs,
         maps[m][k] # None,
         NEW t \in Stats, maps' = [maps EXCEPT ![m][k][c] = t]
  PROVE  OnlyCellChanges(m, k, c, t)
<1>1. maps[m][k] \in Entry
  BY DEF Shape
<1>2. maps' = [maps EXCEPT ![m] = [maps[m] EXCEPT ![k] =
                 [maps[m][k] EXCEPT ![c] = t]]]
  OBVIOUS
<1>3. \A i \in Instances, j \in Keys :
        maps'[i][j] = IF i = m /\ j = k THEN [maps[m][k] EXCEPT ![c] = t]
                      ELSE maps[i][j]
  BY <1>2 DEF Shape
<1> QED
  BY <1>1, <1>3 DEF Entry, OnlyCellChanges

LEMMA CountTells ==
  ASSUME RInv, AInv', NEW c \in CPUs, NEW k,
         handler[c].at \in {"lookup", "find", "backup"},
         k = None \/ (k \in Keys /\ maps[handler[c].map][k] # None),
         update_subnet_pktcnt(c, k)
  PROVE  KeepsNumbers /\ PointsToTraffic(c)'
<1> DEFINE h == handler[c]
           s == IF ~ ((h.side = "dst") = AggByDst) THEN h.stats
                ELSE IF k = None THEN None ELSE <<h.map, k>>
<1>1. h \in Busy /\ h # Idle /\ Shape /\ Shape'
  BY AtIsBusy, HandlerIsBusy DEF RInv, AInv, At
<1>2. h.map \in Instances
  BY <1>1 DEF Busy
<1>6. Shape
  BY <1>1
<1>3. /\ KeepsNumbers
      /\ k # None => maps'[h.map][k][c].traffic
  <2>1. CASE k = None
    BY <2>1, SameMapsKeepNumbers DEF update_subnet_pktcnt
  <2>2. CASE k # None
    <3> DEFINE e == maps[h.map][k]
               t == [e[c] EXCEPT !.traffic = TRUE, !.old = FALSE]
    <3>1. k \in Keys /\ e # None
      BY <2>2
    <3>2. e \in Entry
      BY <1>1, <1>2, <3>1 DEF Shape
    <3>3. e[c] \in Stats /\ t.traffic = TRUE /\ t.rtts = e[c].rtts
      BY <3>2 DEF Entry, Stats
    <3>4. maps' = [maps EXCEPT ![h.map][k][c] = t]
      BY <1>2, <1>6, <2>2, <3>1, <3>2 DEF update_subnet_pktcnt, Shape, Entry, Stats
    <3>7. t \in Stats
      BY <3>2 DEF Entry, Stats
    <3>5. maps'[h.map][k] # None
      <4> HIDE DEF t, h
      <4> QED
        BY <1>1, <1>2, <3>1, <3>4, <3>7, CountingGrows DEF Grows
    <3>6. OnlyCellChanges(h.map, k, c, t)
      <4> HIDE DEF t, h, s
      <4> QED
        BY <1>2, <1>6, <3>1, <3>4, <3>7, CellWritten
    <3> HIDE DEF t, h
    <3> QED
      BY <1>2, <3>1, <3>3, <3>5, <3>6 DEF KeepsNumbers, OnlyCellChanges
  <2> QED
    BY <2>1, <2>2
<1>4. handler'[c] = Idle \/ handler'[c].stats = s
  <2>1. handler \in [CPUs -> Handler] /\ h \in Busy
    BY <1>1 DEF Shape
  <2>2. CASE Leave(c)
    BY <2>1, <2>2 DEF Leave
  <2>3. CASE handler' = [handler EXCEPT ![c].at = "choose", ![c].side = "dst",
                                        ![c].stats = s]
    <3> HIDE DEF s
    <3> QED
      BY <2>1, <2>3 DEF Busy
  <2>4. CASE handler' = [handler EXCEPT ![c].at = "rtt", ![c].stats = s]
    <3> HIDE DEF s
    <3> QED
      BY <2>1, <2>4 DEF Busy
  <2> QED
    BY <2>2, <2>3, <2>4 DEF update_subnet_pktcnt
<1>5. s # None => maps'[s[1]][s[2]][c].traffic
  <2>1. CASE s = h.stats /\ s # None
    <3>1. s \in Instances \X Keys
      BY <1>1, <2>1 DEF Busy
    <3>2. maps[s[1]][s[2]] # None /\ maps[s[1]][s[2]][c].traffic
      BY <1>1, <2>1 DEF RInv, BookInv, TrafficInv, PointsToTraffic, AInv, EntriesStay
    <3>3. PICK m \in Instances, j \in Keys : s[1] = m /\ s[2] = j
      BY <3>1
    <3> HIDE DEF s
    <3>4. maps'[m][j][c].traffic
      BY <1>3, <3>2, <3>3 DEF KeepsNumbers
    <3> QED
      BY <3>3, <3>4
  <2>2. CASE k # None /\ s = <<h.map, k>>
    <3>1. s[1] = h.map /\ s[2] = k
      BY <2>2
    <3> HIDE DEF s
    <3> QED
      BY <1>3, <2>2, <3>1
  <2> QED
    BY <2>1, <2>2
<1> QED
  BY <1>3, <1>4, <1>5 DEF PointsToTraffic

LEMMA ProgramKeepsBook ==
  ASSUME RInv, AInv', NEW c \in CPUs, Obeys(c), KeepsNumbers,
         PointsToTraffic(c)'
  PROVE  BookInv' /\ BookKept
<1>1. Shape /\ Shape' /\ UNCHANGED <<active, report>>
  BY DEF RInv, AInv, Obeys
<1>2. BookKept
  <2>1. \A m \in Instances, k \in Keys : Hidden(m, k)' <=> Hidden(m, k)
    BY <1>1 DEF Hidden, Batch
  <2> QED
    BY <1>1, <2>1, KeepingNumbersKeepsBook
<1>3. TrafficInv'
  <2>1. ASSUME NEW x \in CPUs, handler'[x] # Idle, handler'[x].stats # None
        PROVE  maps'[handler'[x].stats[1]][handler'[x].stats[2]][x].traffic
    <3>1. CASE x = c
      BY <2>1, <3>1 DEF PointsToTraffic
    <3>2. CASE x # c
      <4>1. handler'[x] = handler[x] /\ handler[x] \in Busy
        BY <2>1, <3>2, HandlerIsBusy DEF Obeys, RInv, AInv, Shape
      <4>2. PICK m \in Instances, k \in Keys :
              handler[x].stats[1] = m /\ handler[x].stats[2] = k
        BY <2>1, <4>1 DEF Busy
      <4>3. maps[m][k] # None /\ maps[m][k][x].traffic
        BY <2>1, <4>1, <4>2 DEF RInv, BookInv, TrafficInv, PointsToTraffic, AInv, EntriesStay
      <4>4. maps'[m][k][x].traffic
        BY <4>3 DEF KeepsNumbers
      <4> QED
        BY <4>1, <4>2, <4>4
    <3> QED
      BY <3>1, <3>2
  <2>2. ASSUME NEW m \in Instances, NEW k \in Keys, maps'[m][k] # None
        PROVE  RttsHaveTraffic(maps'[m][k])
    BY <1>1, <2>2, KeepingNumbersKeepsTraffic DEF RInv, BookInv, TrafficInv, PointsToTraffic
  <2> QED
    BY <2>1, <2>2 DEF TrafficInv, PointsToTraffic
<1>4. HandInv'
  BY <1>1 DEF RInv, BookInv, HandInv, Batch, Walking
<1>5. QuietInv'
  <2>1. ASSUME NEW x \in CPUs, Uses(x, 1 - active)'
        PROVE  Uses(x, 1 - active)
    <3>1. PICK m \in Instances : m = 1 - active /\ m # active
      BY <1>1, ReportIs
    <3>4. Uses(x, 1 - active)' <=> Uses(x, m)'
      BY <1>1, <3>1 DEF Uses
    <3>2. CASE x = c
      <4>1. Uses(c, m)' => Uses(c, m) \/ m = active
        BY DEF Obeys, Uses
      <4> QED
        BY <2>1, <3>1, <3>2, <3>4, <4>1
    <3>3. CASE x # c
      BY <1>1, <2>1, <3>3 DEF Obeys, Uses, At
    <3> QED
      BY <3>2, <3>3
  <2> QED
    BY <1>1, <2>1 DEF RInv, BookInv, QuietInv
<1>6. PrintedInv'
  <2>1. 1 - active \in Instances /\ report.map \in Instances
    BY <1>1, ReportIs
  <2>2. \A k \in Keys : /\ Unprinted(1 - active, k)' = Unprinted(1 - active, k)
                        /\ Unprinted(report.map, k)' = Unprinted(report.map, k)
    <3>1. \A m \in Instances, k \in Keys : (1 - active)' = m =>
            Unprinted(1 - active, k)' = Unprinted(m, k)'
      BY DEF Unprinted
    <3> QED
      BY <1>1, <1>2, <2>1 DEF BookKept, Unprinted
  <2>3. \A k \in Keys : Done(k)' <=> Done(k)
    BY <1>1 DEF Done
  <2> QED
    BY <1>1, <2>2, <2>3 DEF RInv, BookInv, PrintedInv, Walking
<1> QED
  BY <1>2, <1>3, <1>4, <1>5, <1>6 DEF BookInv

(* A step that leaves the maps alone and changes the program counter only. *)
LEMMA SameStats ==
  ASSUME RInv, NEW c \in CPUs, ~ At(c, "idle"), maps' = maps,
         handler'[c].stats = handler[c].stats
  PROVE  PointsToTraffic(c)'
<1>1. handler[c] # Idle
  BY DEF At, Idle
<1> QED
  BY <1>1 DEF RInv, BookInv, TrafficInv, PointsToTraffic

LEMMA ProgramStepsKeepBook ==
  ASSUME RInv, NEW c \in CPUs,
         \/ \E p \in Packets : Arrive(c, p)
         \/ Choose(c)
         \/ lookup_aggregation_stats(c)
         \/ create_aggregation_stats(c)
         \/ find_aggregation_stats(c)
  PROVE  BookInv' /\ BookKept
<1> USE DEF RInv
<1>1. Obeys(c)
  BY ArriveObeys, ChooseObeys, LookupObeys, CreateObeys, FindObeys
<1>2. AInv' /\ Shape
  BY <1>1, ObeyingKeepsAInv DEF AInv
<1>3. CASE \E p \in Packets : Arrive(c, p)
  <2>1. maps' = maps /\ handler'[c].stats = None
    BY <1>2, <1>3 DEF Arrive, Shape
  <2> QED
    BY <1>1, <1>2, <2>1, SameMapsKeepNumbers, ProgramKeepsBook DEF PointsToTraffic
<1>4. CASE Choose(c)
  <2>1. maps' = maps /\ handler'[c].stats = handler[c].stats /\ ~ At(c, "idle")
    <3>1. handler[c] \in Busy
      BY <1>2, <1>4, AtIsBusy DEF Choose, At
    <3> QED
      BY <1>2, <1>4, <3>1 DEF Choose, Shape, Busy, At
  <2> QED
    BY <1>1, <1>2, <2>1, SameMapsKeepNumbers, SameStats, ProgramKeepsBook
<1>5. ASSUME NEW k, handler[c].at \in {"lookup", "find", "backup"},
             k = None \/ (k \in Keys /\ maps[handler[c].map][k] # None),
             update_subnet_pktcnt(c, k)
      PROVE  BookInv' /\ BookKept
  <2>1. KeepsNumbers /\ PointsToTraffic(c)'
    BY <1>2, <1>5, CountTells
  <2> QED
    BY <1>1, <1>2, <2>1, ProgramKeepsBook
<1>6. ASSUME NEW l, Goto(c, l), ~ At(c, "idle")
      PROVE  handler'[c].stats = handler[c].stats
  <2>1. handler[c] \in Busy
    BY <1>2, <1>6, AtIsBusy
  <2> QED
    BY <1>2, <1>6, <2>1 DEF Goto, Shape, Busy
<1>7. CASE lookup_aggregation_stats(c)
  <2>1. handler[c] \in Busy /\ At(c, "lookup") /\ ~ At(c, "idle")
    BY <1>2, <1>7, AtIsBusy DEF lookup_aggregation_stats, At
  <2>2. CASE maps[handler[c].map][Key(handler[c])] # None
             /\ update_subnet_pktcnt(c, Key(handler[c]))
    BY <1>5, <2>1, <2>2, KeyIsKey DEF At
  <2>3. CASE maps' = maps /\ \E l : Goto(c, l)
    BY <1>1, <1>2, <1>6, <2>1, <2>3, SameMapsKeepNumbers, SameStats,
       ProgramKeepsBook
  <2> QED
    BY <1>7, <2>2, <2>3 DEF lookup_aggregation_stats
<1>8. CASE create_aggregation_stats(c)
  <2> DEFINE h == handler[c]
             k == Key(h)
  <2>1. h \in Busy /\ k \in Keys /\ ~ At(c, "idle") /\ h # Idle
    BY <1>2, <1>8, AtIsBusy, KeyIsKey, HandlerIsBusy
       DEF create_aggregation_stats, At
  <2>2. handler'[c].stats = h.stats
    BY <1>6, <1>8, <2>1 DEF create_aggregation_stats
  <2>3. CASE maps' = maps
    BY <1>1, <1>2, <2>1, <2>2, <2>3, SameMapsKeepNumbers, SameStats,
       ProgramKeepsBook
  <2>4. CASE maps[h.map][k] = None /\ maps' = [maps EXCEPT ![h.map][k] = EmptyEntry]
    <3>1. h.map \in Instances
      BY <2>1 DEF Busy
    <3>2. KeepsNumbers
      BY <1>2, <2>1, <2>4, <3>1, AddingKeepsNumbers
    <3>3. ASSUME h.stats # None
          PROVE  maps'[h.stats[1]][h.stats[2]][c].traffic
      <4>1. PICK m \in Instances, j \in Keys : h.stats[1] = m /\ h.stats[2] = j
        BY <2>1, <3>3 DEF Busy
      <4>2. maps[m][j] # None /\ maps[m][j][c].traffic
        BY <2>1, <3>3, <4>1 DEF BookInv, TrafficInv, PointsToTraffic, AInv, EntriesStay
      <4>3. maps'[m][j][c].traffic
        BY <3>2, <4>2 DEF KeepsNumbers
      <4> QED
        BY <4>1, <4>3
    <3> QED
      BY <1>1, <1>2, <2>2, <3>2, <3>3, ProgramKeepsBook DEF PointsToTraffic
  <2> QED
    BY <1>8, <2>3, <2>4 DEF create_aggregation_stats
<1>9. CASE find_aggregation_stats(c)
  <2> DEFINE k == IF At(c, "find") THEN Key(handler[c])
                  ELSE BackupKey(handler[c].pkt.ipv)
  <2>1. handler[c] \in Busy
    BY <1>2, <1>9, AtIsBusy DEF find_aggregation_stats, At
  <2>2. k \in Keys
    BY <2>1, KeyIsKey
  <2>3. PICK j : /\ j = None \/ (j \in Keys /\ maps[handler[c].map][j] # None)
                 /\ update_subnet_pktcnt(c, j)
    BY <1>9, <2>2 DEF find_aggregation_stats
  <2>4. handler[c].at \in {"lookup", "find", "backup"}
    BY <1>9 DEF find_aggregation_stats, At
  <2> QED
    BY <1>5, <2>3, <2>4
<1> QED
  BY <1>3, <1>4, <1>7, <1>8, <1>9

(***************************************************************************)
(* The step that measures an RTT enters it under one prefix in one book,   *)
(* the current one or, while the older is being closed, perhaps that.      *)
(***************************************************************************)
Measured(m, k) ==
  /\ m = active \/ report.at = "sync"
  /\ \A i \in Instances, j \in Keys :
       Unprinted(i, j)' = IF i = m /\ j = k THEN Unprinted(i, j) + 1
                          ELSE Unprinted(i, j)

LEMMA RttKeepsBook ==
  ASSUME RInv, NEW c \in CPUs, aggregate_rtt(c)
  PROVE  /\ BookInv'
         /\ BookKept \/ \E m \in Instances, k \in Keys : Measured(m, k)
<1> USE DEF RInv
<1>1. Obeys(c) /\ Leave(c) /\ UNCHANGED <<active, report>>
  BY RttObeys DEF aggregate_rtt
<1>2. AInv' /\ Shape /\ Shape'
  BY <1>1, ObeyingKeepsAInv DEF AInv
<1>3. handler'[c] = Idle /\ \A x \in CPUs \ {c} : handler'[x] = handler[x]
  BY <1>1, <1>2 DEF Leave, Shape
<1>4. CASE maps' = maps
  BY <1>1, <1>2, <1>3, <1>4, SameMapsKeepNumbers, ProgramKeepsBook DEF PointsToTraffic
<1> DEFINE s == handler[c].stats
<1>5. CASE s # None /\ maps[s[1]][s[2]] # None
           /\ maps' = [maps EXCEPT ![s[1]][s[2]][c].rtts = @ + 1]
  <2>1. handler[c] \in Busy /\ handler[c] # Idle
    BY <1>2, AtIsBusy, HandlerIsBusy DEF aggregate_rtt, At
  <2>2. PICK m \in Instances, k \in Keys : s[1] = m /\ s[2] = k
    BY <1>5, <2>1 DEF Busy
  <2> DEFINE e == maps[m][k]
             t == [e[c] EXCEPT !.rtts = e[c].rtts + 1]
  <2>3. e \in Entry /\ e # None
    BY <1>2, <1>5, <2>2 DEF Shape
  <2>4. e[c] \in Stats /\ e[c].rtts \in Nat
    BY <2>3 DEF Entry, Stats
  <2>5. t \in Stats /\ t.rtts = e[c].rtts + 1 /\ t.traffic = e[c].traffic
    <3> HIDE DEF e
    <3> QED
      BY <2>4 DEF Stats
  <2>6. maps' = [maps EXCEPT ![m][k][c] = t]
    <3>1. [e[c] EXCEPT !.rtts = @ + 1] = t
      OBVIOUS
    <3>2. /\ maps \in [Instances -> [Keys -> Entry \union {None}]]
          /\ maps[m] \in [Keys -> Entry \union {None}]
      BY <1>2 DEF Shape
    <3> QED
      BY <1>5, <2>2, <2>3, <2>4, <3>1, <3>2 DEF Entry, Stats
  <2>7. OnlyCellChanges(m, k, c, t)
    <3> HIDE DEF t, s
    <3> QED
      BY <1>2, <2>3, <2>5, <2>6, CellWritten
  <2>8. maps'[m][k] # None /\ maps'[m][k] \in Entry
    <3>1. maps'[m][k] # None
      BY <1>1, <2>3 DEF Obeys, Grows
    <3> QED
      BY <1>2, <3>1 DEF Shape
  <2>9. e[c].traffic
    <3>1. maps[s[1]][s[2]][c].traffic
      BY <1>5, <2>1 DEF BookInv, TrafficInv, PointsToTraffic
    <3> QED
      BY <2>2, <3>1
  <2> HIDE DEF t
  <2>10. Uses(c, m)
    BY <1>5, <2>1, <2>2 DEF Uses
  <2>11. m = active \/ report.at = "sync"
    BY <1>2, <2>10 DEF BookInv, QuietInv, Shape, Instances
  <2>12. ~ Hidden(m, k)
    <3>1. report.at = "sync" => Batch = {} /\ report.del = {}
      BY DEF BookInv, HandInv
    <3>2. Batch \union report.del # {} => report.map # active
      BY DEF BookInv, HandInv
    <3> QED
      BY <2>11, <3>1, <3>2 DEF Hidden
  <2>13. \A i, j : Hidden(i, j)' <=> Hidden(i, j)
    BY <1>1 DEF Hidden, Batch
  <2>14. Measured(m, k)
    <3>1. Rtts(maps'[m][k]) = Rtts(e) + 1
      BY <2>3, <2>5, <2>7, <2>8, OneMoreRtt DEF OnlyCellChanges
    <3>2. ASSUME NEW i \in Instances, NEW j \in Keys
          PROVE  Unprinted(i, j)' = IF i = m /\ j = k THEN Unprinted(i, j) + 1
                                    ELSE Unprinted(i, j)
      <4>1. Unprinted(i, j)' =
              IF maps'[i][j] = None \/ Hidden(i, j)' THEN 0 ELSE Rtts(maps'[i][j])
        BY DEF Unprinted, Hidden, Rtts, Batch
      <4>2. CASE i = m /\ j = k
        BY <2>3, <2>8, <2>12, <2>13, <3>1, <4>1, <4>2, UnprintedIs
      <4>3. CASE ~ (i = m /\ j = k)
        BY <2>7, <2>13, <4>1, <4>3, UnprintedIs DEF OnlyCellChanges
      <4> QED
        BY <4>2, <4>3
    <3> QED
      BY <2>11, <3>2 DEF Measured
  <2>15. TrafficInv'
    <3>1. ASSUME NEW i \in Instances, NEW j \in Keys, maps'[i][j] # None
          PROVE  RttsHaveTraffic(maps'[i][j])
      <4>1. CASE i = m /\ j = k
        <5>1. RttsHaveTraffic(e)
          BY <2>3 DEF BookInv, TrafficInv, PointsToTraffic
        <5> QED
          BY <2>5, <2>7, <2>9, <4>1, <5>1 DEF RttsHaveTraffic, OnlyCellChanges
      <4>2. CASE ~ (i = m /\ j = k)
        BY <2>7, <3>1, <4>2 DEF OnlyCellChanges, BookInv, TrafficInv, PointsToTraffic
      <4> QED
        BY <4>1, <4>2
    <3>2. ASSUME NEW x \in CPUs, handler'[x] # Idle, handler'[x].stats # None
          PROVE  maps'[handler'[x].stats[1]][handler'[x].stats[2]][x].traffic
      <4>1. x # c /\ handler'[x] = handler[x] /\ handler[x] \in Busy
        BY <1>2, <1>3, <3>2, HandlerIsBusy DEF Shape
      <4>2. PICK i \in Instances, j \in Keys :
              handler[x].stats[1] = i /\ handler[x].stats[2] = j
        BY <3>2, <4>1 DEF Busy
      <4>3. maps[i][j][x].traffic
        BY <3>2, <4>1, <4>2 DEF BookInv, TrafficInv, PointsToTraffic
      <4>4. maps'[i][j][x].traffic
        BY <2>7, <4>1, <4>3 DEF OnlyCellChanges
      <4> QED
        BY <4>1, <4>2, <4>4
    <3> QED
      BY <3>1, <3>2 DEF TrafficInv, PointsToTraffic
  <2>16. HandInv'
    BY <1>1 DEF BookInv, HandInv, Batch, Walking
  <2>17. QuietInv'
    BY <1>1, <1>3 DEF BookInv, QuietInv, Uses, At
  <2>18. PrintedInv'
    <3>1. ASSUME report.at # "sync"
          PROVE  \A j \in Keys : Unprinted(1 - active, j)' = Unprinted(1 - active, j)
      <4>1. 1 - active \in Instances /\ 1 - active # m /\ active' = active
        BY <1>1, <1>2, <2>11, <3>1 DEF Shape, Instances
      <4>2. \A j \in Keys : Unprinted(1 - active, j)'
              = IF maps'[1 - active][j] = None \/ Hidden(1 - active, j)' THEN 0
                ELSE Rtts(maps'[1 - active][j])
        BY <4>1 DEF Unprinted, Hidden, Rtts, Batch
      <4>3. \A j \in Keys : maps'[1 - active][j] = maps[1 - active][j]
        BY <2>7, <4>1 DEF OnlyCellChanges
      <4>4. \A j \in Keys : Hidden(1 - active, j)' <=> Hidden(1 - active, j)
        BY <1>1 DEF Hidden, Batch
      <4> QED
        BY <4>2, <4>3, <4>4, UnprintedIs
    <3>2. Walking => report.map = 1 - active /\ report.at # "sync"
      BY <1>2, ReportFields DEF AInv, UsersAreAwaited, Walking, Shape, Instances
    <3>3. \A j \in Keys : Done(j)' <=> Done(j)
      BY <1>1 DEF Done
    <3>4. Walking => \A j \in Keys :
            Unprinted(report.map, j)' = Unprinted(report.map, j)
      BY <1>1, <3>1, <3>2 DEF Unprinted
    <3> QED
      BY <1>1, <3>1, <3>3, <3>4 DEF BookInv, PrintedInv, Walking
  <2> QED
    BY <2>14, <2>15, <2>16, <2>17, <2>18 DEF BookInv
<1> QED
  BY <1>4, <1>5 DEF aggregate_rtt

(***************************************************************************)
(* The steps of the report. *)
(***************************************************************************)
LEMMA TrafficStays ==
  ASSUME RInv, Shape', handler' = handler, KeepsNumbers
  PROVE  TrafficInv'
<1> USE DEF RInv, BookInv, TrafficInv, PointsToTraffic
<1>1. Shape
  BY DEF AInv
<1>2. ASSUME NEW i \in Instances, NEW j \in Keys, maps'[i][j] # None
      PROVE  RttsHaveTraffic(maps'[i][j])
  BY <1>1, <1>2, KeepingNumbersKeepsTraffic
<1>3. ASSUME NEW x \in CPUs, handler[x] # Idle, handler[x].stats # None
      PROVE  maps'[handler[x].stats[1]][handler[x].stats[2]][x].traffic
  <2>1. handler[x] \in Busy
    BY <1>1, <1>3, HandlerIsBusy DEF Shape
  <2>2. PICK i \in Instances, j \in Keys :
          handler[x].stats[1] = i /\ handler[x].stats[2] = j
    BY <1>3, <2>1 DEF Busy
  <2>3. maps[i][j] # None /\ maps[i][j][x].traffic
    BY <1>3, <2>2 DEF AInv, EntriesStay
  <2>4. maps'[i][j][x].traffic
    BY <2>3 DEF KeepsNumbers
  <2> QED
    BY <2>2, <2>4
<1> QED
  BY <1>2, <1>3

(* No program points into the instance that is walked over. *)
LEMMA TrafficOfWalk ==
  ASSUME RInv, Walking, handler' = handler,
         \A i \in Instances \ {report.map}, j \in Keys : maps'[i][j] = maps[i][j],
         \A j \in Keys : maps'[report.map][j] # None =>
            RttsHaveTraffic(maps'[report.map][j])
  PROVE  TrafficInv'
<1> USE DEF RInv, BookInv, TrafficInv, PointsToTraffic
<1>1. ASSUME NEW x \in CPUs, handler[x] # Idle, handler[x].stats # None
      PROVE  maps'[handler[x].stats[1]][handler[x].stats[2]][x].traffic
  <2>1. handler[x] \in Busy
    BY <1>1, HandlerIsBusy DEF Shape, AInv
  <2>2. PICK i \in Instances, j \in Keys :
          handler[x].stats[1] = i /\ handler[x].stats[2] = j
    BY <1>1, <2>1 DEF Busy
  <2>3. i # report.map
    BY <1>1, <2>2 DEF AInv, UsersAreAwaited, Uses
  <2>4. maps[i][j][x].traffic
    BY <1>1, <2>2
  <2> QED
    BY <2>2, <2>3, <2>4
<1>2. ASSUME NEW i \in Instances, NEW j \in Keys, maps'[i][j] # None
      PROVE  RttsHaveTraffic(maps'[i][j])
  <2>1. CASE i = report.map
    BY <1>2, <2>1
  <2>2. CASE i # report.map
    BY <1>2, <2>2
  <2> QED
    BY <2>1, <2>2
<1> QED
  BY <1>1, <1>2

LEMMA UnprintedIsNext ==
  \A m, k : Unprinted(m, k)' =
    IF maps'[m][k] = None \/ Hidden(m, k)' THEN 0 ELSE Rtts(maps'[m][k])
BY DEF Unprinted, Hidden, Rtts, Batch

LEMMA SwitchKeepsBook ==
  ASSUME RInv, switch_agg_map
  PROVE  BookInv' /\ BookKept /\ \A k \in Keys : Unprinted(1 - active, k) = 0
<1> USE DEF RInv, BookInv
<1>1. Shape /\ report.at = "idle"
  BY DEF AInv, switch_agg_map
<1>2. /\ report'.at = "sync" /\ report'.map = active
      /\ report'.values = report.values /\ report'.del = report.del
  BY <1>1 DEF switch_agg_map, Shape, Report
<1>3. Batch = {} /\ report.del = {}
  BY <1>1 DEF HandInv
<1>4. Batch' = {} /\ report'.del = {}
  BY <1>2, <1>3 DEF Batch
<1>5. maps' = maps /\ handler' = handler
  BY DEF switch_agg_map
<1>6. BookKept
  <2>1. \A m, k : ~ Hidden(m, k) /\ ~ Hidden(m, k)'
    BY <1>3, <1>4 DEF Hidden
  <2> QED
    BY <1>5, <2>1, UnprintedIs, UnprintedIsNext DEF BookKept
<1>7. TrafficInv'
  BY <1>5 DEF TrafficInv, PointsToTraffic
<1>8. HandInv'
  BY <1>2, <1>4 DEF HandInv, Walking
<1>9. QuietInv' /\ PrintedInv'
  BY <1>2 DEF QuietInv, PrintedInv, Walking
<1> QED
  BY <1>1, <1>6, <1>7, <1>8, <1>9 DEF PrintedInv

LEMMA SyncKeepsBook ==
  ASSUME RInv, kern_sync_rcu
  PROVE  BookInv' /\ BookKept
<1> USE DEF RInv, BookInv
<1>1. Shape /\ report.at = "sync" /\ grace = {} /\ UNCHANGED <<active, maps, handler>>
  BY DEF AInv, kern_sync_rcu
<1>2. /\ report'.at = "fetch" /\ report'.map = report.map /\ report'.ipv = "v4"
      /\ report'.values = report.values /\ report'.del = {}
      /\ report'.left = KeysOf("v4") \intersect Stored(report.map)
  BY <1>1 DEF kern_sync_rcu, WalkOver, Shape, Report
<1>3. Batch = {} /\ report.del = {}
  BY <1>1 DEF HandInv
<1>4. Batch' = {}
  BY <1>2, <1>3 DEF Batch
<1>5. BookKept
  <2>1. \A m, k : ~ Hidden(m, k) /\ ~ Hidden(m, k)'
    BY <1>2, <1>3, <1>4 DEF Hidden
  <2> QED
    BY <1>1, <2>1, UnprintedIs, UnprintedIsNext DEF BookKept
<1>6. TrafficInv'
  BY <1>1 DEF TrafficInv, PointsToTraffic
<1>7. HandInv'
  BY <1>2, <1>4 DEF HandInv, Walking
<1>8. QuietInv'
  <2>1. active # report.map /\ \A c \in CPUs : ~ Uses(c, report.map)
    BY <1>1 DEF AInv, UsersAreAwaited
  <2>2. \A c \in CPUs : ~ Uses(c, 1 - active)
    BY <1>1, <2>1, ReportIs
  <2> QED
    BY <1>1, <2>2 DEF QuietInv, Uses, At
<1>9. PrintedInv'
  <2>1. ASSUME NEW k \in Keys, Done(k)'
        PROVE  Unprinted(report.map, k)' = 0
    <3>1. k[1] = "v4" /\ k \notin KeysOf("v4") \intersect Stored(report.map)
      BY <1>2, <2>1 DEF Done
    <3>2. maps[report.map][k] = None
      BY <1>1, <3>1, ReportIs DEF Stored
    <3> QED
      BY <1>1, <1>2, <3>2 DEF Unprinted
  <2> QED
    BY <1>2, <2>1 DEF PrintedInv
<1> QED
  BY <1>5, <1>6, <1>7, <1>8, <1>9

(***************************************************************************)
(* Fetching and printing a batch takes it out of the book; entries without *)
(* traffic, which get no line, have nothing in the book.                   *)
(***************************************************************************)
Taken(B) ==
  /\ B \subseteq Keys
  /\ \A k \in B :
       /\ Unprinted(report.map, k) = Rtts(maps[report.map][k])
       /\ ~ HasTraffic(maps[report.map][k]) => Rtts(maps[report.map][k]) = 0
  /\ \A m \in Instances, k \in Keys :
       Unprinted(m, k)' = IF m = report.map /\ k \in B THEN 0 ELSE Unprinted(m, k)

LEMMA FetchKeepsBook ==
  ASSUME RInv, NEW B \in Batches, fetch_batch(B)
  PROVE  BookInv' /\ Taken(B)
<1> USE DEF RInv, BookInv
<1> DEFINE m == report.map
           values == [k \in Keys |-> IF k \in B THEN ValueAfter(k) ELSE None]
           outdated == {k \in B : IsOutdated(k)}
<1>1. Shape /\ report.at = "fetch" /\ Walking /\ UNCHANGED <<active, maps, handler>>
  BY DEF AInv, fetch_batch, Walking
<1>2. /\ m \in Instances /\ m # active /\ m = 1 - active
      /\ B \subseteq report.left /\ B \subseteq Keys /\ B \subseteq Stored(m)
  BY <1>1, ReportIs, ReportFields
     DEF AInv, Shape, UsersAreAwaited, WalkIsSound, Batches, Stored
<1>3. /\ report'.at = "update" /\ report'.map = m /\ report'.ipv = report.ipv
      /\ report'.left = report.left \ B /\ report'.values = values
      /\ report'.del = report.del \union outdated
  <2>1. report' = [report EXCEPT !.at = "update", !.left = report.left \ B,
                     !.values = values, !.del = report.del \union outdated]
    BY <1>1 DEF fetch_batch, Shape, Report
  <2> HIDE DEF values, outdated
  <2> QED
    BY <1>1, <2>1 DEF Shape, Report
<1>4. \A k \in B : maps[m][k] \in Entry /\ RttsHaveTraffic(maps[m][k])
  <2>1. \A k \in B : k \in Keys /\ maps[m][k] # None
    BY <1>2 DEF Stored
  <2> QED
    BY <1>1, <1>2, <2>1 DEF Shape, TrafficInv, PointsToTraffic
<1>5. ASSUME NEW k \in B
      PROVE  /\ ValueAfter(k) \in Entry /\ RttsHaveTraffic(ValueAfter(k))
             /\ ~ IsOutdated(k) => \A c \in CPUs : ValueAfter(k)[c].rtts = 0
             /\ ~ HasTraffic(maps[m][k]) => \A c \in CPUs : maps[m][k][c].rtts = 0
  <2> DEFINE e == maps[m][k]
  <2>1. e \in Entry /\ RttsHaveTraffic(e)
    BY <1>4
  <2>2. ValueAfter(k) =
          IF HasTraffic(e) /\ ~ IsOutdated(k) THEN clear_percpu(e) ELSE e
    BY DEF ValueAfter
  <2> HIDE DEF e
  <2>3. clear_percpu(e) \in Entry /\ \A c \in CPUs : clear_percpu(e)[c].rtts = 0
    BY <2>1, EntryTypes DEF clear_percpu, Entry, Stats
  <2>4. RttsHaveTraffic(clear_percpu(e))
    BY <2>3 DEF RttsHaveTraffic
  <2>5. ~ HasTraffic(e) => \A c \in CPUs : e[c].rtts = 0
    BY <2>1 DEF HasTraffic, RttsHaveTraffic, Entry, Stats
  <2> QED
    BY <2>1, <2>2, <2>3, <2>4, <2>5 DEF e
<1>6. Batch = {} /\ report.left \intersect report.del = {}
  BY <1>1 DEF HandInv
<1>7. Batch' = B
  BY <1>2, <1>3, <1>5, NoneAssumption DEF Batch
<1>8. \A i, k : Hidden(i, k)' <=> Hidden(i, k) \/ (i = m /\ k \in B)
  BY <1>3, <1>6, <1>7 DEF Hidden
<1> HIDE DEF values, outdated
<1>9. Taken(B)
  <2>1. \A k \in B : Unprinted(m, k) = Rtts(maps[m][k])
    <3>1. \A k \in B : maps[m][k] # None /\ ~ Hidden(m, k)
      BY <1>2, <1>6 DEF Stored, Hidden
    <3> QED
      BY <3>1, UnprintedIs
  <2>2. \A k \in B : ~ HasTraffic(maps[m][k]) => Rtts(maps[m][k]) = 0
    BY <1>4, <1>5, NoRtts
  <2>3. \A i \in Instances, k \in Keys :
          Unprinted(i, k)' = IF i = m /\ k \in B THEN 0 ELSE Unprinted(i, k)
    BY <1>1, <1>8, UnprintedIs, UnprintedIsNext
  <2> QED
    BY <1>2, <2>1, <2>2, <2>3 DEF Taken
<1>10. TrafficInv'
  BY <1>1 DEF TrafficInv, PointsToTraffic
<1>11. HandInv'
  <2>1. report'.left \intersect report'.del = {}
    BY <1>3, <1>6, <1>2 DEF outdated
  <2>2. ASSUME NEW k \in Batch'
        PROVE  /\ RttsHaveTraffic(report'.values[k])
               /\ k \notin report'.del => \A c \in CPUs : report'.values[k][c].rtts = 0
    <3>1. k \in B /\ k \in Keys
      BY <1>2, <1>7
    <3>2. report'.values[k] = ValueAfter(k)
      BY <1>3, <3>1 DEF values
    <3>3. k \notin report'.del => ~ IsOutdated(k)
      BY <1>3, <3>1 DEF outdated
    <3> QED
      BY <1>5, <3>1, <3>2, <3>3
  <2> QED
    BY <1>1, <1>2, <1>3, <2>1, <2>2 DEF HandInv, RttsHaveTraffic
<1>12. QuietInv'
  BY <1>1, <1>3 DEF QuietInv, Uses, At
<1>13. PrintedInv'
  <2>1. PICK i \in Instances : i = m
    BY <1>2
  <2>2. ASSUME NEW k \in Keys, Done(k)'
        PROVE  Unprinted(i, k)' = 0
    <3>1. Done(k) \/ k \in B
      BY <1>3, <2>2 DEF Done
    <3>2. Done(k) => Unprinted(i, k) = 0
      BY <1>1, <2>1 DEF PrintedInv
    <3>3. Unprinted(i, k)' = IF k \in B THEN 0 ELSE Unprinted(i, k)
      BY <1>9, <2>1 DEF Taken
    <3> QED
      BY <3>1, <3>2, <3>3
  <2>3. \A k \in Keys : Done(k)' => Unprinted(report.map, k)' = 0
    <3>1. \A k : Unprinted(report.map, k)' = Unprinted(i, k)'
      BY <1>3, <2>1 DEF Unprinted
    <3> QED
      BY <2>2, <3>1
  <2> QED
    BY <1>3, <2>3 DEF PrintedInv
<1> QED
  BY <1>9, <1>10, <1>11, <1>12, <1>13

(* A step of the walk that neither changes the book nor gives keys a turn. *)
LEMMA PrintedStays ==
  ASSUME RInv, Walking, BookKept, report'.map = report.map,
         \A k \in Keys : Done(k)' => Done(k) \/ Unprinted(report.map, k) = 0,
         Walking'
  PROVE  PrintedInv'
<1>1. PICK i \in Instances : i = report.map
  BY ReportIs DEF RInv, AInv
<1>2. \A k \in Keys : Done(k) => Unprinted(i, k) = 0
  BY <1>1 DEF RInv, BookInv, PrintedInv
<1>3. \A k \in Keys : Done(k)' => Unprinted(i, k)' = 0
  BY <1>1, <1>2 DEF BookKept
<1>4. \A k : Unprinted(report.map, k)' = Unprinted(i, k)'
  BY <1>1 DEF Unprinted
<1>5. \A k \in Keys : Done(k)' => Unprinted(report.map, k)' = 0
  BY <1>3, <1>4
<1> QED
  BY <1>5 DEF PrintedInv, Walking

LEMMA UpdateKeepsBook ==
  ASSUME RInv, update_batch
  PROVE  BookInv' /\ BookKept
<1> USE DEF RInv, BookInv
<1> DEFINE m == report.map
           f == [k \in Keys |-> IF k \in Batch /\ maps[m][k] # None
                                  THEN report.values[k] ELSE maps[m][k]]
<1>1. Shape /\ report.at = "update" /\ Walking /\ UNCHANGED <<active, handler>>
  BY DEF AInv, update_batch, Walking
<1>2. /\ m \in Instances /\ m # active
      /\ maps[m] \in [Keys -> Entry \union {None}]
      /\ report.values \in [Keys -> Entry \union {None}]
  BY <1>1, ReportIs, ReportFields DEF AInv, Shape, UsersAreAwaited
<1>3. maps' = [maps EXCEPT ![m] = f] /\ f \in [Keys -> Entry \union {None}]
  BY <1>1, <1>2 DEF update_batch, AInv, Shape
<1>4. maps'[m] = f /\ \A i \in Instances \ {m} : maps'[i] = maps[i]
  <2> HIDE DEF f
  <2> QED
    BY <1>1, <1>2, <1>3, Rewrite DEF AInv
<1>5. /\ report'.map = m /\ report'.ipv = report.ipv
      /\ report'.left = report.left /\ report'.del = report.del
      /\ report'.values = NoValues
      /\ report'.at = IF report.left = {} THEN "delete" ELSE "fetch"
  BY <1>1 DEF Shape, Report, update_batch
<1>6. Batch' = {}
  BY <1>5 DEF Batch, NoValues
<1>7. \A i, k : Hidden(i, k)' <=> i = m /\ k \in report.del
  BY <1>5, <1>6 DEF Hidden
<1>8. ASSUME NEW i \in Instances, i = m, NEW k \in Keys
      PROVE  /\ maps'[i][k] # None => RttsHaveTraffic(maps'[i][k])
             /\ Unprinted(i, k)' = Unprinted(i, k)
  <2>1. maps'[i][k] = IF k \in Batch /\ maps[i][k] # None
                        THEN report.values[k] ELSE maps[i][k]
    BY <1>4, <1>8
  <2> HIDE DEF f
  <2>3. CASE k \in Batch
    <3>1. /\ RttsHaveTraffic(report.values[k])
          /\ k \notin report.del => \A c \in CPUs : report.values[k][c].rtts = 0
      BY <2>3 DEF HandInv
    <3>2. report.values[k] \in Entry
      BY <1>2, <2>3 DEF Batch
    <3>3. k \notin report.del => Rtts(report.values[k]) = 0
      BY <3>1, <3>2, NoRtts
    <3>4. Unprinted(i, k) = 0
      BY <1>8, <2>3, UnprintedIs DEF Hidden
    <3>5. Unprinted(i, k)' = 0
      BY <1>7, <1>8, <2>1, <2>3, <3>3, UnprintedIsNext
    <3> QED
      BY <2>1, <3>1, <3>4, <3>5 DEF TrafficInv, PointsToTraffic
  <2>4. CASE k \notin Batch
    <3>1. Unprinted(i, k)' = Unprinted(i, k)
      BY <1>7, <1>8, <2>1, <2>4, UnprintedIs, UnprintedIsNext DEF Hidden
    <3> QED
      BY <1>2, <2>1, <2>4, <3>1 DEF TrafficInv, PointsToTraffic
  <2> QED
    BY <2>3, <2>4
<1> HIDE DEF f
<1>9. BookKept
  <2>1. ASSUME NEW i \in Instances, NEW k \in Keys
        PROVE  Unprinted(i, k)' = Unprinted(i, k)
    <3>1. CASE i = m
      BY <1>8, <3>1
    <3>2. CASE i # m
      BY <1>4, <1>7, <3>2, UnprintedIs, UnprintedIsNext DEF Hidden
    <3> QED
      BY <3>1, <3>2
  <2> QED
    BY <2>1 DEF BookKept
<1>10. TrafficInv'
  BY <1>1, <1>2, <1>4, <1>8, TrafficOfWalk
<1>11. HandInv'
  BY <1>1, <1>2, <1>5, <1>6 DEF HandInv, Walking
<1>12. QuietInv'
  BY <1>1, <1>5 DEF QuietInv, Uses, At
<1>13. PrintedInv'
  <2>1. \A k \in Keys : Done(k)' => Done(k)
    BY <1>5 DEF Done
  <2> QED
    BY <1>1, <1>5, <1>9, <2>1, PrintedStays DEF Walking
<1> QED
  BY <1>9, <1>10, <1>11, <1>12, <1>13

LEMMA DeleteKeepsBook ==
  ASSUME RInv, delete_batch
  PROVE  BookInv' /\ BookKept
<1> USE DEF RInv, BookInv
<1> DEFINE m == report.map
           f == [k \in Keys |-> IF k \in report.del THEN None ELSE maps[m][k]]
<1>1. Shape /\ report.at = "delete" /\ Walking /\ UNCHANGED <<active, handler>>
  BY DEF AInv, delete_batch, Walking
<1>2. /\ m \in Instances /\ m = 1 - active
      /\ maps[m] \in [Keys -> Entry \union {None}]
  BY <1>1, ReportIs DEF AInv, Shape, UsersAreAwaited
<1>3. maps' = [maps EXCEPT ![m] = f] /\ f \in [Keys -> Entry \union {None}]
  BY <1>1, <1>2 DEF delete_batch, AInv, Shape
<1>4. maps'[m] = f /\ \A i \in Instances \ {m} : maps'[i] = maps[i]
  <2> HIDE DEF f
  <2> QED
    BY <1>1, <1>2, <1>3, Rewrite DEF AInv
<1>5. Batch = {} /\ report.left = {}
  BY <1>1 DEF HandInv
<1>6. report'.map = m /\ report'.del = {} /\ report'.values = report.values
  BY <1>1 DEF delete_batch, WalkOver, Shape, Report
<1>7. Batch' = {}
  BY <1>5, <1>6 DEF Batch
<1>8. \A i, k : ~ Hidden(i, k)' /\ (Hidden(i, k) <=> i = m /\ k \in report.del)
  BY <1>5, <1>6, <1>7 DEF Hidden
<1>9. \A k \in Keys : maps'[m][k] = IF k \in report.del THEN None ELSE maps[m][k]
  BY <1>4
<1> HIDE DEF f
<1>10. BookKept
  <2>1. ASSUME NEW i \in Instances, NEW k \in Keys
        PROVE  Unprinted(i, k)' = Unprinted(i, k)
    <3>1. CASE i = m
      BY <1>8, <1>9, <3>1, UnprintedIs, UnprintedIsNext
    <3>2. CASE i # m
      BY <1>4, <1>8, <3>2, UnprintedIs, UnprintedIsNext
    <3> QED
      BY <3>1, <3>2
  <2> QED
    BY <2>1 DEF BookKept
<1>11. TrafficInv'
  <2>1. \A k \in Keys : maps'[m][k] # None => RttsHaveTraffic(maps'[m][k])
    BY <1>2, <1>9 DEF TrafficInv, PointsToTraffic
  <2> QED
    BY <1>1, <1>4, <2>1, TrafficOfWalk
<1>12. QuietInv' /\ report'.at \in {"fetch", "idle"}
  BY <1>1 DEF QuietInv, Uses, At, delete_batch, WalkOver, Shape, Report
<1>13. HandInv'
  BY <1>6, <1>7, <1>12 DEF HandInv
<1>14. PrintedInv'
  <2>1. CASE report.ipv = "v4"
    <3>1. /\ report'.at = "fetch" /\ report'.ipv = "v6"
          /\ report'.left = KeysOf("v6") \intersect Stored(m)
      BY <1>1, <2>1 DEF delete_batch, WalkOver, Shape, Report
    <3>2. ASSUME NEW k \in Keys, Done(k)'
          PROVE  Done(k) \/ Unprinted(m, k) = 0
      <4>1. CASE k[1] = "v4"
        BY <1>5, <2>1, <4>1 DEF Done
      <4>2. CASE k[1] = "v6" /\ k \notin KeysOf("v6") \intersect Stored(m)
        <5>1. maps[m][k] = None
          BY <1>1, <4>2, ReportIs DEF Stored
        <5> QED
          BY <5>1, UnprintedIs
      <4> QED
        BY <3>1, <3>2, <4>1, <4>2 DEF Done
    <3> QED
      BY <1>1, <1>6, <1>10, <3>1, <3>2, PrintedStays DEF Walking
  <2>2. CASE report.ipv # "v4"
    <3>1. report'.at = "idle" /\ report.ipv = "v6"
      BY <1>1, <2>2, ReportFields DEF delete_batch, Shape, Report
    <3>2. PICK i \in Instances : i = m
      BY <1>2
    <3>3. \A k \in Keys : Done(k)
      BY <1>1, <1>5, <3>1, ReportIs DEF Done
    <3>4. \A k \in Keys : Unprinted(i, k) = 0
      BY <1>1, <3>2, <3>3 DEF PrintedInv
    <3>5. \A k \in Keys : Unprinted(i, k)' = 0
      BY <1>10, <3>4 DEF BookKept
    <3>6. \A k \in Keys : Unprinted(1 - active, k)' = Unprinted(i, k)'
      BY <1>1, <1>2, <3>2 DEF Unprinted
    <3> QED
      BY <3>1, <3>5, <3>6 DEF PrintedInv, Walking
  <2> QED
    BY <2>1, <2>2
<1> QED
  BY <1>10, <1>11, <1>12, <1>13, <1>14

LEMMA FailingKeepsBook ==
  ASSUME RInv, report_failed
  PROVE  BookInv' /\ BookKept
<1> USE DEF RInv, BookInv
<1>1. /\ report.at # "sync" /\ UNCHANGED <<active, maps, handler>>
      /\ report' = [report EXCEPT !.at = "failed"] /\ Shape
  BY DEF AInv, report_failed
<1>2. /\ report'.at = "failed" /\ report'.map = report.map
      /\ report'.del = report.del /\ report'.values = report.values
  BY <1>1 DEF Shape, Report
<1>3. Batch' = Batch
  BY <1>2 DEF Batch
<1>4. BookKept
  <2>1. \A i, k : Hidden(i, k)' <=> Hidden(i, k)
    BY <1>2, <1>3 DEF Hidden
  <2> QED
    BY <1>1, <2>1, UnprintedIs, UnprintedIsNext DEF BookKept
<1>5. TrafficInv'
  BY <1>1 DEF TrafficInv, PointsToTraffic
<1>6. HandInv'
  BY <1>1, <1>2, <1>3 DEF HandInv, Walking, RttsHaveTraffic
<1>7. QuietInv' /\ PrintedInv'
  BY <1>1, <1>2 DEF QuietInv, PrintedInv, Walking, Uses, At
<1> QED
  BY <1>4, <1>5, <1>6, <1>7

(* Before or between reports nothing is in hand, so the book is the maps. *)
LEMMA KeepingNumbersIdly ==
  ASSUME RInv, AInv', report.at \in {"setup", "idle"}, KeepsNumbers,
         UNCHANGED <<active, handler>>,
         report'.at \in {"setup", "idle", "failed"},
         report'.del = report.del, report'.values = report.values
  PROVE  BookInv' /\ BookKept
<1> USE DEF RInv, BookInv
<1>1. Shape /\ Shape'
  BY DEF AInv
<1>2. Batch = {} /\ Batch' = {} /\ report.del = {} /\ report'.del = {}
  BY DEF HandInv, Batch
<1>3. BookKept
  <2>1. \A i \in Instances, k \in Keys : Hidden(i, k)' <=> Hidden(i, k)
    BY <1>2 DEF Hidden
  <2> QED
    BY <1>1, <2>1, KeepingNumbersKeepsBook
<1>4. TrafficInv'
  BY <1>1, TrafficStays
<1>5. HandInv'
  BY <1>2 DEF HandInv, Walking
<1>6. QuietInv'
  BY DEF QuietInv, Uses, At
<1>7. PrintedInv'
  <2>1. PICK i \in Instances : i = 1 - active
    BY <1>1, ReportIs
  <2>2. \A k \in Keys : Unprinted(i, k)' = 0
    BY <1>3, <2>1 DEF BookKept, PrintedInv
  <2>3. \A k \in Keys : Unprinted(1 - active, k)' = Unprinted(i, k)'
    BY <2>1 DEF Unprinted
  <2> QED
    BY <2>2, <2>3 DEF PrintedInv, Walking
<1> QED
  BY <1>3, <1>4, <1>5, <1>6, <1>7

LEMMA BackupKeepsBook ==
  ASSUME RInv, init_agg_backup_entries
  PROVE  BookInv' /\ BookKept
<1> DEFINE k == BackupKey(report.ipv)
<1>1. AInv' /\ Shape /\ report.at = "setup" /\ UNCHANGED <<active, handler>>
  BY BackupKeepsAInv DEF RInv, AInv, init_agg_backup_entries
<1>2. report.map \in Instances /\ k \in Keys
  <2>1. report.ipv \in Prefixed
    BY <1>1 DEF RInv, AInv, BackupsSoFar
  <2>2. \A u \in Prefixed : BackupKey(u) \in Keys
    BY AggAssumption DEF BackupKey, KeysOf, Keys
  <2> QED
    BY <1>1, <2>1, <2>2, ReportIs
<1>3. KeepsNumbers
  <2>1. CASE maps' = maps
    BY <2>1, SameMapsKeepNumbers
  <2>2. CASE maps[report.map][k] = None
             /\ maps' = [maps EXCEPT ![report.map][k] = EmptyEntry]
    BY <1>1, <1>2, <2>2, AddingKeepsNumbers
  <2> QED
    BY <2>1, <2>2 DEF init_agg_backup_entries
<1>4. /\ report'.at \in {"setup", "idle", "failed"}
      /\ report'.del = report.del /\ report'.values = report.values
  <2>1. CASE report' = [report EXCEPT !.at = "failed"]
    BY <1>1, <2>1 DEF Shape, Report
  <2>2. CASE report' = AfterBackup
    BY <1>1, <2>2 DEF AfterBackup, Shape, Report
  <2> QED
    BY <2>1, <2>2 DEF init_agg_backup_entries
<1> QED
  BY <1>1, <1>3, <1>4, KeepingNumbersIdly

LEMMA SilenceKeepsBook ==
  ASSUME RInv, Silence
  PROVE  BookInv' /\ BookKept
<1>1. AInv' /\ Shape /\ report.at = "idle" /\ UNCHANGED <<active, handler, report>>
  BY SilenceKeepsAInv DEF RInv, AInv, Silence
<1> DEFINE aged(e) == [c \in CPUs |-> [e[c] EXCEPT !.old = TRUE]]
<1>2. \A m \in Instances, k \in Keys :
        maps'[m][k] = IF maps[m][k] = None THEN None ELSE aged(maps[m][k])
  BY DEF Silence
<1>3. ASSUME NEW e \in Entry
      PROVE  /\ aged(e) \in Entry
             /\ \A c \in CPUs : /\ aged(e)[c].rtts = e[c].rtts
                               /\ aged(e)[c].traffic = e[c].traffic
  BY DEF Entry, Stats
<1> HIDE DEF aged
<1>4. KeepsNumbers
  <2>1. \A m \in Instances, k \in Keys : maps[m][k] # None => maps[m][k] \in Entry
    BY <1>1 DEF Shape
  <2> QED
    BY <1>2, <1>3, <2>1, NoneAssumption DEF KeepsNumbers
<1> QED
  BY <1>1, <1>4, KeepingNumbersIdly

(***************************************************************************)
(* Every step keeps the invariant, and all but the measuring of an RTT and *)
(* the fetching of a batch leave the book as it is.                        *)
(***************************************************************************)
LEMMA InitRInv == Init => RInv
<1> SUFFICES ASSUME Init PROVE RInv
  OBVIOUS
<1>1. AInv /\ Shape
  BY InitAInv DEF AInv
<1>2. /\ report.at \in {"setup", "idle"} /\ report.values = NoValues
      /\ report.del = {} /\ report.left = {}
      /\ \A m \in Instances, k \in Keys : maps[m][k] = None
      /\ \A c \in CPUs : handler[c] = Idle
  BY DEF Init
<1>3. Batch = {}
  BY <1>2 DEF Batch, NoValues
<1>4. TrafficInv /\ QuietInv
  BY <1>2 DEF TrafficInv, PointsToTraffic, QuietInv, Uses
<1>5. HandInv
  BY <1>2, <1>3 DEF HandInv, Walking
<1>6. PrintedInv
  <2>1. \A k \in Keys : Unprinted(1 - active, k) = 0
    BY <1>1, <1>2, ReportIs, UnprintedIs
  <2> QED
    BY <1>2, <2>1 DEF PrintedInv, Walking
<1> QED
  BY <1>1, <1>4, <1>5, <1>6 DEF RInv, BookInv

LEMMA StutterKeepsBook ==
  ASSUME RInv, UNCHANGED vars
  PROVE  BookInv'
<1> USE DEF RInv, BookInv
<1>1. UNCHANGED <<active, maps, handler, grace, report, lines>>
  BY DEF vars
<1>2. Batch' = Batch
  BY <1>1 DEF Batch
<1>3. TrafficInv' /\ QuietInv'
  BY <1>1 DEF TrafficInv, PointsToTraffic, RttsHaveTraffic, QuietInv, Uses, At
<1>4. HandInv'
  BY <1>1, <1>2 DEF HandInv, Walking, RttsHaveTraffic
<1>5. PrintedInv'
  BY <1>1, <1>2 DEF PrintedInv, Walking, Done, Unprinted, Rtts
<1> QED
  BY <1>3, <1>4, <1>5

LEMMA NextRInv == RInv /\ [Next]_vars => RInv'
<1> SUFFICES ASSUME RInv, [Next]_vars PROVE BookInv'
  BY NextAInv DEF RInv
<1>1. ASSUME NEW c \in CPUs, (\E p \in Packets : Arrive(c, p)) \/ Proceed(c)
      PROVE  BookInv'
  BY <1>1, ProgramStepsKeepBook, RttKeepsBook DEF Proceed
<1>2. CASE report_aggregated_stats
  BY <1>2, BackupKeepsBook, SwitchKeepsBook, SyncKeepsBook, FetchKeepsBook,
     UpdateKeepsBook, DeleteKeepsBook DEF report_aggregated_stats
<1>3. CASE report_failed \/ Silence
  BY <1>3, FailingKeepsBook, SilenceKeepsBook
<1>4. CASE UNCHANGED vars
  BY <1>4, StutterKeepsBook
<1> QED
  BY <1>1, <1>2, <1>3, <1>4 DEF Next

-----------------------------------------------------------------------------
(* The reports as AggReports has them. *)

Book == [m \in Instances |-> [k \in Keys |-> Unprinted(m, k)]]

LEMMA SameBook == BookKept => Book' = Book
BY DEF BookKept, Book

LEMMA StutterOfReports ==
  ASSUME BookKept, UNCHANGED <<active, lines>>,
         report'.at = "sync" <=> report.at = "sync"
  PROVE  UNCHANGED Reports!vars
BY SameBook DEF Reports!vars, Book

LEMMA ProgramRefines ==
  ASSUME RInv, NEW c \in CPUs, (\E p \in Packets : Arrive(c, p)) \/ Proceed(c)
  PROVE  [Reports!Next]_(Reports!vars)
<1>1. UNCHANGED <<active, report, lines>>
  <2>1. UNCHANGED <<active, report>>
    BY ArriveObeys, ChooseObeys, LookupObeys, CreateObeys, FindObeys, RttObeys
       DEF RInv, Proceed, Obeys
  <2>2. lines' = lines
    BY DEF Arrive, Proceed, Choose, lookup_aggregation_stats,
           create_aggregation_stats, find_aggregation_stats, aggregate_rtt
  <2> QED
    BY <2>1, <2>2
<1>2. CASE BookKept
  BY <1>1, <1>2, StutterOfReports
<1>3. ASSUME NEW m \in Instances, NEW k \in Keys, Measured(m, k)
      PROVE  Reports!Measure(m, k)
  <2>1. Book' = [Book EXCEPT ![m][k] = @ + 1]
    <3>1. Book' = [i \in Instances |-> [j \in Keys |-> Unprinted(i, j)']]
      BY DEF Book
    <3>2. [Book EXCEPT ![m][k] = @ + 1] =
            [i \in Instances |-> [j \in Keys |->
               IF i = m /\ j = k THEN Unprinted(i, j) + 1 ELSE Unprinted(i, j)]]
      BY DEF Book
    <3> QED
      BY <1>3, <3>1, <3>2 DEF Measured
  <2>2. (m = active \/ report.at = "sync")
    BY <1>3 DEF Measured
  <2> QED
    BY <1>1, <2>1, <2>2 DEF Reports!Measure, Book
<1>4. BookKept \/ \E m \in Instances, k \in Keys : Measured(m, k)
  BY ProgramStepsKeepBook, RttKeepsBook DEF Proceed
<1> QED
  BY <1>2, <1>3, <1>4 DEF Reports!Next, Instances

LEMMA FetchRefines ==
  ASSUME RInv, NEW B \in Batches, fetch_batch(B)
  PROVE  \E K \in SUBSET Keys : Reports!Publish(K)
<1> DEFINE K == {k \in B : HasTraffic(maps[report.map][k])}
<1>1. Taken(B)
  BY FetchKeepsBook
<1>2. /\ 1 - active = report.map /\ report.map \in Instances /\ report \in Report
      /\ report.at = "fetch"
  BY ReportIs DEF RInv, AInv, Shape, UsersAreAwaited, Walking, fetch_batch
<1>3. report'.at = "update" /\ active' = active
  BY <1>2 DEF fetch_batch, Report
<1>4. B \subseteq Keys
  BY <1>1 DEF Taken
<1>5. lines' = [k \in Keys |-> IF k \in K THEN Book[1 - active][k] ELSE lines[k]]
  <2>1. \A k \in K : Rtts(maps[report.map][k]) = Book[1 - active][k]
    BY <1>1, <1>2, <1>4 DEF Taken, Book
  <2> QED
    BY <2>1 DEF fetch_batch, LinesAfter
<1>6. Book' = [Book EXCEPT ![1 - active] =
                 [k \in Keys |-> IF k \in K THEN 0 ELSE @[k]]]
  <2>1. Book' = [i \in Instances |-> [k \in Keys |-> Unprinted(i, k)']]
    BY DEF Book
  <2>2. ASSUME NEW i \in Instances, NEW k \in Keys
        PROVE  Unprinted(i, k)' = IF i = 1 - active /\ k \in K THEN 0
                                  ELSE Unprinted(i, k)
    BY <1>1, <1>2 DEF Taken
  <2> HIDE DEF K
  <2> QED
    BY <1>2, <2>1, <2>2 DEF Book
<1> QED
  BY <1>2, <1>3, <1>4, <1>5, <1>6 DEF Reports!Publish, Book

LEMMA ReportRefines ==
  ASSUME RInv, report_aggregated_stats
  PROVE  [Reports!Next]_(Reports!vars)
<1>1. report \in Report /\ Shape
  BY DEF RInv, AInv, Shape
<1>2. CASE init_agg_backup_entries
  <2>1. report.at = "setup" /\ report'.at # "sync"
    BY <1>1, <1>2 DEF init_agg_backup_entries, AfterBackup, Report
  <2> QED
    BY <1>2, <2>1, BackupKeepsBook, StutterOfReports DEF init_agg_backup_entries
<1>3. CASE switch_agg_map
  <2>1. Book' = Book /\ Book[1 - active] = Reports!Nothing
    BY <1>1, <1>3, SwitchKeepsBook, SameBook, ReportIs DEF Book, Reports!Nothing
  <2>2. report.at = "idle" /\ report'.at = "sync"
    BY <1>1, <1>3 DEF switch_agg_map, Report
  <2>3. Reports!Turn
    BY <1>3, <2>1, <2>2
       DEF Reports!Turn, Book, switch_agg_map, NoLines, Reports!Nothing
  <2> QED
    BY <2>3 DEF Reports!Next
<1>4. CASE kern_sync_rcu
  <2>1. Book' = Book
    BY <1>4, SyncKeepsBook, SameBook
  <2>2. report.at = "sync" /\ report'.at = "fetch"
    BY <1>1, <1>4 DEF kern_sync_rcu, WalkOver, Report
  <2>3. Reports!Close
    BY <1>4, <2>1, <2>2 DEF Reports!Close, Book, kern_sync_rcu
  <2> QED
    BY <2>3 DEF Reports!Next
<1>5. CASE \E B \in Batches : fetch_batch(B)
  BY <1>5, FetchRefines DEF Reports!Next
<1>6. CASE update_batch
  <2>1. report.at = "update" /\ report'.at # "sync"
    BY <1>1, <1>6 DEF update_batch, Report
  <2> QED
    BY <1>6, <2>1, UpdateKeepsBook, StutterOfReports DEF update_batch
<1>7. CASE delete_batch
  <2>1. report.at = "delete" /\ report'.at # "sync"
    BY <1>1, <1>7 DEF delete_batch, WalkOver, Report
  <2> QED
    BY <1>7, <2>1, DeleteKeepsBook, StutterOfReports DEF delete_batch
<1> QED
  BY <1>2, <1>3, <1>4, <1>5, <1>6, <1>7 DEF report_aggregated_stats

LEMMA StepRefines == RInv /\ [Next]_vars => [Reports!Next]_(Reports!vars)
<1> SUFFICES ASSUME RInv, [Next]_vars PROVE [Reports!Next]_(Reports!vars)
  OBVIOUS
<1>1. CASE report_failed
  <2>1. report.at # "sync" /\ report'.at # "sync"
    BY <1>1 DEF report_failed, RInv, AInv, Shape, Report
  <2> QED
    BY <1>1, <2>1, FailingKeepsBook, StutterOfReports DEF report_failed
<1>2. CASE Silence
  BY <1>2, SilenceKeepsBook, StutterOfReports DEF Silence
<1>3. CASE UNCHANGED vars
  BY <1>3 DEF vars, Reports!vars, Unprinted, Batch, Rtts
<1> QED
  BY <1>1, <1>2, <1>3, ProgramRefines, ReportRefines DEF Next

(***************************************************************************)
(* Aggregation implements the books of AggReports: each RTT that a program *)
(* counts is entered once, in the book in use or the one that is about to  *)
(* close; a line shows all that the closed book has for its prefix; and    *)
(* nothing is lost, repeated or moved by what happens to entries - their   *)
(* creation, clearing, writing back and deletion, batch by batch, of any   *)
(* size, while programs on any number of CPUs go on counting.              *)
(***************************************************************************)
THEOREM Implementation == Spec => ImplementsReports
<1>1. Init => Reports!Init
  <2> SUFFICES ASSUME Init PROVE Reports!Init
    OBVIOUS
  <2>1. \A m \in Instances, k \in Keys : Unprinted(m, k) = 0
    BY UnprintedIs DEF Init
  <2>2. Book = [m \in {0, 1} |-> Reports!Nothing]
    BY <2>1 DEF Book, Reports!Nothing, Instances
  <2>3. report.at # "sync" /\ active = 0 /\ lines = Reports!Nothing
    BY DEF Init, NoLines, Reports!Nothing
  <2> QED
    BY <2>2, <2>3 DEF Reports!Init, Book
<1> QED
  BY <1>1, InitRInv, NextRInv, StepRefines, PTL
     DEF Spec, ImplementsReports, Reports!Spec

-----------------------------------------------------------------------------
(* The remaining variables. *)

LEMMA NextTypes ==
  ASSUME AInv, grace \subseteq CPUs, lines \in [Keys -> Nat], [Next]_vars
  PROVE  grace' \subseteq CPUs /\ lines' \in [Keys -> Nat]
<1>1. ASSUME NEW B \in Batches, fetch_batch(B)
      PROVE  lines' \in [Keys -> Nat]
  <2>1. \A k \in B : maps[report.map][k] \in Entry
    BY <1>1, ReportIs, ReportFields
       DEF AInv, Shape, WalkIsSound, Walking, Stored, Batches, fetch_batch
  <2>2. \A k \in B : Rtts(maps[report.map][k]) \in Nat
    BY <2>1, RttsOfAnEntry
  <2> QED
    BY <1>1, <2>2 DEF fetch_batch, LinesAfter
<1>2. CASE \E c \in CPUs : (\E p \in Packets : Arrive(c, p)) \/ Proceed(c)
  <2>1. ASSUME NEW c \in CPUs, NEW k, update_subnet_pktcnt(c, k)
        PROVE  grace' \subseteq grace
    BY <2>1 DEF update_subnet_pktcnt, Leave
  <2>2. ASSUME NEW c \in CPUs, Proceed(c)
        PROVE  lines' = lines /\ grace' \subseteq grace
    <3>1. CASE lookup_aggregation_stats(c) \/ find_aggregation_stats(c)
      BY <2>1, <3>1 DEF lookup_aggregation_stats, find_aggregation_stats
    <3>2. CASE Choose(c) \/ create_aggregation_stats(c)
      BY <3>2 DEF Choose, create_aggregation_stats
    <3>3. CASE aggregate_rtt(c)
      BY <3>3 DEF aggregate_rtt, Leave
    <3> QED
      BY <2>2, <3>1, <3>2, <3>3 DEF Proceed
  <2>3. ASSUME NEW c \in CPUs, NEW p \in Packets, Arrive(c, p)
        PROVE  lines' = lines /\ grace' = grace
    BY <2>3 DEF Arrive
  <2> QED
    BY <1>2, <2>2, <2>3
<1>3. CASE report_aggregated_stats
  <2>1. CASE switch_agg_map
    BY <2>1 DEF switch_agg_map, Running, NoLines
  <2>2. CASE \E B \in Batches : fetch_batch(B)
    BY <1>1, <2>2 DEF fetch_batch
  <2>3. CASE init_agg_backup_entries \/ kern_sync_rcu \/ update_batch \/ delete_batch
    BY <2>3 DEF init_agg_backup_entries, kern_sync_rcu, update_batch, delete_batch
  <2> QED
    BY <1>3, <2>1, <2>2, <2>3 DEF report_aggregated_stats
<1>4. CASE report_failed \/ Silence \/ UNCHANGED vars
  BY <1>4 DEF report_failed, Silence, vars
<1> QED
  BY <1>2, <1>3, <1>4 DEF Next

(***************************************************************************)
(* Every variable holds a value of its kind, the sums over the CPUs in the *)
(* lines of a report included.                                             *)
(***************************************************************************)
THEOREM TypeCorrect == Spec => []TypeOK
<1> DEFINE TInv == AInv /\ grace \subseteq CPUs /\ lines \in [Keys -> Nat]
<1>1. Init => TInv
  BY InitAInv DEF Init, NoLines
<1>2. TInv /\ [Next]_vars => TInv'
  BY NextAInv, NextTypes
<1>3. TInv => TypeOK
  BY DEF AInv, Shape, TypeOK
<1> QED
  BY <1>1, <1>2, <1>3, PTL DEF Spec
=============================================================================
