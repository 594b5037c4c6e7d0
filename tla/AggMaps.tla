------------------------------- MODULE AggMaps ------------------------------
(***************************************************************************)
(* Aggregated reports of ePPing: the BPF programs on all CPUs count the    *)
(* packets and RTTs of each prefix in one of two maps per IP version; when *)
(* the timer fires, user space makes them use the other maps, waits for    *)
(* the programs under way, and then prints, clears and prunes the old ones *)
(* batch by batch (epping/pping_kern.c, epping/pping.c).                   *)
(*                                                                         *)
(* A program is cut where it reads map_active_agg_instance and at each     *)
(* operation on a map.  The values are per CPU, so finding an entry and    *)
(* counting the packet in it is one step.  Of the numbers in an entry the  *)
(* model keeps how many RTTs there are, and whether there was traffic.     *)
(***************************************************************************)
EXTENDS Integers, FiniteSets, Functions

CONSTANTS
  CPUs,
  Versions,                 (* the versions of IP that packets have *)
  PrefixesV4, PrefixesV6,   (* what the prefix masks leave of the addresses *)
  Backup,                   (* IPV4_BACKUP_KEY, IPV6_BACKUP_KEY *)
  Prefixed,                 (* IP versions with a prefix length above 0 *)
  MaxEntries,               (* MAP_AGGREGATION_SIZE *)
  BatchSize,                (* AGG_BATCH_SIZE *)
  AggByDst,                 (* the option --aggregate-reverse *)
  MaxRtts,                  (* bound: RTTs that are not printed yet *)
  None

Prefixes(v) == IF v = "v4" THEN PrefixesV4 ELSE PrefixesV6

(***************************************************************************)
(* All addresses have the prefix of length zero in common, except that     *)
(* IPv6 addresses may have more: their mask is then shifted by 64 bits,    *)
(* which C leaves undefined.  With the longest prefixes, traffic may have  *)
(* the backup key as its prefix.  libbpf_num_possible_cpus tells how many  *)
(* CPUs there are.                                                         *)
(***************************************************************************)
ASSUME AggAssumption ==
  /\ Versions \subseteq {"v4", "v6"}
  /\ Prefixed \subseteq Versions
  /\ "v4" \in Versions \ Prefixed => \A p, q \in PrefixesV4 : p = q
  /\ IsFiniteSet(CPUs)
  /\ MaxEntries \in Nat \ {0} /\ BatchSize \in Nat \ {0} /\ MaxRtts \in Nat
  /\ AggByDst \in BOOLEAN

VARIABLES
  active,     (* map_active_agg_instance *)
  maps,       (* map_v4_agg1, map_v6_agg1 and map_v4_agg2, map_v6_agg2 *)
  handler,    (* the BPF program on each CPU *)
  grace,      (* the CPUs whose programs kern_sync_rcu still waits for *)
  report,     (* the report that user space is working on *)
  lines       (* the number of RTTs in each line of the latest report *)

vars == <<active, maps, handler, grace, report, lines>>

Instances == {0, 1}
KeysOf(v) == {v} \X (Prefixes(v) \union {Backup})
Keys == UNION {KeysOf(v) : v \in Versions}
BackupKey(v) == <<v, Backup>>

-----------------------------------------------------------------------------
(***************************************************************************)
(* aggregated_stats on one CPU: rx_stats or tx_stats are not all zero, the *)
(* sum of rtt_bins, and whether last_updated is longer ago than            *)
(* timeout_interval.  RTTs are positive, so rtt_max tells if there is one. *)
(***************************************************************************)
Stats == [traffic : BOOLEAN, rtts : Nat, old : BOOLEAN]

(* Never updated: last_updated is zero. *)
EmptyStats == [traffic |-> FALSE, rtts |-> 0, old |-> TRUE]

(* An entry has the statistics of every CPU. *)
Entry == [CPUs -> Stats]
ASSUME NoneAssumption == None \notin Entry

EmptyEntry == [c \in CPUs |-> EmptyStats]

(* merge_percpu_aggreated_stats *)
HasTraffic(e) == \E c \in CPUs : e[c].traffic
Rtts(e) == SumFunction([c \in CPUs |-> e[c].rtts])
IsOld(e) == \A c \in CPUs : e[c].old

(* last_updated is kept. *)
clear_percpu(e) ==
  [c \in CPUs |-> [e[c] EXCEPT !.traffic = FALSE, !.rtts = 0]]

Stored(m) == {k \in Keys : maps[m][k] # None}
IsFull(m, v) == Cardinality(Stored(m) \intersect KeysOf(v)) >= MaxEntries

-----------------------------------------------------------------------------
(* rtt_trackable: a packet that may have, or answer, an identifier. *)
Packets ==
  UNION {[src : {v} \X Prefixes(v), dst : {v} \X Prefixes(v), trackable : BOOLEAN,
          ipv : {v}] : v \in Versions}

Idle == [at |-> "idle"]

(* stats is the pointer that the RTT of the packet would be counted through. *)
Handler ==
  [at : {"idle"}]
  \union [at : {"choose", "lookup", "create", "find", "backup", "rtt"},
          pkt : Packets, side : {"src", "dst"}, map : Instances,
          stats : (Instances \X Keys) \union {None}]

At(c, l) == handler[c].at = l
Goto(c, l) == handler' = [handler EXCEPT ![c].at = l]
Running == {c \in CPUs : handler[c] # Idle}

(* The program on c ends: RCU need not wait for it any longer. *)
Leave(c) == handler' = [handler EXCEPT ![c] = Idle] /\ grace' = grace \ {c}

Key(h) == IF h.side = "src" THEN h.pkt.src ELSE h.pkt.dst

(***************************************************************************)
(* What user space is doing: making the backup entries, waiting for the    *)
(* timer, or walking over the older maps.                                  *)
(***************************************************************************)
Report ==
  [ at : {"setup", "idle", "sync", "fetch", "update", "delete", "failed"},
    map : Instances, ipv : {"v4", "v6"}, left : SUBSET Keys, del : SUBSET Keys,
    values : [Keys -> Entry \union {None}] ]

(* The entries of the batch that user space has in its hands. *)
NoValues == [k \in Keys |-> None]
Batch == {k \in Keys : report.values[k] # None}

(* The RTTs of a prefix in one instance that no line has shown yet. *)
Unprinted(m, k) ==
  IF maps[m][k] = None \/ (m = report.map /\ k \in Batch \union report.del)
    THEN 0 ELSE Rtts(maps[m][k])

UnprintedTotal ==
  SumFunction([q \in Instances \X Keys |-> Unprinted(q[1], q[2])])

-----------------------------------------------------------------------------
(* update_aggregate_stats: first the source of a packet, then its target. *)

Arrive(c, p) ==
  /\ At(c, "idle") /\ report.at # "failed"
  /\ handler' = [handler EXCEPT ![c] =
       [at |-> "choose", pkt |-> p, side |-> "src", map |-> 0, stats |-> None]]
  /\ UNCHANGED <<active, maps, grace, report, lines>>

(* Reading map_active_agg_instance. *)
Choose(c) ==
  /\ At(c, "choose")
  /\ handler' = [handler EXCEPT ![c].at = "lookup", ![c].map = active]
  /\ UNCHANGED <<active, maps, grace, report, lines>>

(* The packet is counted under key k, or nowhere if k is None. *)
update_subnet_pktcnt(c, k) ==
  LET h == handler[c]
      mine == (h.side = "dst") = AggByDst
      stats == IF ~ mine THEN h.stats
               ELSE IF k = None THEN None ELSE <<h.map, k>>
  IN
  /\ maps' = IF k = None THEN maps
             ELSE [maps EXCEPT ![h.map][k][c].traffic = TRUE,
                               ![h.map][k][c].old = FALSE]
  /\ \/ /\ h.side = "src"
        /\ handler' = [handler EXCEPT ![c].at = "choose", ![c].side = "dst",
                                      ![c].stats = stats]
        /\ UNCHANGED grace
     \/ /\ h.side = "dst" /\ h.pkt.trackable
        /\ handler' = [handler EXCEPT ![c].at = "rtt", ![c].stats = stats]
        /\ UNCHANGED grace
     \/ h.side = "dst" /\ ~ h.pkt.trackable /\ Leave(c)

(* Only a packet that may give an RTT creates an entry for its prefix. *)
lookup_aggregation_stats(c) ==
  LET h == handler[c] IN
  /\ At(c, "lookup")
  /\ \/ maps[h.map][Key(h)] # None /\ update_subnet_pktcnt(c, Key(h))
     \/ /\ maps[h.map][Key(h)] = None
        /\ Goto(c, IF h.pkt.trackable THEN "create" ELSE "backup")
        /\ UNCHANGED <<maps, grace>>
  /\ UNCHANGED <<active, report, lines>>

(* Slip: BPF_ANY, which takes an entry another CPU has just filled. *)
create_aggregation_stats_Any(c) ==
  LET h == handler[c] IN
  /\ At(c, "create")
  /\ maps' = [maps EXCEPT ![h.map][Key(h)] = EmptyEntry]
  /\ Goto(c, "find")
  /\ UNCHANGED <<active, grace, report, lines>>

(* BPF_NOEXIST: another CPU may have been faster, or the map may be full. *)
create_aggregation_stats(c) ==
  LET h == handler[c]
      k == Key(h)
      full == IsFull(h.map, h.pkt.ipv)
  IN
  /\ At(c, "create")
  /\ maps' = IF maps[h.map][k] = None /\ ~ full
               THEN [maps EXCEPT ![h.map][k] = EmptyEntry] ELSE maps
  /\ Goto(c, IF maps[h.map][k] = None /\ full THEN "backup" ELSE "find")
  /\ UNCHANGED <<active, grace, report, lines>>

(* The lookup of the entry just created, or of the backup entry. *)
find_aggregation_stats(c) ==
  LET h == handler[c]
      k == IF At(c, "find") THEN Key(h) ELSE BackupKey(h.pkt.ipv)
  IN
  /\ At(c, "find") \/ At(c, "backup")
  /\ update_subnet_pktcnt(c, IF maps[h.map][k] # None THEN k ELSE None)
  /\ UNCHANGED <<active, report, lines>>

(***************************************************************************)
(* The rest of pping_parsed_packet may measure an RTT.  The entry that it  *)
(* points to is still there (EntriesInUseStay).                            *)
(* Bound: no more than MaxRtts RTTs wait to be printed.                    *)
(***************************************************************************)
aggregate_rtt(c) ==
  LET s == handler[c].stats IN
  /\ At(c, "rtt")
  /\ \/ UNCHANGED maps
     \/ /\ s # None
        /\ maps[s[1]][s[2]] # None
        /\ UnprintedTotal < MaxRtts
        /\ maps' = [maps EXCEPT ![s[1]][s[2]][c].rtts = @ + 1]
  /\ Leave(c)
  /\ UNCHANGED <<active, report, lines>>

-----------------------------------------------------------------------------
(* init_agg_backup_entries *)

(* IPv4 before IPv6, and the first instance before the second. *)
AfterBackup ==
  CASE report.map = 0 -> [report EXCEPT !.map = 1]
    [] report.map = 1 /\ report.ipv = "v4" /\ "v6" \in Prefixed ->
         [report EXCEPT !.map = 0, !.ipv = "v6"]
    [] OTHER -> [report EXCEPT !.at = "idle"]

(* Slip: BPF_ANY, and an error that is not looked at. *)
init_agg_backup_entries_Any ==
  /\ report.at = "setup"
  /\ maps' = IF IsFull(report.map, report.ipv) THEN maps
             ELSE [maps EXCEPT ![report.map][BackupKey(report.ipv)] = EmptyEntry]
  /\ report' = AfterBackup
  /\ UNCHANGED <<active, handler, grace, lines>>

(***************************************************************************)
(* Before the timer is started, but after the programs have been attached: *)
(* the backup entries are made while packets are counted already, and the  *)
(* program ends if there is no room for one (BPF_NOEXIST).                 *)
(***************************************************************************)
init_agg_backup_entries ==
  LET k == BackupKey(report.ipv)
      fails == maps[report.map][k] # None \/ IsFull(report.map, report.ipv)
  IN
  /\ report.at = "setup"
  /\ maps' = IF fails THEN maps ELSE [maps EXCEPT ![report.map][k] = EmptyEntry]
  /\ report' = IF fails THEN [report EXCEPT !.at = "failed"] ELSE AfterBackup
  /\ UNCHANGED <<active, handler, grace, lines>>

-----------------------------------------------------------------------------
(* report_aggregated_stats *)

NoLines == [k \in Keys |-> 0]

(* The timer has fired; programs that start from now on use other maps. *)
switch_agg_map ==
  /\ report.at = "idle"
  /\ active' = 1 - active
  /\ grace' = Running
  /\ report' = [report EXCEPT !.at = "sync", !.map = active]
  /\ lines' = NoLines
  /\ UNCHANGED <<maps, handler>>

WalkOver(v) ==
  [report EXCEPT !.at = "fetch", !.ipv = v, !.del = {},
                 !.left = KeysOf(v) \intersect Stored(report.map)]

(* Slip: the result of membarrier does not matter, so why wait. *)
kern_sync_rcu_NoWait ==
  /\ report.at = "sync"
  /\ report' = WalkOver("v4")
  /\ grace' = {}
  /\ UNCHANGED <<active, maps, handler, lines>>

(* membarrier: no program that was running at the switch is running still. *)
kern_sync_rcu ==
  /\ report.at = "sync"
  /\ grace = {}
  /\ report' = WalkOver("v4")
  /\ UNCHANGED <<active, maps, handler, grace, lines>>

(* Slip: the backup entry has a prefix length as well. *)
IsOutdated_EvenBackup(k) ==
  k[1] \in Prefixed /\ IsOld(maps[report.map][k])

(* prefix_len is zero for the backup entry. *)
IsOutdated(k) ==
  /\ k[1] \in Prefixed /\ k[2] # Backup
  /\ IsOld(maps[report.map][k])

(* Batches come in the order of the hash buckets, that is, in any order. *)
Batches ==
  { B \in SUBSET report.left :
      IF Cardinality(report.left) <= BatchSize THEN B = report.left
      ELSE Cardinality(B) = BatchSize }

(***************************************************************************)
(* report_aggregated_stats_mapentry, for each entry of a batch: the value  *)
(* to write back is cleared if it has been printed, but for an entry that  *)
(* is to be deleted.                                                       *)
(***************************************************************************)
ValueAfter(k) ==
  LET e == maps[report.map][k] IN
  IF HasTraffic(e) /\ ~ IsOutdated(k) THEN clear_percpu(e) ELSE e

(* Slip: an entry that is to be deleted is not printed. *)
LinesAfter_SkipsOutdated(B) ==
  [k \in Keys |->
     IF k \in B /\ HasTraffic(maps[report.map][k]) /\ ~ IsOutdated(k)
       THEN Rtts(maps[report.map][k]) ELSE lines[k]]

LinesAfter(B) ==
  [k \in Keys |->
     IF k \in B /\ HasTraffic(maps[report.map][k])
       THEN Rtts(maps[report.map][k]) ELSE lines[k]]

(* Slip: the batch that comes with ENOENT is taken for an empty one. *)
fetch_batch_NotTheLast(B) ==
  LET F == IF B = report.left THEN {} ELSE B IN
  /\ report.at = "fetch"
  /\ report' = [report EXCEPT !.at = "update", !.left = @ \ B,
                   !.values = [k \in Keys |-> IF k \in F THEN ValueAfter(k) ELSE None],
                   !.del = @ \union {k \in F : IsOutdated(k)}]
  /\ lines' = LinesAfter(F)
  /\ UNCHANGED <<active, maps, handler, grace>>

(* A batch is fetched, and its entries that have seen traffic are printed. *)
fetch_batch(B) ==
  /\ report.at = "fetch"
  /\ report' = [report EXCEPT !.at = "update", !.left = @ \ B,
                   !.values = [k \in Keys |-> IF k \in B THEN ValueAfter(k) ELSE None],
                   !.del = @ \union {k \in B : IsOutdated(k)}]
  /\ lines' = LinesAfter(B)
  /\ UNCHANGED <<active, maps, handler, grace>>

Merged(e) == [traffic |-> HasTraffic(e), rtts |-> Rtts(e), old |-> IsOld(e)]

(* Slip: the merged statistics take the place of those of each CPU. *)
update_batch_Merged ==
  LET m == report.map IN
  /\ report.at = "update"
  /\ maps' = [maps EXCEPT ![m] =
       [k \in Keys |-> IF k \in Batch
                         THEN Merged(report.values[k]) ELSE @[k]]]
  /\ report' = [report EXCEPT !.at = IF report.left = {} THEN "delete" ELSE "fetch",
                              !.values = NoValues]
  /\ UNCHANGED <<active, handler, grace, lines>>

(* The values are written back (BPF_EXIST). *)
update_batch ==
  LET m == report.map IN
  /\ report.at = "update"
  /\ maps' = [maps EXCEPT ![m] =
       [k \in Keys |-> IF k \in Batch /\ @[k] # None
                         THEN report.values[k] ELSE @[k]]]
  /\ report' = [report EXCEPT !.at = IF report.left = {} THEN "delete" ELSE "fetch",
                              !.values = NoValues]
  /\ UNCHANGED <<active, handler, grace, lines>>

(* Outdated entries are deleted; then it is the turn of the other version. *)
delete_batch ==
  /\ report.at = "delete"
  /\ maps' = [maps EXCEPT ![report.map] =
       [k \in Keys |-> IF k \in report.del THEN None ELSE @[k]]]
  /\ report' = IF report.ipv = "v4" THEN WalkOver("v6")
               ELSE [report EXCEPT !.at = "idle", !.del = {}]
  /\ UNCHANGED <<active, handler, grace, lines>>

(***************************************************************************)
(* Setting up or reading the timer or an operation on a map fails: main    *)
(* leaves its loop, or never gets there, and the program ends.             *)
(***************************************************************************)
report_failed ==
  /\ report.at \in {"setup", "idle", "fetch", "update", "delete"}
  /\ report' = [report EXCEPT !.at = "failed"]
  /\ UNCHANGED <<active, maps, handler, grace, lines>>

-----------------------------------------------------------------------------
(***************************************************************************)
(* No packets for more than timeout_interval, which is at least a second:  *)
(* neither a program nor a report lasts that long.                         *)
(***************************************************************************)
Silence ==
  /\ report.at = "idle" /\ Running = {}
  /\ maps' = [m \in Instances |-> [k \in Keys |->
       IF maps[m][k] = None THEN None
       ELSE [c \in CPUs |-> [maps[m][k][c] EXCEPT !.old = TRUE]]]]
  /\ UNCHANGED <<active, handler, grace, report, lines>>

(* The maps are empty when the programs are attached. *)
Init ==
  /\ active = 0
  /\ maps = [m \in Instances |-> [k \in Keys |-> None]]
  /\ handler = [c \in CPUs |-> Idle]
  /\ grace = {}
  /\ report = [ at |-> IF Prefixed = {} THEN "idle" ELSE "setup", map |-> 0,
                ipv |-> IF "v4" \in Prefixed THEN "v4" ELSE "v6",
                left |-> {}, values |-> NoValues, del |-> {} ]
  /\ lines = NoLines

Proceed(c) ==
  \/ Choose(c)
  \/ lookup_aggregation_stats(c)
  \/ create_aggregation_stats(c)
  \/ find_aggregation_stats(c)
  \/ aggregate_rtt(c)

report_aggregated_stats ==
  \/ init_agg_backup_entries
  \/ switch_agg_map
  \/ kern_sync_rcu
  \/ \E B \in Batches : fetch_batch(B)
  \/ update_batch
  \/ delete_batch

Next ==
  \/ \E c \in CPUs, p \in Packets : Arrive(c, p)
  \/ \E c \in CPUs : Proceed(c)
  \/ report_aggregated_stats
  \/ report_failed
  \/ Silence

Spec == Init /\ [][Next]_vars

(***************************************************************************)
(* Programs terminate, user space gets on with making the backup entries,  *)
(* the timer fires again and again, and the main loop, a single thread,    *)
(* handles it in the end.                                                  *)
(***************************************************************************)
FairSpec ==
  /\ Spec
  /\ \A c \in CPUs : WF_vars(Proceed(c))
  /\ WF_vars(report_aggregated_stats)

-----------------------------------------------------------------------------
(* Every variable holds a value of its kind. *)
TypeOK ==
  /\ active \in Instances
  /\ maps \in [Instances -> [Keys -> Entry \union {None}]]
  /\ handler \in [CPUs -> Handler]
  /\ grace \subseteq CPUs
  /\ report \in Report
  /\ lines \in [Keys -> Nat]

(***************************************************************************)
(* "This should garantuee that after this call no BPF progs will attempt   *)
(* to update the now inactive maps": while they are printed, cleared and   *)
(* pruned no program has chosen them or points into them.                  *)
(***************************************************************************)
Walking == report.at \in {"fetch", "update", "delete"}

InactiveIsQuiet ==
  Walking =>
    /\ active # report.map
    /\ \A c \in Running :
         /\ ~ At(c, "choose") => handler[c].map # report.map
         /\ handler[c].stats # None => handler[c].stats[1] # report.map

(***************************************************************************)
(* "ensures backup keys are never deleted": once they have all been made,  *)
(* a packet whose prefix has no room finds the backup entry in whatever    *)
(* map it is told to use.                                                  *)
(***************************************************************************)
BackupStays ==
  report.at \notin {"setup", "failed"} =>
    \A v \in Prefixed, m \in Instances : maps[m][BackupKey(v)] # None

(***************************************************************************)
(* No entry is pruned under a program: one that it has just created is     *)
(* still there when it looks it up, and one that it keeps a pointer to     *)
(* until it has an RTT to count has not been freed, and maybe used again   *)
(* for another prefix.                                                     *)
(***************************************************************************)
EntriesInUseStay ==
  \A c \in Running :
    /\ At(c, "find") => maps[handler[c].map][Key(handler[c])] # None
    /\ LET s == handler[c].stats IN s # None => maps[s[1]][s[2]] # None

(***************************************************************************)
(* Nothing is lost, counted twice or moved between prefixes when entries   *)
(* are created, merged, cleared, written back or deleted.                  *)
(***************************************************************************)
Reports == INSTANCE AggReports WITH
  book <- [m \in Instances |-> [k \in Keys |-> Unprinted(m, k)]],
  current <- active,
  closing <- report.at = "sync"

ImplementsReports == Reports!Spec

(***************************************************************************)
(* Every RTT that is measured comes to be in a line of a report, unless    *)
(* one fails: an instance that holds RTTs is emptied of all of them.       *)
(***************************************************************************)
RttsArePrinted ==
  \A m \in Instances :
    (\E k \in Keys : Unprinted(m, k) > 0) ~>
      (\A k \in Keys : Unprinted(m, k) = 0) \/ report.at = "failed"
=============================================================================
