# A TLA+ verification of croffset and ePPing

This directory holds TLA+ models of the programs that measure and compensate
RTT offsets in container networks, the TLC configurations that check them on
small instances, and TLAPS proofs of what matters most for every instance.
`PROJECT.json` maps each definition to the lines of code it models and lists
the runs, the theorems, the hazards and the findings.

    tlc -config MCIhreo_race.cfg MCIhreo          # the run ihreo_race
    tlapm IhreoProofs.tla                         # the proofs

## 1. Inventory

### croffset (`clean-slate/croffset`)

A sender's segments may leave the host in another order than that of their
earliest departure times (EDT), and then ACKs tell TCP a misleading RTT.

* **`kretprobe_fq_dequeue`** (`ihreo.bpf.c`) sees each packet that the fq qdisc
  hands to the driver. Its state is the hash map `offset_state`: for each flow
  one `offset_info` with the last packet (dequeue time and EDT), the packet of
  the last inversion, and the compensation `cvalue`. It looks the flow up,
  reads the entry through the pointer, and replaces it (`bpf_map_update_elem`).
* **`xdp_marker`** sees each incoming packet. If it is a bare ACK in VXLAN or
  Geneve of a flow in `offset_state`, it rewrites the TCP timestamp option into
  option 253, whose value is the compensation, or a constant.
* **`tc_marker`** copies the XDP metadata to `skb->mark`.
* **`ihreo.c`** parses `-i` and `-c`, loads the three programs, attaches the
  probe, a TC filter and an XDP link in this order, waits for a key, and ends.
  Its state is what is attached: probe and link go with the process, the filter
  and the clsact qdisc belong to the interface and stay.

Hard: the handlers run on all CPUs at once, share entries without a lock, and
keep pointers into a preallocated map whose elements are recycled; unsigned
arithmetic on times; a map that is never emptied. Correct means: an entry tells
the truth about its own flow, an inversion is recorded only when there was one,
a compensation is asked for only after one, and the mark is the compensation;
the probe and the XDP program agree on map and key; several instances of the
loader, and starts that fail half-way, do not get in each other's way.

### croffset-codel (`clean-slate/croffset-codel`)

A variant on `fq_codel_dequeue` that passes the compensation through XDP
metadata to `skb->mark` and leaves the ACK alone. Its loader is the same text,
its keys are not: see section 3.

### ePPing, kernel side (`epping/pping_kern.c`)

Passive RTT measurement. An XDP program at ingress and a TC program at egress
run `pping_parsed_packet` on every TCP, ICMP or (new here) VXLAN packet:

* `flow_state`, keyed by the tuple, holds the two `flow_state` of a
  `dual_flow_state`: connection state, last time stamp, last identifier,
  number of outstanding timestamps, RTTs and counters;
* `packet_ts`, keyed by direction and identifier, holds the times of packets
  that wait for their answer;
* the perf buffer `events` carries RTTs, openings and closings of flows, and
  map-full warnings;
* the iterators `tsmap_cleanup` and `flowmap_cleanup` remove old entries;
* the aggregation maps, two per IP version, collect RTTs per prefix.

Hard: the two directions and the iterators run at once on the same flow states;
nothing is locked, only `outstanding_timestamps` is updated atomically; flows
are deleted, and elements reused, under handlers that hold pointers; identifiers
wrap; timestamps outlive the flow that made them; a program reads the clock
once, at its start, and compares the reading with times that others have stored
since, in unsigned differences. Correct means: an RTT is taken once per
timestamp unless two answers overlap, and starts at the first packet with its
identifier; events tell which flows are open; counters match maps; everything is
cleaned up in the end.

### ePPing, user side (`epping/pping.c`)

Parses options, attaches the programs, runs an epoll loop over signals, perf
events and the aggregation timer, and a thread, `periodic_map_cleanup`, that
executes both iterators in turn. Its state is what is open, attached and
running. Hard: partial failures while attaching, signals at any time, the thread
that aborts the main loop through a pipe and is cancelled and joined at the end,
the switch of the active aggregation map. Correct means: the thread never uses
what has been closed, a signal of the mask finds nothing half attached, the exit
status tells of failures, others' qdiscs stay, the program ends when asked to,
and every RTT is printed once. `lhist.h` is a histogram used by the aggregation
reports.

### xdpts

A copy of ePPing (`xdpts/xdpts.bpf.c`, `xdpts.c`) that differs from it in some
eighty lines; its XDP program reports the time stamps of packets.

### The rest

bpftrace probes, experiment drivers and analysis in Python and shell,
Kubernetes and Docker files: no program logic to model. `epping/lib`,
`xdpts/lib`, `.output`, `vmlinux.h` and the skeletons are third-party or
generated.

### How they interact

croffset and ePPing are separate programs; each consists of kernel programs
that share BPF maps, and a user process that sets constants before loading
and, for ePPing, runs the iterators and reads the events. The kernel's hash map
is not in this repository; the models take from it what the code relies on:
update, insert-if-absent and delete are atomic, and a pointer from a lookup
keeps pointing into an element that may be reused.

## 2. Modules

| Module | What it is |
| --- | --- |
| `OffsetInfo` | the value of an entry of `offset_state` and the three ways the kretprobe computes the next one; pure |
| `Ihreo` | the kretprobe and the ACK marker on all CPUs, over a preallocated hash map |
| `OffsetTracker` | what `offset_state` promises: one atomic step per dequeued packet |
| `IhreoProofs` | theorems about `Ihreo`: types, pairs, inversions, the refinement, the compensation |
| `PPing` | the programs on all CPUs for the packets of one flow, and the cleaner, step by step |
| `PPingCounts` | `PPing` with a history of the timestamps, for RTTs and the counter |
| `PPingFlows` | `PPing` with a history of the flows over one tuple, for events |
| `PPingSamples` | `PPing` with a history of the packets, for what is time-stamped |
| `PPingProofs` | theorems about `PPing`: types, and what each step of a program changes |
| `CountProofs` | theorems about `PPingCounts`, with overlaps |
| `HistoryProofs` | theorems about `PPingFlows` and `PPingSamples`, for programs that take turns |
| `PPingClocks` | one direction of a flow on several CPUs, with numeric times: rate limit, map-full warnings, RTTs, ages |
| `ClockProofs` | theorems about `PPingClocks` |
| `AggMaps` | the aggregation maps: programs that count, user space that switches, prints, clears and prunes |
| `AggReports` | what aggregation promises: two books, each number printed once |
| `AggProofs` | theorems about `AggMaps`, and that it implements `AggReports` |
| `Lifecycle` | a run of ePPing from `main` to its exit status: both threads, signals, the pipe, every call that may fail |
| `LifecycleProofs` | theorems about `Lifecycle` |
| `Loader` | instances of croffset's loader on one interface |
| `Interface` | `Loader` with the flows that leave: what the probes of croffset and croffset-codel record, and what their XDP programs look up |
| `InterfaceProofs` | theorems about `Loader` and `Interface` |
| `MC*` | instances, views and symmetries for TLC |

Definitions that end in `_Something` (for example `InOrderInfo_DropsCvalue`) are
slips: plausible mistakes in the definition named before the underscore. No
specification uses them. Each property is shown to fail when one of them takes
the place of the right definition (`mutants` in `PROJECT.json`).

### Ihreo

`handler[c]` is the program counter of CPU `c` with its live locals; one action
is one access to shared state: `Dequeue` (clock and packet), `Lookup`, `Read`
(the loads through `oinfo` and the computation), `Insert` or `Update`; for the
marker `LookupAck` and `MarkAck`. The map is modelled as the kernel
implements it: `slot[f]` is the element of flow `f`, `mem[s]` the value in an
element, `spare[c]` the element CPU `c` will fill next. An update fills the
spare, puts it in place and keeps the old one as spare; a reader whose element
is refilled may see a mixture of all values it held since the lookup (`Loads`,
word by word). Inserting fails silently when the map is full or another CPU was
faster. `dequeued` is history.

Two things are assumed of the kernel in `Dequeue`: fq hands a packet over no
earlier than its EDT, and no two readings of the clock are equal. The code
checks neither; the latter serves to tell packets apart by their times.

Header parsing is reduced to what it decides: which packets are tracked (with
a socket, or VXLAN by the UDP port) and which ACKs are markable. Times, the
32-bit `cvalue`, the 64-bit difference and the byte of the mark keep their
widths as constants `U64`, `U32`, `Byte`.

`Spec` lets handlers of one flow overlap. `SerialSpec` is the same program on a
host where a flow leaves by one transmit queue at a time; fq serialises its
dequeues with the qdisc lock, so with one queue the handlers of a flow never
overlap, while the marker and other flows still do.

### PPing

One tuple, the two directions `dir1` and `dir2` of `dual_flow_state`, and the
cleaner. `current` is the element that `flow_state` has for the tuple, `mem`
the flow states in elements, `packet_ts` the timestamps, `handler[c]` the
program on CPU `c`, with its packet and the direction of that packet, `cleaner`
the iterator that has decided to delete something, `reported` what the events so
far say. Any CPU handles packets of either direction; when `Parallel` is TRUE
programs overlap with each other, also those of one direction, and with the
cleaner. A handler is cut at every map operation and between the groups of
accesses to the state of one direction: `lookup_or_create_dualflow_state`,
`create_dualflow_state`, `find_dualflow_state`, `pping_forward`, `pping_stamp`,
`pping_count`, `pping_reverse`, `pping_open`, `pping_match`, `pping_delete`,
`pping_uncount`, `pping_report`, `close_flows`, `delete_flows`; the iterators
likewise. A pointer into `packet_ts` may show another packet's time by the time
it is compared, so with overlaps the comparison `p_info->time < *p_ts` may turn
out either way (`IsTooEarly`).

A time is kept as an age in ticks, because the code only compares differences;
ages beyond `Old` are not told apart. The four lifetimes are constants. Values
of RTTs are abstracted to whether there is one; the rate limit may therefore
suppress any time stamp but the first, and a timestamp with an RTT to judge by
may expire at any age. A map that other flows have filled is an insertion that
may always fail.

`PPingSamples` adds one assumption about the network (`IsOrdered`): a segment
with SYN, FIN or RST is not overtaken by newer data. Without it a delayed FIN
may move `last_id` back, since such segments skip the check for a new
identifier, and a repeated TSval is time-stamped.

### PPingClocks

`PPing` keeps times as ages, and takes the checks and stores of
`pping_forward` for one step. Here times are numbers below `MaxClock`,
differences are taken modulo `W`, and each load is a step of its own. A program
reads the clock in `parse` and takes its reading along (`handler[c].time`)
through `check_rate` and `store_timestamp`, `insert_timestamp`, `check_warning`
and `send_warning`; or through `match` (the lookup), `check_answer` and
`compute_rtt` (one load of `*p_ts` each), `delete_timestamp` and
`send_rtt_event_mark` (which loads it a third time). The iterators read the
clock for each element (`tsmap_cleanup`, `flowmap_cleanup`), check it
(`check_element`, `copy_timestamp`) and judge its age later (`expire_element`,
`expire_flow`).
`mem` has the elements of `packet_ts`: a program or iterator that has looked an
element up may find another packet's time in it, and `reused` remembers that.
From the lookup of a timestamp on, an answer whose element is used again may
report that packet's RTT, or a difference that wraps: `RttsHavePassed` excepts
such events, because the code does not exclude them. (A compiler may merge the
first two loads; nothing obliges it to.)
`torn` remembers that a store has come between another one's check and its
store; `stamped`, `warned`, `failed` and `latest` are history.

### AggMaps

The backup entries are made after the programs have been attached
(`init_agg_backup_entries`): a run begins with counting programs and maps that
may be full.

`maps[m][k]` is the entry of key `k` (IP version and prefix, or backup key) in
instance `m` of `map_v4_agg1/2` and `map_v6_agg1/2`; `active` is the one word of
`map_active_agg_instance`; `handler[c]` is the program on CPU `c`. A program
goes twice, for source and destination, through `Choose` (reads `active`),
`lookup_aggregation_stats`, `create_aggregation_stats` and
`find_aggregation_stats`, and keeps the pointer `stats` to the entry the RTT will
be counted in (`aggregate_rtt`). The maps are per CPU: no other CPU writes the
value that is found, so finding it and counting in it is one step; but an
update by user space writes the values of all CPUs, and a creation those of an
entry another CPU may just have filled.

The report is `switch_agg_map`, `kern_sync_rcu` (enabled when the programs in
`grace`, those that ran at the switch, have ended), and then for each version
the loop of `fetch_batch` and `update_batch`, and `delete_batch`. Fetching and
printing a batch is one step, writing it back another. Batches come in any
order. `report_failed` is any failure on the way: the main loop ends.

Of the numbers the model keeps how many RTTs an entry has on each CPU, and
whether there was traffic; of `last_updated`, whether it is older than
`timeout_interval`. `Silence` lets that interval pass, between reports and while
no program runs, because both last far less than the second it is at least. RTTs
are taken to be positive: `rtt_max` is zero only if there is none. `lines` holds
what the latest report has printed.

`AggReports` has no CPUs and no maps: RTTs are entered in one of two books, the
books take turns, and a book is opened again only when all its numbers have been
printed, each once, under the prefix it was entered for. `ImplementsReports` maps
its books to the RTTs that are in the maps and not printed.

### Lifecycle

`main` and the thread each have a program counter over the calls of `main`,
`load_attach_bpfprogs`, `setup_periodical_map_cleaning` and the cleanup at the
end, or of `periodic_map_cleanup`. Each call either succeeds or fails, and sets
`err` and `detach_err` as the code does. The rest of the state is what can be left
over or used too late: attached programs, the qdisc and who made it, links, both
ends of the pipe, the output file, pending signals, whether signals are blocked.
Signals are those of the mask; others, such as SIGQUIT or SIGKILL, end the process
wherever it is, and are left out.
Of the configuration only what decides the calls is kept: how to attach at
ingress, `--force`, whether there is a cleanup, an aggregation report, an
output file.

### Loader and Interface

`main[i]` is the next call of instance `i`; `probes`, `filters`, `qdisc` and `xdp`
are what is attached to the interface. `fail` and `kill` end an instance at any
call. `Interface` adds the keys in each instance's map (`offset_state`) and what
flows leave through which queueing discipline (`transmit`).

A flow is plain TCP (`host`), or carried in UDP to port 8472 (`vxlan`) or to port
6081 (`geneve`), and its packets leave with or without their socket (`Sockets`).
croffset's probe takes addresses and ports from the socket, or from the packet
if it has none and goes to port 8472 (`IsRecorded`); croffset-codel's only from
the socket. croffset's XDP program looks up encapsulated ACKs on either port,
croffset-codel's plain ones and those on port 8472 (`IsLookedUp`). So a flow to
port 6081 without a socket is looked up by croffset and never recorded; the
property is about the others (`Encapsulated`). Packets without `skb_mstamp_ns`
change nothing, and `sent` does not count them. The map has room for `MapSize`
keys, takes nothing when it is full, and keeps what it has.

The probe finds port and inner header at fixed offsets, and the XDP program
takes only ACKs of 116 bytes with a timestamp option: outer headers without VLAN
tag or IP options are assumed. What the XDP program writes is in `Ihreo`.

## 3. Runs

| Run | Checks | Instance and why it is enough |
| --- | --- | --- |
| `ihreo_race` | `TypeOK`, `LastPairIsOneDequeue`, `OooEdtWasUndercut` | 2 CPUs, 2 flows, 3 elements of which 2 are spare: one flow fits, the other meets a full map; clock up to 4, so up to 4 packets, enough for two overlapping updates and a reader of a recycled element |
| `ihreo_serial` | `InversionsAreReal`, `CompensationNeedsInversion`, `CompensationIsSticky`, `ImplementsTracker` | as above with 4 elements, so that both flows are tracked and elements move between them |
| `ihreo_cvalue` | `CvalueIsOffsetDifference`: violated | 1 flow, clock up to 5 |
| `pping_flows` | `ReportedIsOpen`, `OpeningTimeIsOwn` | TCP in both directions, all flow events, one identifier, 2 ticks: flows are opened, closed, expire, and are created again over leftovers |
| `pping_race` | `TypeOK`, `OutstandingIsExact`, `NoSecondSample` | 2 CPUs and the cleaner, every interleaving over one sender with one identifier: so both may have the same answer, or the same new flow; a counter that wraps at 2, one element that all flows share; no FIN or RST, flows end by the cleaner |
| `pping_edges` | `FirstEdgeOnly` | three identifiers around the wrap at 8, reordered and repeated |
| `pping_expiry` | `TimestampsExpire`, `FlowsExpire` | TCP with SYN and FIN in both directions, lifetimes of no tick, fairness |
| `pping_clocks` | `StampsAreSpaced`, `WarningsAreSpaced`, `FailuresAreWarned`, `RttsHavePassed`, `ForgottenIsOld` | 2 CPUs and the cleaner, 2 identifiers and 1 element, so that the map is full and its element reused; a clock up to 4 with intervals of 1 and 2, modulo 16 |
| `agg_race` | `TypeOK`, `InactiveIsQuiet`, `ImplementsReports`, `RttsArePrinted` | 2 CPUs, one prefix: both create and fill its entry, before, during and after the switch; fairness |
| `agg_full` | `BackupStays`, `EntriesInUseStay`, `ImplementsReports` | 1 CPU, 2 prefixes, room for one beside the backup entry, batches of 1: fall back, pruning, walks of more than one batch |
| `lifecycle` | `TypeOK`, `ThreadHasItsFiles`, `NotKilledAttached`, `AbortIsFailure`, `StatusTellsFailure`, `LeftoversAreExplained`, `OutputIsOpen`, `ForeignQdiscStays`, `InterruptEnds`, `CleanupFailureEnds` | one run of the program, all configurations and all failures; fairness |
| `interface` | `WaitingIsComplete`, `AckFindsFlow` | a croffset and a croffset-codel that start again and again; a flow of the host, one to port 8472, two to port 6081 of which one has a socket; maps with room for 2, so that flows meet a full one; 2 leftover filters each |

Bounds. `Time` bounds the clock of `Ihreo` and with it the number of packets;
at its end the system stops, so those runs do not check deadlock. `Old`,
`IdMod`, `CtrMod`, `Ids` and `Elements` bound `PPing`, which runs for ever;
deadlock is checked there. With one element in `Elements` every new flow reuses
the element of the one before, which is the worst case for stale pointers.
Three interleaved programs over several ticks are too many states, so `Span` is
0 in all runs: a tick passes only between packets. `MCPPing` hides by a VIEW
the locals that no step reads any more, and elements nobody can reach. CPUs
(`pping_race`) and directions (`pping_flows`) are interchangeable (SYMMETRY).

`MaxRtts` bounds the RTTs in `AggMaps` that wait to be printed: with one, each RTT
can be followed through both instances on its own. It bounds no packets:
programs and reports go on for ever, and the system stops only after a report
has failed, so deadlock is not checked there. The two prefixes of `agg_full` are
interchangeable (SYMMETRY). IPv4 and IPv6 have
maps of their own and the walk over them is the same, so an instance has packets
of one version; the walk over the other finds empty maps.

`MaxFilters` bounds the leftovers of `Loader`: at the bound an instance can only
fail. `PPingClocks` goes on for ever at `MaxClock`, where programs still
arrive and all read the same time; CPUs and identifiers are interchangeable
(SYMMETRY), which is sound for the invariants this run checks. The histories
`torn` and `reused` are needed: without the exceptions they make, TLC finds the
interval of warnings and of time stamps broken, an event whose start does not
fit its RTT, and a fresh timestamp deleted.

The run that ends in a violation shows, at `ihreo.bpf.c:547-554`: the comment
defines the compensation as the difference of the offsets of this packet and of
the packet recorded as out of order. The guard uses that pair, the subtraction
the pair of the inversion before (zeros at the first), so the result may be the
whole offset, or wrap around.

Other disagreements of the code with its texts came up while modelling. They
follow from a line or two, and no run is spent on them:

* `ihreo.c:43` takes a constant in microseconds up to two million, of which
  `ihreo.bpf.c:417` marks the low byte.
* `ihreo.c:244` prints "Removed", but the TC filter stays, once more with every
  start (`Loader`: `finish` leaves `filters` alone).
* `croffset-codel/ihreo.bpf.c:245` stores entries under `valid = 0`, and
  `parse_flow_id` looks them up with `valid = 1`: no entry is ever found.
  `AckFindsFlow` is therefore stated of croffset only; of croffset-codel it is
  false (`DequeueKey` and `AckKey` in `Interface`).
* `ihreo.bpf.c:331` takes ACKs on port 6081 as well, but line 455 records packets
  without a socket on port 8472 only.
* `ihreo.bpf.c:702` makes room for metadata that croffset never writes, and
  `tc_marker` copies what is there to `skb->mark`.
* `pping_kern.c:930-932`: the opening event is to carry the time of the packet
  that opened the flow; line 946 takes that of the last time-stamped packet.
  `OpeningTimeIsOwn` is what holds: a time of the flow.
* `pping_kern.c:983`: the warning "will only trigger once every" interval; two
  CPUs may both send it. `WarningsAreSpaced` is what holds.
* `pping.c:2634` makes `tc` the default at ingress; that program only copies the
  mark, so no incoming packet is measured. With XDP at ingress the TC filter is
  attached as well, and never detached (`pping.c:2794`); `LeftoversAreExplained`
  is what holds.

Things the models show that no text of the repository contradicts, recorded as
hazards: with overlapping handlers an inversion may be recorded that never
happened, or be lost; two CPUs that have the same answer both take an RTT from
one timestamp, and either may take that of another packet; an answer on another
CPU may match before the counter is incremented and be skipped; leftover
timestamps make `outstanding_timestamps` of the next flow wrap, after which it
can be zero with timestamps stored; a direction that was closed stays CLOSED for
as long as the other is active, also when the tuple is used again.

## 4. Fairness

Three runs need it. In `pping_expiry` (`Fairness` in `PPing`): Handlers and
iterators in progress go on (weak fairness): BPF programs terminate, the
verifier guarantees it. The clock ticks (strong fairness, because `Tick` is
disabled while a handler has lasted `Span` ticks; real time does not wait). The
cleanup thread walks both maps in an endless loop with a sleep in between, so it
visits an element that stays in a map again and again; a visit that finds it
expired removes it (strong fairness, because a packet may refresh an element
between visits). Packets are not assumed to arrive. The cleanup thread ends when
an iterator fails, and the program with it; that case is excluded.

In `agg_race` (`FairSpec` in `AggMaps`) programs under way go on, and so do the
setup and the report: the timer fires at each interval and the main loop, a
single thread, handles it and waits for nothing but the programs. A report that
fails ends the program; `RttsArePrinted` allows for that rather than excluding
it.

In `lifecycle` (`FairSpec` in `Lifecycle`) both threads go on with their calls,
none of which waits for ever except as modelled; epoll serves descriptors that
are ready in turn, so none waits for ever behind another; a thread that is
cancelled reaches a cancellation point. That a call succeeds is nowhere assumed.

## 5. Proofs

`IhreoProofs` proves, for all sets of flows, CPUs and elements, all word sizes
and clocks, under the assumptions named in `OffsetInfo` and `Ihreo`:

* `TypeCorrect`: `Spec => []TypeOK`;
* `LastPairCorrect`: `Spec => []LastPairIsOneDequeue`;
* `InversionsCorrect`: `SerialSpec => []InversionsAreReal`;
* `Implementation`: `SerialSpec => ImplementsTracker`.

The first two rest on `IInv`. `LastPairIsOneDequeue` alone is not inductive: an
update on one CPU could overwrite the entry of another flow if elements were
shared, so `IInv` adds `ElementsAreApart` (flows and spares all have elements of
their own), and that every handler in progress carries a packet that was
dequeued for its own flow. `NextIInv` has one lemma per action.

The last two rest on `SInv`, for handlers that do not overlap: what a handler
has read is still the flow's entry when it writes, because an element
is recycled only after the flow has left it, and only the one handler of the
flow replaces it; and a packet in progress left after every packet the entry
knows. `Implementation` maps `Insert` and `Update` to steps of `OffsetTracker`
and everything else to stuttering.

Two more are about the compensation, under the same assumptions:

* `CompensationJustified`: `SerialSpec => []CompensationNeedsInversion`. The
  invariant `CInv` adds to `SInv` that the values in all elements, not only
  those in the map, ask for compensation only after an inversion: the marker
  may read an element that has left the map.
* `CompensationSticks`: `SerialSpec => CompensationIsSticky`, from `SInv`.

What is left of inversions when handlers of one flow overlap, and loads tear, is
`OooEdtWasUndercut`. It needs that a handler whose element is recycled under it
does not load another flow's words:

* `OooEdtIsUndercut`: `Spec /\ []OneTracked => []OooEdtWasUndercut`, for
  behaviours in which one flow at a time has an entry. `UndercutInv` says of
  everything a handler has loaded or is about to store, whichever of its five
  words were loaded together, that the EDTs in it are those of packets of the
  flow, and that another one undercuts the EDT called out of order.
  `ihreo_race` has room for one flow only, so that there the same holds of every
  behaviour.

`PPingProofs` is about `PPing`, for any CPUs, identifiers, elements, lifetimes and
protocols, under `PPingAssumption`. `FlowTypeCorrect`, `Spec => []TypeOK`, has one
lemma per action and holds whether or not the programs overlap. Its lemmas named
for their steps say what a step changes; the next two modules rest on them.

`CountProofs`, with programs on any number of CPUs and the cleaner overlapping as
they like:

* `SecondSamplesOverlap`: `CountsSpec => NoSecondSample`. Two programs with the
  same answer do take two RTTs from one timestamp; what is left is that each of
  them has found it before the first one has deleted it. The invariant
  `SampledIsDoomed` says that a timestamp that has given an RTT and is still there
  has a program that is about to delete it: a timestamp is never inserted over an
  old one, and whoever is to delete it stays so until it is gone (`DoomStays`).
* `CountersAreExact`: `CountsSpec => []OutstandingIsExact`. The counter is the number
  of timestamps, less those that older flows left (`left`), plus what programs and
  the cleaner have deleted and not yet uncounted, minus what they have inserted and
  not yet counted, modulo its range (`Exact`). A step of a handler changes the
  counter by as much as that balance (`StoresOfStep`, `BalanceOfStep`,
  `SettledStep`). A flow is excepted if somebody had a pointer into an older
  one as it was created (`undisturbed`): they may count in an element that is now
  the new flow's.

`HistoryProofs`, for programs that take turns (`Parallel = FALSE`). `SerialInv` says
that one program at a time is at work and that its pointer, if it holds one,
points to the element that the flow has (its lemmas are in `PPingProofs`).

* `ReportsAreTrue`: `FlowsSpec => []ReportedIsOpen`. `ReportInv` adds that a
  handler that is about to delete the flow has closed what was open, and that
  the cleaner has noted which closings it will report.
* `OpeningsAreOwn`: `FlowsSpec => OpeningTimeIsOwn`. `OpenInv` says of a direction
  that waits for its answer that neither its last time stamp nor a packet that
  may replace it is older than the packet it opened with.
* `FirstEdges`: `SamplesSpec => FirstEdgeOnly`, for TCP and for identifiers within
  half of their range, which is what comparing sequence numbers by their
  difference can tell apart (`WithinHalf`; RFC 7323 asks it of TSvals). `EdgeInv`
  says that no identifier that a direction in use has carried is newer than its
  `last_id`, unless its first packet is still to be looked at (`NoneIsNewer`), and
  that the packet in a handler's hands has been seen (`PacketsAreSeen`).

`AggProofs` proves, for any number of CPUs and prefixes and all sizes of maps and
batches, under `AggAssumption` and `NoneAssumption`:

* `TypeCorrect`: `Spec => []TypeOK`;
* `QuietWhilePrinted`: `Spec => []InactiveIsQuiet`;
* `BackupsAreKept`: `Spec => []BackupStays`;
* `NothingPrunedInUse`: `Spec => []EntriesInUseStay`;
* `Implementation`: `Spec => ImplementsReports`.

All rest on `AInv`. `UsersAreAwaited` strengthens the second: until the wait is
over, every program that has chosen the older maps, or points into them, is in
`grace`; the switch establishes it, and no step of a program breaks it, because a
program comes to use no instance but the active one (`Obeys`). `WalkIsSound`
strengthens the third: a walk has only entries of its own map before it, and
never a backup key among those it will delete.

`Implementation` adds `BookInv`, four facts about numbers. `TrafficInv`: an
entry without traffic has no RTTs, since the packet that gives an RTT has been
counted before, in the same entry and on the same CPU; so entries that get no
line lose nothing. `HandInv`: what is in hand between printing and writing back
has been cleared or will be deleted. `QuietInv`: nothing is entered in the older
book once the wait is over. `PrintedInv`: the keys a walk has left behind have
nothing to print, and so nothing is left when the next book is opened. The
lemmas `...KeepsBook` show that a step leaves every number as it is, but that
`aggregate_rtt` adds one (`Measured`) and `fetch_batch` empties a batch
(`Taken`); `ProgramRefines` and `ReportRefines` turn this into steps of
`AggReports`.

The number in a line is a sum over CPUs, that is, a fold. `SumCountsDots` shows,
for every finite set, that such a sum is the cardinality of a set that has `f[x]`
members for each `x`, after which the library's facts about cardinalities do. The
prover has no induction over sets to offer; the lemma takes a smallest
subset for which the claim fails instead (`SmallestSubset`, from the library's
theorem that the subsets of a finite set are well-founded).

`LifecycleProofs` proves, for every configuration, that is, every combination of
options and of calls that fail, all of the safety of a run of ePPing:
`TypeCorrect`, `ThreadKeepsItsFiles`, `SignalsLeaveNothing`, `AbortsAreTold`,
`FailuresAreTold`, `LeftoversHaveReasons`, `EventsHaveOutput` and
`ForeignQdiscIsKept`. Their invariant `LInv` says for each program counter of
`main` what is open, attached, blocked and joined, which is why nothing is used
after it has been closed (`SignalsInv`, `ThreadInv`, `OutputInv`, `QdiscInv`).
`ErrorInv` and `FailedInv` account for each failure: it is in `err`, in
`detach_err`, or still with the thread that `main` will join. `XdpInv`,
`EgressInv`, `XdpLeftInv` and `IngressInv` say of each hook that whatever is
attached there is yet to be detached, or that a call has failed.

`InterfaceProofs` is about `Loader` and, on top of it, `Interface`. `Completeness`:
`Spec => []WaitingIsComplete`. The
invariant `Complete` says for each call what an instance has by then; it is kept
because no instance takes another's probe or filter, and a second XDP link is
refused. `AcksFindFlows`: `InterfaceSpec =>
[]AckFindsFlow`, for maps of any size; `InterfaceInv` adds that what an instance
had room for is in its map under the key its XDP program uses. `InterfaceTypes`
is `InterfaceSpec => []InterfaceTypeOK`.

`ClockProofs` proves, for any number of CPUs, identifiers and elements and all
intervals, under `ClockAssumption`, each of the five properties of `pping_clocks`
(`StampsKeepTheirDistance`, `WarningsKeepTheirDistance`, `EveryFailureIsWarned`,
`RttsAreTrue`, `OnlyOldIsForgotten`), and `ClockTypes`. The invariant `ClockInv`
adds what programs carry: who is about to store has checked against the time it
has seen (`StampInv`, `WarningInv`), and is exact unless `torn`; the last warning
is one of those sent, and the latest unless `torn`; an answer that has checked its
element, and an RTT that waits for its event, fit the element unless it was used
again (`EventInv`); and the ages the
cleaner computes do not wrap (`CleanerInv`, with `MinusIsDifference`).
`FailuresAreWarned` needs that no time comes from the first interval after the
machine started, when `last_warn_time` is zero and no warning has been sent.

Every safety property and every refinement that a passing run checks is stated
by one of these theorems. Those about programs that take turns have
`Parallel = FALSE` as a hypothesis, as their runs have it as a constant. With
overlaps TLC finds `ReportedIsOpen` violated; there `OpeningTimeIsOwn` has
openings without a packet to compare them with, and for `FirstEdgeOnly` the
states are too many for a verdict. Checked by TLC only: liveness, that is
`TimestampsExpire`, `FlowsExpire`, `RttsArePrinted`, `InterruptEnds` and
`CleanupFailureEnds`, since fairness and ENABLED are out of the prover's reach.

## 6. What is not modelled

`tc_marker` and the XDP metadata, whose content only the bpftrace probes print,
the checksum of marked ACKs, the parsing of options, the options `localfilt` and
`skip_syn`, all packet and byte counters (`AggMaps` keeps whether there was
traffic), the global counters, RTT bins and percentiles, the arithmetic of
prefix masks, a `membarrier` that fails, the layout of all output, xdpts. In
`PPing` the update of one direction's state at the start of a handler
(`pping_forward`), and the closing of both directions (`close_flows`), are
single steps; the finer races on `conn_state` and `last_id` inside them are left
out (those on the rate limit are in `PPingClocks`). Reuse of an element by a
flow with another tuple is left out too; reuse of the elements of `packet_ts` is
in `PPingClocks`. `PPingClocks` has no states of the connection and no RTT-based
limits and lifetimes, and of the two maps that are warned about only
`packet_ts`, since each has its own `last_warn_time`.

The modelled lines are a small share of the tree. Nearly all of the tree is
`vmlinux.h`, libbpf, xdp-tools and kernel headers, vendored twice or generated;
of the rest, the programs proper have a few thousand lines, with parsing of
headers and options, output and copies of one another among them.

## 7. Plan

Done since the first plan: `Lifecycle`, the map-full warnings (`PPingClocks`), the
loader and croffset-codel (`Loader`, `Interface`). Left, in this order:

1. `PPing` with finer steps inside `pping_forward` and `close_flows`, with two
   elements and `Span` > 0 where the state space allows it.
2. `Lhist`, `PrefixKeys` and the percentiles against reference definitions.
3. The global counters, which user space reads while programs count.
4. The few lines in which xdpts differs.

Next theorems: the operators of `OffsetInfo` against a definition over the whole
sequence of packets; what remains of `ReportedIsOpen` when programs overlap, and
of `FirstEdgeOnly`.
