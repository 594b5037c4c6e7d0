------------------------------ MODULE Lifecycle -----------------------------
(***************************************************************************)
(* A run of ePPing from main to its exit status: attaching the programs,   *)
(* the cleanup thread and its pipe, signals, the epoll loop, reopening the *)
(* output, and what is undone at the end or when a call fails              *)
(* (epping/pping.c).                                                       *)
(*                                                                         *)
(* An action of main is a call that can fail, or that the cleanup thread   *)
(* or a signal can come before.  Errors are kept as whether there is one;  *)
(* failed remembers which calls had one.                                   *)
(***************************************************************************)

VARIABLES
  config,       (* the options *)
  main,         (* the call that the main thread makes next *)
  err,          (* err and detach_err of main: is there an error? *)
  detach_err,
  kernel,       (* what the interface has: programs and qdisc *)
  progs,        (* what the process knows of that *)
  signals,      (* those for the process: are they blocked, which are pending *)
  thread,       (* the cleanup thread *)
  links,        (* the links to the iterators *)
  pipe,         (* the pipe from the cleanup thread to the main thread *)
  output,       (* out_ctx, and whether its file name is free *)
  failed        (* history: the calls that have failed *)

files == <<thread, links, pipe, output>>
vars == <<config, main, err, detach_err, kernel, progs, signals, files, failed>>

Config == [ingress : {"xdp", "tc"}, cleanup : BOOLEAN, aggregate : BOOLEAN,
           force : BOOLEAN, file : BOOLEAN]

Programs == {"xdp", "ingress", "egress"}

(* The clsact qdisc: none, one that ePPing has made, or one that was there. *)
Kernel == [attached : SUBSET Programs, qdisc : {"none", "own", "foreign"}]

(* Is obj loaded, is xdp_prog set; created_tc_hook. *)
Progs == [loaded : BOOLEAN, xdp_prog : BOOLEAN, created_tc_hook : BOOLEAN]

Signals == {"INT", "HUP"}

(* Where it is, whether an iterator has failed and pthread_cancel was called. *)
Thread ==
  [at : {"none", "ts", "flow", "write", "sleep", "ended", "canceled"},
   err : BOOLEAN, cancel : BOOLEAN]

(***************************************************************************)
(* The file of the option -w is created (fopen "ax"), so its name has to   *)
(* be free; it may have been taken by an earlier run.                      *)
(***************************************************************************)
Init ==
  /\ config \in Config
  /\ main = "open_output"
  /\ err = FALSE /\ detach_err = FALSE
  /\ kernel \in [attached : {{}}, qdisc : {"none", "foreign"}]
  /\ progs = [loaded |-> FALSE, xdp_prog |-> FALSE, created_tc_hook |-> FALSE]
  /\ signals = [blocked |-> FALSE, pending |-> {}]
  /\ thread = [at |-> "none", err |-> FALSE, cancel |-> FALSE]
  /\ links = {}
  /\ pipe = [open |-> FALSE, message |-> FALSE]
  /\ output \in [open : {FALSE}, free : BOOLEAN]
  /\ failed = {}

-----------------------------------------------------------------------------
(* The call is past, or has failed, and main goes on to l. *)
Goto(l) == main' = l /\ UNCHANGED <<err, detach_err, failed>>

FailAt(call, l) ==
  /\ main' = l
  /\ err' = TRUE
  /\ failed' = failed \union {call}
  /\ UNCHANGED detach_err

(* It has failed, but err is what it was. *)
FailUntold(call, l) ==
  /\ main' = l
  /\ failed' = failed \union {call}
  /\ UNCHANGED <<err, detach_err>>

(* For standard output nothing is opened. *)
CanOpen == ~ config.file \/ output.free
Opened == [open |-> TRUE, free |-> output.free /\ ~ config.file]

open_output ==
  /\ main = "open_output"
  /\ \/ CanOpen /\ output' = Opened /\ Goto("init_signalfd")
     \/ UNCHANGED output /\ FailAt("open_output", "ended")
  /\ UNCHANGED <<config, kernel, progs, signals, thread, links, pipe>>

(* Slip: the descriptor is made, but nothing is blocked. *)
init_signalfd_NoMask ==
  /\ main = "init_signalfd"
  /\ Goto("load") \/ FailUntold("init_signalfd", "close_output")
  /\ UNCHANGED <<config, kernel, progs, signals, files>>

(* From now on SIGINT, SIGTERM and SIGHUP wait for the main loop. *)
init_signalfd ==
  /\ main = "init_signalfd"
  /\ \/ signals' = [signals EXCEPT !.blocked = TRUE] /\ Goto("load")
     \/ UNCHANGED signals /\ FailUntold("init_signalfd", "close_output")
  /\ UNCHANGED <<config, kernel, progs, files>>

-----------------------------------------------------------------------------
(* load_attach_bpfprogs *)

(* bpf_object__open, init_rodata *)
load_bpfprogs ==
  /\ main = "load"
  /\ Goto("xdp_attach") \/ FailAt("load", "close_output")
  /\ UNCHANGED <<config, kernel, progs, signals, files>>

(***************************************************************************)
(* libxdp loads obj.  When that, or the attaching, fails there is only a   *)
(* message.  The program of -I tc, the default, is none that can be        *)
(* attached as an XDP program.                                             *)
(***************************************************************************)
xdp_attach ==
  /\ main = "xdp_attach"
  /\ \/ /\ config.ingress = "xdp"
        /\ kernel' = [kernel EXCEPT !.attached = @ \union {"xdp"}]
        /\ progs' = [progs EXCEPT !.loaded = TRUE, !.xdp_prog = TRUE]
        /\ Goto("tc_ingress")
     \/ /\ \E b \in BOOLEAN : progs' = [progs EXCEPT !.loaded = b]
        /\ UNCHANGED kernel
        /\ FailUntold("xdp_attach", "tc_ingress")
  /\ UNCHANGED <<config, signals, files>>

(* A qdisc is created if there is none; it goes again if the filter fails. *)
WithFilter(point) ==
  [attached |-> kernel.attached \union {point},
   qdisc |-> IF kernel.qdisc = "none" THEN "own" ELSE kernel.qdisc]

(* Slip: a qdisc that was there already counts as created. *)
Created_Always == TRUE

Created == kernel.qdisc = "none"

tc_attach_ingress ==
  /\ main = "tc_ingress"
  /\ \/ /\ progs.loaded
        /\ kernel' = WithFilter("ingress")
        /\ progs' = [progs EXCEPT !.created_tc_hook = Created]
        /\ Goto("tc_egress")
     \/ /\ UNCHANGED <<kernel, progs>>
        /\ FailAt("tc_ingress", "close_output")
  /\ UNCHANGED <<config, signals, files>>

(* By now there is a qdisc. *)
tc_attach_egress ==
  /\ main = "tc_egress"
  /\ \/ kernel' = WithFilter("egress") /\ Goto("pipe")
     \/ UNCHANGED kernel /\ FailAt("tc_egress", "egress_err")
  /\ UNCHANGED <<config, progs, signals, files>>

Detached(p) == [kernel EXCEPT !.attached = @ \ {p}]

(* Destroying the qdisc takes both filters with it. *)
tc_detach_succeeds(point, destroy) ==
  kernel' = IF destroy THEN [attached |-> kernel.attached \ {"ingress", "egress"},
                             qdisc |-> "none"]
            ELSE Detached(point)

(* Nothing has happened, or the filter is gone but the qdisc is not. *)
tc_detach_fails(point, destroy) ==
  UNCHANGED kernel \/ (destroy /\ kernel' = Detached(point))

(* What was attached at ingress: the XDP program if there is one. *)
detach_ingress_succeeds(destroy) ==
  \/ progs.xdp_prog /\ kernel' = Detached("xdp")
  \/ ~ progs.xdp_prog /\ tc_detach_succeeds("ingress", destroy)

detach_ingress_fails(destroy) ==
  \/ progs.xdp_prog /\ UNCHANGED kernel
  \/ ~ progs.xdp_prog /\ tc_detach_fails("ingress", destroy)

(* err is the error of tc_attach in any case. *)
egress_err ==
  /\ main = "egress_err"
  /\ \/ /\ detach_ingress_succeeds(progs.created_tc_hook)
        /\ Goto("close_output")
     \/ /\ detach_ingress_fails(progs.created_tc_hook)
        /\ FailUntold("egress_err", "close_output")
  /\ UNCHANGED <<config, progs, signals, files>>

-----------------------------------------------------------------------------
(* setup_periodical_map_cleaning: its failures leave the pipe open. *)

open_pipe ==
  /\ main = "pipe"
  /\ \/ /\ pipe' = [pipe EXCEPT !.open = TRUE]
        /\ Goto(IF config.cleanup THEN "tsclean_link" ELSE "init_perfbuffer")
     \/ UNCHANGED pipe /\ FailAt("pipe", "detach_ingress")
  /\ UNCHANGED <<config, kernel, progs, signals, thread, links, output>>

iter_map_attach ==
  /\ \/ /\ main = "tsclean_link"
        /\ \/ links' = {"tsclean"} /\ Goto("flowclean_link")
           \/ UNCHANGED links /\ FailAt("tsclean_link", "detach_ingress")
     \/ /\ main = "flowclean_link"
        /\ \/ links' = links \union {"flowclean"} /\ Goto("pthread_create")
           \/ links' = {} /\ FailAt("flowclean_link", "detach_ingress")
  /\ UNCHANGED <<config, kernel, progs, signals, thread, pipe, output>>

(* Slip: goto destroy_ts_link. *)
pthread_create_OneLink ==
  /\ main = "pthread_create"
  /\ \/ /\ thread' = [thread EXCEPT !.at = "ts"]
        /\ UNCHANGED links
        /\ Goto("init_perfbuffer")
     \/ /\ UNCHANGED thread
        /\ links' = links \ {"tsclean"}
        /\ FailAt("pthread_create", "detach_ingress")
  /\ UNCHANGED <<config, kernel, progs, signals, pipe, output>>

pthread_create ==
  /\ main = "pthread_create"
  /\ \/ /\ thread' = [thread EXCEPT !.at = "ts"]
        /\ UNCHANGED links
        /\ Goto("init_perfbuffer")
     \/ /\ UNCHANGED thread
        /\ links' = {}
        /\ FailAt("pthread_create", "detach_ingress")
  /\ UNCHANGED <<config, kernel, progs, signals, pipe, output>>

(* Slip: the error is returned, but not kept. *)
init_perfbuffer_Untold ==
  /\ main = "init_perfbuffer"
  /\ \/ Goto(IF config.aggregate THEN "aggregation_timer" ELSE "epoll_create")
     \/ FailUntold("init_perfbuffer", "pthread_cancel")
  /\ UNCHANGED <<config, kernel, progs, signals, files>>

init_perfbuffer ==
  /\ main = "init_perfbuffer"
  /\ \/ Goto(IF config.aggregate THEN "aggregation_timer" ELSE "epoll_create")
     \/ FailAt("init_perfbuffer", "pthread_cancel")
  /\ UNCHANGED <<config, kernel, progs, signals, files>>

init_aggregation_timer ==
  /\ main = "aggregation_timer"
  /\ Goto("epoll_create") \/ FailUntold("aggregation_timer", "pthread_cancel")
  /\ UNCHANGED <<config, kernel, progs, signals, files>>

epoll_create ==
  /\ main = "epoll_create"
  /\ Goto("epoll_add_events") \/ FailUntold("epoll_create", "pthread_cancel")
  /\ UNCHANGED <<config, kernel, progs, signals, files>>

epoll_add_events ==
  /\ main = "epoll_add_events"
  /\ Goto("loop") \/ FailAt("epoll_add_events", "pthread_cancel")
  /\ UNCHANGED <<config, kernel, progs, signals, files>>

-----------------------------------------------------------------------------
(* The main loop: epoll_poll_events takes one event after the other. *)

(* epoll_wait, reading a descriptor, handling an event or a report fails. *)
epoll_poll_fails ==
  /\ main = "loop"
  /\ FailAt("loop", "pthread_cancel")
  /\ UNCHANGED <<config, kernel, progs, signals, files>>

(* SIGINT, SIGTERM: PPING_ABORT, which is not an error. *)
handle_abort_signal ==
  /\ main = "loop" /\ "INT" \in signals.pending
  /\ signals' = [signals EXCEPT !.pending = @ \ {"INT"}]
  /\ Goto("pthread_cancel")
  /\ UNCHANGED <<config, kernel, progs, files>>

(* Slip: the old output is closed before there is a new one. *)
Reopened_ClosesFirst(ok) ==
  IF ok /\ CanOpen THEN Opened ELSE [output EXCEPT !.open = FALSE]

Reopened(ok) == IF ok /\ CanOpen THEN Opened ELSE output

(* SIGHUP: an output that cannot be opened is only warned about. *)
handle_reopen_signal ==
  /\ main = "loop" /\ "HUP" \in signals.pending
  /\ signals' = [signals EXCEPT !.pending = @ \ {"HUP"}]
  /\ \E ok \in BOOLEAN : output' = IF config.file THEN Reopened(ok) ELSE output
  /\ Goto("loop")
  /\ UNCHANGED <<config, kernel, progs, thread, links, pipe>>

(* Slip: the error is printed, and that is all. *)
handle_pipefd_GoesOn ==
  /\ main = "loop" /\ pipe.message
  /\ pipe' = [pipe EXCEPT !.message = FALSE]
  /\ Goto("loop")
  /\ UNCHANGED <<config, kernel, progs, signals, thread, links, output>>

(* PPING_ABORT once more: the error of the thread is looked at later. *)
handle_pipefd ==
  /\ main = "loop" /\ pipe.message
  /\ pipe' = [pipe EXCEPT !.message = FALSE]
  /\ Goto("pthread_cancel")
  /\ UNCHANGED <<config, kernel, progs, signals, thread, links, output>>

-----------------------------------------------------------------------------
(* Cleanup, with what goes before closed in passing. *)

HasThread == thread.at # "none"

(* Slip: a thread that wakes up every second need not be canceled. *)
pthread_cancel_Waits ==
  /\ main = "pthread_cancel"
  /\ UNCHANGED thread
  /\ Goto(IF HasThread THEN "pthread_join" ELSE "close_pipe")
  /\ UNCHANGED <<config, kernel, progs, signals, links, pipe, output>>

pthread_cancel ==
  /\ main = "pthread_cancel"
  /\ thread' = [thread EXCEPT !.cancel = HasThread]
  /\ Goto(IF HasThread THEN "pthread_join" ELSE "close_pipe")
  /\ UNCHANGED <<config, kernel, progs, signals, links, pipe, output>>

(* Slip: the thread is canceled, so it need not be waited for. *)
Joinable_AtOnce == TRUE

Joinable == thread.at \in {"ended", "canceled"}

(* Slip: the message through the pipe was printed, that will do. *)
ThreadError_Ignored == FALSE

(* thread_err is not PTHREAD_CANCELED. *)
ThreadError == thread.at = "ended" /\ thread.err

(* pthread_join, and destroying the links. *)
pthread_join ==
  /\ main = "pthread_join"
  /\ Joinable
  /\ err' = (err \/ ThreadError)
  /\ links' = {}
  /\ main' = "close_pipe"
  /\ UNCHANGED <<config, detach_err, kernel, progs, signals, thread, pipe,
                 output, failed>>

close_pipe ==
  /\ main = "close_pipe"
  /\ pipe' = [open |-> FALSE, message |-> FALSE]
  /\ Goto("detach_ingress")
  /\ UNCHANGED <<config, kernel, progs, signals, thread, links, output>>

(* What becomes of detach_err, and of err, which is left alone. *)
Detaching(call, next, succeeds, fails) ==
  /\ main = call /\ main' = next
  /\ \/ succeeds /\ detach_err' = FALSE /\ UNCHANGED failed
     \/ fails /\ detach_err' = TRUE /\ failed' = failed \union {call}
  /\ UNCHANGED <<config, err, progs, signals, files>>

detach_ingress ==
  Detaching("detach_ingress", "detach_egress",
            detach_ingress_succeeds(FALSE), detach_ingress_fails(FALSE))

(* Slip: without -f the programs stay where they are. *)
detach_egress_OnlyForce ==
  LET destroy == config.force /\ progs.created_tc_hook IN
  Detaching("detach_egress", "close_output",
            IF config.force THEN tc_detach_succeeds("egress", destroy)
              ELSE UNCHANGED kernel,
            tc_detach_fails("egress", destroy))

detach_egress ==
  LET destroy == config.force /\ progs.created_tc_hook IN
  Detaching("detach_egress", "close_output",
            tc_detach_succeeds("egress", destroy),
            tc_detach_fails("egress", destroy))

close_output ==
  /\ main = "close_output"
  /\ output' = [output EXCEPT !.open = FALSE]
  /\ Goto("ended")
  /\ UNCHANGED <<config, kernel, progs, signals, thread, links, pipe>>

(* The exit status of a process that has ended. *)
Success == ~ err /\ ~ detach_err

-----------------------------------------------------------------------------
(* periodic_map_cleanup *)

(* iter_map_execute on the link for packet_ts. *)
clean_ts ==
  /\ thread.at = "ts"
  /\ \/ thread' = [thread EXCEPT !.at = "flow"] /\ UNCHANGED failed
     \/ /\ thread' = [thread EXCEPT !.at = "flow", !.err = TRUE]
        /\ failed' = failed \union {"iterator"}
  /\ UNCHANGED <<config, main, err, detach_err, kernel, progs, signals, links,
                 pipe, output>>

(* And on the one for flow_state, which is run in any case. *)
clean_flow ==
  /\ thread.at = "flow"
  /\ \/ /\ thread' = [thread EXCEPT !.at = IF thread.err THEN "write" ELSE "sleep"]
        /\ UNCHANGED failed
     \/ /\ thread' = [thread EXCEPT !.at = "write", !.err = TRUE]
        /\ failed' = failed \union {"iterator"}
  /\ UNCHANGED <<config, main, err, detach_err, kernel, progs, signals, links,
                 pipe, output>>

(* abort_main_thread, and pthread_exit. *)
abort_main_thread ==
  /\ thread.at = "write"
  /\ thread' = [thread EXCEPT !.at = "ended"]
  /\ \/ /\ pipe.open
        /\ pipe' = [pipe EXCEPT !.message = TRUE]
        /\ UNCHANGED failed
     \/ UNCHANGED pipe /\ failed' = failed \union {"write"}
  /\ UNCHANGED <<config, main, err, detach_err, kernel, progs, signals, links,
                 output>>

(* nanosleep *)
wake_up ==
  /\ thread.at = "sleep"
  /\ thread' = [thread EXCEPT !.at = "ts"]
  /\ UNCHANGED <<config, main, err, detach_err, kernel, progs, signals, links,
                 pipe, output, failed>>

(* read, write and nanosleep are the points where it can be canceled. *)
be_canceled ==
  /\ thread.at \in {"ts", "flow", "write", "sleep"} /\ thread.cancel
  /\ thread' = [thread EXCEPT !.at = "canceled"]
  /\ UNCHANGED <<config, main, err, detach_err, kernel, progs, signals, links,
                 pipe, output, failed>>

-----------------------------------------------------------------------------
(* The environment. *)

Running == main \notin {"ended", "killed"}

(* A signal that is not blocked kills the process. *)
Signal(s) ==
  /\ Running
  /\ IF signals.blocked
       THEN signals' = [signals EXCEPT !.pending = @ \union {s}] /\ UNCHANGED main
       ELSE main' = "killed" /\ UNCHANGED signals
  /\ UNCHANGED <<config, err, detach_err, kernel, progs, files, failed>>

(* Something like logrotate renames the file. *)
Rotate ==
  /\ Running /\ config.file /\ ~ output.free
  /\ output' = [output EXCEPT !.free = TRUE]
  /\ UNCHANGED <<config, main, err, detach_err, kernel, progs, signals, thread,
                 links, pipe, failed>>

Setup ==
  \/ open_output \/ init_signalfd \/ load_bpfprogs \/ xdp_attach
  \/ tc_attach_ingress \/ tc_attach_egress \/ egress_err
  \/ open_pipe \/ iter_map_attach \/ pthread_create
  \/ init_perfbuffer \/ init_aggregation_timer
  \/ epoll_create \/ epoll_add_events

Cleanup ==
  \/ pthread_cancel \/ pthread_join \/ close_pipe
  \/ detach_ingress \/ detach_egress \/ close_output

periodic_map_cleanup ==
  clean_ts \/ clean_flow \/ abort_main_thread \/ wake_up

Next ==
  \/ Setup
  \/ epoll_poll_fails \/ handle_abort_signal \/ handle_reopen_signal \/ handle_pipefd
  \/ Cleanup
  \/ periodic_map_cleanup \/ be_canceled
  \/ \E s \in Signals : Signal(s)
  \/ Rotate

Spec == Init /\ [][Next]_vars

(***************************************************************************)
(* Both threads go on.  epoll hands out the descriptors that are ready in  *)
(* turn, so the main loop comes to each.  A thread that is to be canceled  *)
(* is at one of its cancellation points all the time.                      *)
(***************************************************************************)
FairSpec ==
  /\ Spec
  /\ WF_vars(Setup) /\ WF_vars(Cleanup)
  /\ WF_vars(handle_abort_signal) /\ WF_vars(handle_pipefd)
  /\ WF_vars(periodic_map_cleanup) /\ WF_vars(be_canceled)

-----------------------------------------------------------------------------
Calls ==
  {"open_output", "init_signalfd", "load", "xdp_attach", "tc_ingress", "tc_egress",
   "egress_err", "pipe", "tsclean_link", "flowclean_link", "pthread_create",
   "init_perfbuffer", "aggregation_timer", "epoll_create", "epoll_add_events",
   "loop", "pthread_cancel", "pthread_join", "close_pipe", "detach_ingress",
   "detach_egress", "close_output"}

(* Every variable holds a value of its kind. *)
TypeOK ==
  /\ config \in Config
  /\ main \in Calls \union {"ended", "killed"}
  /\ err \in BOOLEAN /\ detach_err \in BOOLEAN
  /\ kernel \in Kernel /\ progs \in Progs
  /\ signals \in [blocked : BOOLEAN, pending : SUBSET Signals]
  /\ thread \in Thread
  /\ links \in {{}, {"tsclean"}, {"tsclean", "flowclean"}}
  /\ pipe \in [open : BOOLEAN, message : BOOLEAN]
  /\ output \in [open : BOOLEAN, free : BOOLEAN]
  /\ failed \subseteq Calls \union {"iterator", "write"}

(***************************************************************************)
(* The cleanup thread uses the links and the pipe for as long as it lives: *)
(* whenever main has destroyed or closed them, there is no thread (any     *)
(* more).                                                                  *)
(***************************************************************************)
ThreadHasItsFiles ==
  thread.at \in {"ts", "flow", "write", "sleep"} =>
    links = {"tsclean", "flowclean"} /\ pipe.open

(***************************************************************************)
(* "Setup signalhandling (allow graceful shutdown on SIGINT/SIGTERM)":     *)
(* SIGINT, SIGTERM and SIGHUP never take the process away from programs it *)
(* has attached or a qdisc it has made, because they are blocked before.   *)
(* (Other signals are not, and may.)                                       *)
(***************************************************************************)
NotKilledAttached ==
  main = "killed" => kernel.attached = {} /\ kernel.qdisc # "own"

(***************************************************************************)
(* An error of the cleanup thread, which reaches the main loop as an abort *)
(* that is not an error, still makes the exit status a failure, unless the *)
(* thread was canceled before it could say so.                             *)
(***************************************************************************)
AbortIsFailure ==
  main = "ended" /\ thread.at = "ended" => ~ Success

(***************************************************************************)
(* The calls whose failure the exit status does not tell: err is not set,  *)
(* the program goes on without, detach_err is overwritten, or the thread   *)
(* is canceled first.  Any other failure is told.                          *)
(***************************************************************************)
Untold == {"init_signalfd", "xdp_attach", "aggregation_timer", "epoll_create",
           "detach_ingress"}

StatusTellsFailure ==
  main = "ended" /\ Success =>
    failed \subseteq Untold \union (IF thread.at = "canceled" THEN {"iterator"} ELSE {})

(***************************************************************************)
(* What is left on the interface when the process has ended, and why: the  *)
(* egress filter only if detaching failed; the XDP program only if that    *)
(* failed, or the TC filter for ingress could not be attached; the latter  *)
(* only if detaching it failed, or it was not tried because there was an   *)
(* XDP program.                                                            *)
(***************************************************************************)
LeftoversAreExplained ==
  main = "ended" =>
    /\ "egress" \in kernel.attached => "detach_egress" \in failed
    /\ "xdp" \in kernel.attached =>
         failed \intersect {"tc_ingress", "egress_err", "detach_ingress"} # {}
    /\ "ingress" \in kernel.attached =>
         \/ "xdp_attach" \notin failed
         \/ failed \intersect {"egress_err", "detach_ingress"} # {}

(***************************************************************************)
(* Whatever fails and whatever is forced, a qdisc that was there before,   *)
(* with other people's filters, is there afterwards.                       *)
(***************************************************************************)
ForeignQdiscStays ==
  [][kernel.qdisc = "foreign" => kernel'.qdisc = "foreign"]_kernel

(***************************************************************************)
(* "If it fails at opening a new output_context ... *out_ctx will remain   *)
(* unchanged": while events may be handled there is an output for them.    *)
(***************************************************************************)
OutputIsOpen == main = "loop" => output.open

(* SIGINT ends the program, whatever the cleanup thread is doing. *)
InterruptEnds == "INT" \in signals.pending ~> ~ Running

(* And so does a failing iterator, once the main thread has been told. *)
CleanupFailureEnds ==
  thread.at = "ended" /\ "write" \notin failed ~> main = "ended"
=============================================================================
