--------------------------- MODULE LifecycleProofs --------------------------
(***************************************************************************)
(* Theorems about Lifecycle, for every combination of options and of calls *)
(* that fail, and every interleaving of both threads and the signals.      *)
(***************************************************************************)
EXTENDS Lifecycle, TLAPS

-----------------------------------------------------------------------------
(* Types: of the program counter with the errors, and of everything else. *)

Places == Calls \union {"ended", "killed"}

ControlOK ==
  /\ main \in Places
  /\ err \in BOOLEAN /\ detach_err \in BOOLEAN
  /\ failed \subseteq Calls \union {"iterator", "write"}

Pipe == [open : BOOLEAN, message : BOOLEAN]
Output == [open : BOOLEAN, free : BOOLEAN]
SignalState == [blocked : BOOLEAN, pending : SUBSET Signals]

DataOK ==
  /\ config \in Config
  /\ kernel \in Kernel /\ progs \in Progs
  /\ signals \in SignalState
  /\ thread \in Thread
  /\ links \in {{}, {"tsclean"}, {"tsclean", "flowclean"}}
  /\ pipe \in Pipe
  /\ output \in Output

LEMMA TypeOKIsBoth ==
  /\ TypeOK <=> ControlOK /\ DataOK
  /\ TypeOK' <=> ControlOK' /\ DataOK'
BY DEF TypeOK, ControlOK, DataOK, Places, Pipe, Output, SignalState

LEMMA CallsAreCalls ==
  /\ "open_output" \in Calls /\ "init_signalfd" \in Calls /\ "load" \in Calls
  /\ "xdp_attach" \in Calls /\ "tc_ingress" \in Calls /\ "tc_egress" \in Calls
  /\ "egress_err" \in Calls /\ "pipe" \in Calls /\ "tsclean_link" \in Calls
  /\ "flowclean_link" \in Calls /\ "pthread_create" \in Calls
  /\ "init_perfbuffer" \in Calls /\ "aggregation_timer" \in Calls
  /\ "epoll_create" \in Calls /\ "epoll_add_events" \in Calls
  /\ "loop" \in Calls /\ "pthread_cancel" \in Calls /\ "pthread_join" \in Calls
  /\ "close_pipe" \in Calls /\ "detach_ingress" \in Calls
  /\ "detach_egress" \in Calls /\ "close_output" \in Calls
BY DEF Calls

LEMMA GotoTypes ==
  ASSUME ControlOK, NEW l \in Places, Goto(l)
  PROVE  ControlOK'
BY DEF ControlOK, Goto

LEMMA FailTypes ==
  ASSUME ControlOK, NEW call \in Calls, NEW l \in Places,
         FailAt(call, l) \/ FailUntold(call, l)
  PROVE  ControlOK'
<1>1. CASE FailAt(call, l)
  BY <1>1 DEF ControlOK, FailAt
<1>2. CASE FailUntold(call, l)
  BY <1>2 DEF ControlOK, FailUntold
<1> QED
  BY <1>1, <1>2

LEMMA InitTypeOK == Init => TypeOK
<1> SUFFICES ASSUME Init PROVE TypeOK
  OBVIOUS
<1>1. ControlOK
  BY CallsAreCalls DEF Init, ControlOK, Places
<1>2. kernel \in Kernel
  BY DEF Init, Kernel
<1>3. progs \in Progs /\ thread \in Thread
  BY DEF Init, Progs, Thread
<1>4. output \in Output /\ signals \in SignalState /\ pipe \in Pipe
  BY DEF Init, Output, SignalState, Pipe
<1>5. config \in Config /\ links = {}
  BY DEF Init
<1> QED
  BY <1>1, <1>2, <1>3, <1>4, <1>5, TypeOKIsBoth DEF DataOK

(* Opening and reopening the output, blocking and receiving signals. *)
LEMMA OpenedIsOutput ==
  ASSUME DataOK
  PROVE  Opened \in Output /\ \A ok \in BOOLEAN : Reopened(ok) \in Output
<1>1. output \in Output /\ config.file \in BOOLEAN
  BY DEF DataOK, Config
<1>2. output.free \in BOOLEAN
  BY <1>1 DEF Output
<1>3. Opened \in Output
  BY <1>1, <1>2 DEF Opened, Output
<1> QED
  BY <1>1, <1>3 DEF Reopened

(* Detaching never makes a qdisc, and destroys none but its own. *)
LEMMA DetachingTypes ==
  ASSUME kernel \in Kernel, NEW p \in {"ingress", "egress"}, NEW destroy \in BOOLEAN,
         \/ tc_detach_succeeds(p, destroy) \/ tc_detach_fails(p, destroy)
         \/ detach_ingress_succeeds(destroy) \/ detach_ingress_fails(destroy)
  PROVE  /\ kernel' \in Kernel
         /\ kernel'.attached \subseteq kernel.attached
         /\ kernel'.qdisc = kernel.qdisc \/ (destroy /\ kernel'.qdisc = "none")
<1>1. /\ kernel = [attached |-> kernel.attached, qdisc |-> kernel.qdisc]
      /\ kernel.attached \subseteq Programs
      /\ kernel.qdisc \in {"none", "own", "foreign"}
  BY DEF Kernel
<1>2. ASSUME NEW q
      PROVE  Detached(q) = [attached |-> kernel.attached \ {q}, qdisc |-> kernel.qdisc]
  BY <1>1 DEF Detached
<1>3. ASSUME NEW q, kernel' = Detached(q)
      PROVE  /\ kernel' \in Kernel /\ kernel'.qdisc = kernel.qdisc
             /\ kernel'.attached \subseteq kernel.attached
  BY <1>1, <1>2, <1>3 DEF Kernel
<1>4. ASSUME destroy,
             kernel' = [attached |-> kernel.attached \ {"ingress", "egress"},
                        qdisc |-> "none"]
      PROVE  /\ kernel' \in Kernel /\ kernel'.qdisc = "none"
             /\ kernel'.attached \subseteq kernel.attached
  BY <1>1, <1>4 DEF Kernel
<1> QED
  BY <1>3, <1>4 DEF tc_detach_succeeds, tc_detach_fails,
                    detach_ingress_succeeds, detach_ingress_fails

LEMMA AttachingTypes ==
  ASSUME DataOK
  PROVE  /\ \A p \in Programs : WithFilter(p) \in Kernel
         /\ [kernel EXCEPT !.attached = @ \union {"xdp"}] \in Kernel
         /\ [progs EXCEPT !.loaded = TRUE, !.xdp_prog = TRUE] \in Progs
         /\ \A b \in BOOLEAN : /\ [progs EXCEPT !.loaded = b] \in Progs
                             /\ [progs EXCEPT !.created_tc_hook = b] \in Progs
<1>1. kernel \in Kernel /\ progs \in Progs
  BY DEF DataOK
<1>2. \A p \in Programs : WithFilter(p) \in Kernel
  BY <1>1 DEF Kernel, Programs, WithFilter
<1>3. [kernel EXCEPT !.attached = @ \union {"xdp"}] \in Kernel
  BY <1>1 DEF Kernel, Programs
<1>4. /\ [progs EXCEPT !.loaded = TRUE, !.xdp_prog = TRUE] \in Progs
      /\ \A b \in BOOLEAN : /\ [progs EXCEPT !.loaded = b] \in Progs
                          /\ [progs EXCEPT !.created_tc_hook = b] \in Progs
  BY <1>1 DEF Progs
<1> QED
  BY <1>2, <1>3, <1>4

LEMMA StartTypes ==
  ASSUME TypeOK, open_output \/ init_signalfd \/ load_bpfprogs
  PROVE  TypeOK'
<1>1. ControlOK /\ DataOK
  BY TypeOKIsBoth
<1>2. ControlOK'
  BY <1>1, CallsAreCalls, GotoTypes, FailTypes
     DEF open_output, init_signalfd, load_bpfprogs, Places
<1>3. output' \in Output
  BY <1>1, OpenedIsOutput
     DEF open_output, init_signalfd, load_bpfprogs, files, DataOK
<1>4. signals' \in SignalState
  BY <1>1 DEF open_output, init_signalfd, load_bpfprogs, DataOK, SignalState
<1>5. DataOK'
  BY <1>1, <1>3, <1>4 DEF DataOK, open_output, init_signalfd, load_bpfprogs, files
<1> QED
  BY <1>2, <1>5, TypeOKIsBoth

LEMMA AttachTypes ==
  ASSUME TypeOK, \/ xdp_attach \/ tc_attach_ingress \/ tc_attach_egress
                 \/ egress_err
  PROVE  TypeOK'
<1>1. ControlOK /\ DataOK
  BY TypeOKIsBoth
<1>2. ControlOK'
  BY <1>1, CallsAreCalls, GotoTypes, FailTypes
     DEF xdp_attach, tc_attach_ingress, tc_attach_egress, egress_err, Places
<1>3. kernel' \in Kernel
  <2>1. progs.created_tc_hook \in BOOLEAN
    BY <1>1 DEF DataOK, Progs
  <2>2. kernel \in Kernel
    BY <1>1 DEF DataOK
  <2>3. CASE egress_err
    BY <2>1, <2>2, <2>3, DetachingTypes DEF egress_err
  <2>4. CASE xdp_attach \/ tc_attach_ingress \/ tc_attach_egress
    BY <1>1, <2>2, <2>4, AttachingTypes
       DEF xdp_attach, tc_attach_ingress, tc_attach_egress, Programs
  <2> QED
    BY <2>3, <2>4
<1>4. progs' \in Progs
  BY <1>1, AttachingTypes
     DEF xdp_attach, tc_attach_ingress, tc_attach_egress, egress_err, Created, DataOK
<1>5. DataOK'
  BY <1>1, <1>3, <1>4
     DEF DataOK, xdp_attach, tc_attach_ingress, tc_attach_egress, egress_err, files
<1> QED
  BY <1>2, <1>5, TypeOKIsBoth

LEMMA CleaningTypes ==
  ASSUME TypeOK, main = "flowclean_link" => links = {"tsclean"},
         open_pipe \/ iter_map_attach \/ pthread_create
  PROVE  TypeOK'
<1>1. ControlOK /\ DataOK
  BY TypeOKIsBoth
<1>2. ControlOK'
  BY <1>1, CallsAreCalls, GotoTypes, FailTypes
     DEF open_pipe, iter_map_attach, pthread_create, Places
<1>3. pipe' \in Pipe
  BY <1>1 DEF open_pipe, iter_map_attach, pthread_create, DataOK, Pipe
<1>4. thread' \in Thread
  BY <1>1 DEF open_pipe, iter_map_attach, pthread_create, DataOK, Thread
<1>5. links' \in {{}, {"tsclean"}, {"tsclean", "flowclean"}}
  <2>1. CASE main = "flowclean_link"
    <3>1. links' \in {{}, {"tsclean"} \union {"flowclean"}}
      BY <2>1 DEF iter_map_attach, open_pipe, pthread_create
    <3> QED
      BY <3>1
  <2>2. CASE main # "flowclean_link"
    BY <1>1, <2>2 DEF open_pipe, iter_map_attach, pthread_create, DataOK
  <2> QED
    BY <2>1, <2>2
<1>6. DataOK'
  BY <1>1, <1>3, <1>4, <1>5 DEF DataOK, open_pipe, iter_map_attach, pthread_create
<1> QED
  BY <1>2, <1>6, TypeOKIsBoth

LEMMA EpollTypes ==
  ASSUME TypeOK, \/ init_perfbuffer \/ init_aggregation_timer
                 \/ epoll_create \/ epoll_add_events
  PROVE  TypeOK'
<1>1. ControlOK /\ DataOK
  BY TypeOKIsBoth
<1>2. ControlOK'
  BY <1>1, CallsAreCalls, GotoTypes, FailTypes
     DEF init_perfbuffer, init_aggregation_timer, epoll_create, epoll_add_events,
         Places
<1>3. DataOK'
  BY <1>1 DEF DataOK, init_perfbuffer, init_aggregation_timer, epoll_create,
              epoll_add_events, files
<1> QED
  BY <1>2, <1>3, TypeOKIsBoth

LEMMA LoopTypes ==
  ASSUME TypeOK, \/ epoll_poll_fails \/ handle_abort_signal
                 \/ handle_reopen_signal \/ handle_pipefd
  PROVE  TypeOK'
<1>1. ControlOK /\ DataOK
  BY TypeOKIsBoth
<1>2. ControlOK'
  BY <1>1, CallsAreCalls, GotoTypes, FailTypes
     DEF epoll_poll_fails, handle_abort_signal, handle_reopen_signal,
         handle_pipefd, Places
<1>3. signals' \in SignalState
  BY <1>1 DEF epoll_poll_fails, handle_abort_signal, handle_reopen_signal,
              handle_pipefd, DataOK, SignalState
<1>4. output' \in Output
  <2>1. output \in Output
    BY <1>1 DEF DataOK
  <2> QED
    BY <1>1, <2>1, OpenedIsOutput
       DEF epoll_poll_fails, handle_abort_signal, handle_reopen_signal,
           handle_pipefd, files
<1>5. pipe' \in Pipe
  BY <1>1 DEF epoll_poll_fails, handle_abort_signal, handle_reopen_signal,
              handle_pipefd, files, DataOK, Pipe
<1>6. DataOK'
  BY <1>1, <1>3, <1>4, <1>5
     DEF DataOK, epoll_poll_fails, handle_abort_signal, handle_reopen_signal,
         handle_pipefd, files
<1> QED
  BY <1>2, <1>6, TypeOKIsBoth

LEMMA CleanupTypes ==
  ASSUME TypeOK, Cleanup
  PROVE  TypeOK'
<1>1. ControlOK /\ DataOK
  BY TypeOKIsBoth
<1>2. CASE pthread_cancel \/ close_pipe \/ close_output
  <2>1. ControlOK'
    BY <1>1, <1>2, CallsAreCalls, GotoTypes
       DEF pthread_cancel, close_pipe, close_output, Places
  <2>2. thread' \in Thread
    <3>1. /\ \A b \in BOOLEAN : [thread EXCEPT !.cancel = b] \in Thread
          /\ thread \in Thread
      BY <1>1 DEF DataOK, Thread
    <3> QED
      BY <1>2, <3>1 DEF pthread_cancel, close_pipe, close_output, HasThread
  <2>3. pipe' \in Pipe /\ output' \in Output
    <3>1. pipe \in Pipe /\ output \in Output
      BY <1>1 DEF DataOK
    <3>2. [open |-> FALSE, message |-> FALSE] \in Pipe
          /\ [output EXCEPT !.open = FALSE] \in Output
      BY <3>1 DEF Pipe, Output
    <3> QED
      BY <1>2, <3>1, <3>2 DEF pthread_cancel, close_pipe, close_output
  <2>4. DataOK'
    BY <1>1, <1>2, <2>2, <2>3 DEF DataOK, pthread_cancel, close_pipe, close_output
  <2> QED
    BY <2>1, <2>4, TypeOKIsBoth
<1>3. CASE pthread_join
  <2>1. ThreadError \in BOOLEAN
    BY <1>1 DEF ThreadError, DataOK, Thread
  <2>2. ControlOK'
    BY <1>1, <1>3, <2>1, CallsAreCalls DEF pthread_join, ControlOK, Places
  <2>3. DataOK'
    BY <1>1, <1>3 DEF pthread_join, DataOK
  <2> QED
    BY <2>2, <2>3, TypeOKIsBoth
<1>4. CASE detach_ingress \/ detach_egress
  <2>1. ControlOK'
    BY <1>1, <1>4, CallsAreCalls
       DEF detach_ingress, detach_egress, Detaching, ControlOK, Places
  <2>2. kernel' \in Kernel
    <3>1. kernel \in Kernel /\ (config.force /\ progs.created_tc_hook) \in BOOLEAN
      BY <1>1 DEF DataOK
    <3> QED
      BY <1>4, <3>1, DetachingTypes DEF detach_ingress, detach_egress, Detaching
  <2>3. DataOK'
    BY <1>1, <1>4, <2>2 DEF detach_ingress, detach_egress, Detaching, DataOK, files
  <2> QED
    BY <2>1, <2>3, TypeOKIsBoth
<1> QED
  BY <1>2, <1>3, <1>4 DEF Cleanup

LEMMA ThreadTypes ==
  ASSUME TypeOK, periodic_map_cleanup \/ be_canceled
  PROVE  TypeOK'
<1>1. ControlOK /\ DataOK
  BY TypeOKIsBoth
<1>2. ControlOK'
  BY <1>1 DEF periodic_map_cleanup, clean_ts, clean_flow, abort_main_thread,
              wake_up, be_canceled, ControlOK
<1>3. thread' \in Thread
  <2>1. \A a \in {"ts", "flow", "write", "sleep", "ended", "canceled"} :
          /\ [thread EXCEPT !.at = a] \in Thread
          /\ [thread EXCEPT !.at = a, !.err = TRUE] \in Thread
    BY <1>1 DEF DataOK, Thread
  <2> QED
    BY <2>1 DEF periodic_map_cleanup, clean_ts, clean_flow, abort_main_thread,
                wake_up, be_canceled
<1>4. pipe' \in Pipe
  BY <1>1 DEF periodic_map_cleanup, clean_ts, clean_flow, abort_main_thread,
              wake_up, be_canceled, DataOK, Pipe
<1>5. DataOK'
  BY <1>1, <1>3, <1>4
     DEF DataOK, periodic_map_cleanup, clean_ts, clean_flow, abort_main_thread,
         wake_up, be_canceled
<1> QED
  BY <1>2, <1>5, TypeOKIsBoth

LEMMA EnvironmentTypes ==
  ASSUME TypeOK, (\E s \in Signals : Signal(s)) \/ Rotate
  PROVE  TypeOK'
<1>1. ControlOK /\ DataOK
  BY TypeOKIsBoth
<1>2. ControlOK'
  BY <1>1 DEF Signal, Rotate, ControlOK, Places
<1>3. signals' \in SignalState
  BY <1>1 DEF Signal, Rotate, DataOK, SignalState
<1>4. output' \in Output
  BY <1>1 DEF Signal, Rotate, DataOK, Output, files
<1>5. DataOK'
  BY <1>1, <1>3, <1>4 DEF Signal, Rotate, DataOK, files
<1> QED
  BY <1>2, <1>5, TypeOKIsBoth

-----------------------------------------------------------------------------
(* The inductive invariant. *)

NotBlockedYet == {"open_output", "init_signalfd"}
WithThread == {"init_perfbuffer", "aggregation_timer", "epoll_create",
               "epoll_add_events", "loop", "pthread_cancel", "pthread_join"}
AfterThread == {"close_pipe", "detach_ingress", "detach_egress", "close_output",
                "ended"}
MakingThread == {"pipe", "tsclean_link", "flowclean_link", "pthread_create"}

Clean == kernel.attached = {} /\ kernel.qdisc # "own"
Alive == thread.at \in {"ts", "flow", "write", "sleep"}

(* Where signals kill there is nothing to leave behind. *)
SignalsInv ==
  /\ ~ signals.blocked =>
       Clean /\ main \in NotBlockedYet \union {"close_output", "ended", "killed"}
  /\ main \in NotBlockedYet \union {"load", "xdp_attach", "killed"} => Clean

(* The links and the pipe are there before the thread, and outlive it. *)
ThreadInv ==
  /\ thread.at # "none" => signals.blocked /\ main \in WithThread \union AfterThread
  /\ Alive => /\ main \in WithThread
              /\ links = {"tsclean", "flowclean"} /\ pipe.open
  /\ main = "tsclean_link" => pipe.open
  /\ main = "flowclean_link" => links = {"tsclean"} /\ pipe.open
  /\ main = "pthread_create" => links = {"tsclean", "flowclean"} /\ pipe.open

(* A thread that ends of itself has an error, which main takes over. *)
ErrorInv ==
  /\ thread.at \in {"write", "ended"} => thread.err
  /\ thread.at = "ended" /\ main \in AfterThread => err

(* Only a qdisc that was made by this process may be destroyed. *)
QdiscInv == kernel.qdisc = "foreign" => ~ progs.created_tc_hook

(* What has failed and is not in err is in detach_err or with the thread. *)
FailedInv ==
  /\ ~ err => failed \subseteq Untold \union {"iterator", "write", "detach_egress"}
  /\ "detach_egress" \in failed =>
       detach_err /\ signals.blocked /\ main \in {"close_output", "ended"}
  /\ "iterator" \in failed =>
       thread.err /\ thread.at \in {"flow", "write", "ended", "canceled"}
  /\ "write" \in failed => thread.at = "ended"
  /\ main = "egress_err" => err

(* progs.xdp_prog tells which program is to be detached at ingress. *)
XdpInv ==
  /\ main \in NotBlockedYet \union {"load", "xdp_attach"} => "xdp_attach" \notin failed
  /\ "xdp_attach" \in failed => ~ progs.xdp_prog
  /\ main \in NotBlockedYet \union {"load", "xdp_attach"} => ~ progs.xdp_prog
  /\ "xdp" \in kernel.attached => progs.xdp_prog

(* A program that is attached is going to be detached, or this has failed. *)
Attached == MakingThread \union WithThread \union {"close_pipe", "detach_ingress"}

EgressInv ==
  "egress" \in kernel.attached =>
    \/ main \in Attached \union {"detach_egress"}
    \/ main \in {"close_output", "ended"} /\ "detach_egress" \in failed

XdpLeftInv ==
  "xdp" \in kernel.attached =>
    \/ main \in Attached \union {"tc_ingress", "tc_egress", "egress_err"}
    \/ failed \intersect {"tc_ingress", "egress_err", "detach_ingress"} # {}

IngressInv ==
  "ingress" \in kernel.attached =>
    \/ main \in Attached \union {"tc_egress", "egress_err"}
    \/ main \in {"detach_egress", "close_output", "ended"} /\ progs.xdp_prog
    \/ failed \intersect {"egress_err", "detach_ingress"} # {}

(* The output is there from the first call to the last. *)
OutputInv == main \notin {"open_output", "ended", "killed"} => output.open

LInv == /\ TypeOK /\ SignalsInv /\ ThreadInv /\ ErrorInv /\ QdiscInv
        /\ FailedInv /\ XdpInv /\ OutputInv
        /\ EgressInv /\ XdpLeftInv /\ IngressInv

LEMMA LInvTypes ==
  ASSUME LInv
  PROVE  /\ kernel \in Kernel /\ progs \in Progs /\ signals \in SignalState
         /\ thread \in Thread /\ pipe \in Pipe /\ output \in Output
         /\ config \in Config /\ ControlOK
BY TypeOKIsBoth DEF LInv, DataOK

(* What attaching and detaching do to what is attached, and to the qdisc. *)
LEMMA DetachingEffects ==
  ASSUME kernel \in Kernel, NEW destroy \in BOOLEAN
  PROVE  /\ tc_detach_succeeds("egress", destroy) =>
              "egress" \notin kernel'.attached
         /\ detach_ingress_succeeds(destroy) =>
              (IF progs.xdp_prog THEN "xdp" ELSE "ingress") \notin kernel'.attached
<1>1. \A p : "attached" \in DOMAIN kernel /\ Detached(p).attached = kernel.attached \ {p}
  BY DEF Kernel, Detached
<1> QED
  BY <1>1 DEF tc_detach_succeeds, detach_ingress_succeeds

LEMMA AttachingEffects ==
  ASSUME kernel \in Kernel
  PROVE  /\ \A p : /\ WithFilter(p).attached = kernel.attached \union {p}
                   /\ kernel.qdisc = "foreign" <=> WithFilter(p).qdisc = "foreign"
         /\ [kernel EXCEPT !.attached = @ \union {"xdp"}].attached
               = kernel.attached \union {"xdp"}
         /\ [kernel EXCEPT !.attached = @ \union {"xdp"}].qdisc = kernel.qdisc
BY DEF Kernel, WithFilter

(* A step that detaches leaves the rest of the process as it is. *)
LEMMA DetachStep ==
  ASSUME LInv, egress_err \/ detach_ingress \/ detach_egress
  PROVE  /\ kernel' \in Kernel
         /\ kernel'.attached \subseteq kernel.attached
         /\ kernel.qdisc = kernel'.qdisc
              \/ (progs.created_tc_hook /\ kernel'.qdisc = "none")
         /\ UNCHANGED <<progs, signals, thread, links, pipe, output, err>>
<1>1. kernel \in Kernel /\ progs.created_tc_hook \in BOOLEAN
  BY LInvTypes DEF Progs
<1>2. CASE egress_err
  BY <1>1, <1>2, DetachingTypes DEF egress_err, Goto, FailUntold, files
<1>3. CASE detach_ingress
  BY <1>1, <1>3, DetachingTypes DEF detach_ingress, Detaching, files
<1>4. CASE detach_egress
  <2>1. (config.force /\ progs.created_tc_hook) \in BOOLEAN
    OBVIOUS
  <2> QED
    BY <1>1, <1>4, <2>1, DetachingTypes DEF detach_egress, Detaching, files
<1> QED
  BY <1>2, <1>3, <1>4

(* Only pthread_create makes the thread, and only pthread_join goes past it. *)
LEMMA NextThreadInv ==
  ASSUME LInv, [Next]_vars
  PROVE  ThreadInv'
<1>1. CASE open_output \/ init_signalfd \/ load_bpfprogs
  BY <1>1, LInvTypes
     DEF LInv, open_output, init_signalfd, load_bpfprogs, Goto, FailAt,
         FailUntold, files, SignalState, ThreadInv, Alive, WithThread,
         AfterThread
<1>2. CASE xdp_attach \/ tc_attach_ingress \/ tc_attach_egress
  BY <1>2, LInvTypes
     DEF LInv, xdp_attach, tc_attach_ingress, tc_attach_egress, Goto, FailAt,
         FailUntold, files, ThreadInv, Alive, WithThread, AfterThread
<1>3. CASE open_pipe \/ iter_map_attach \/ pthread_create
  BY <1>3, LInvTypes
     DEF LInv, open_pipe, iter_map_attach, pthread_create, Goto, FailAt,
         FailUntold, Thread, Pipe, SignalsInv, NotBlockedYet, ThreadInv,
         Alive, WithThread, AfterThread
<1>4. CASE \/ init_perfbuffer \/ init_aggregation_timer
           \/ epoll_create \/ epoll_add_events
  BY <1>4, LInvTypes
     DEF LInv, init_perfbuffer, init_aggregation_timer, epoll_create,
         epoll_add_events, Goto, FailAt, FailUntold, files, ThreadInv, Alive,
         WithThread, AfterThread
<1>5. CASE epoll_poll_fails \/ handle_abort_signal
  BY <1>5, LInvTypes
     DEF LInv, epoll_poll_fails, handle_abort_signal, Goto, FailAt,
         FailUntold, SignalState, files, ThreadInv, Alive, WithThread,
         AfterThread
<1>6. CASE handle_reopen_signal \/ handle_pipefd
  BY <1>6, LInvTypes
     DEF LInv, handle_reopen_signal, handle_pipefd, Goto, FailAt, FailUntold,
         SignalState, Pipe, ThreadInv, Alive, WithThread, AfterThread
<1>7. CASE pthread_cancel \/ pthread_join
  BY <1>7, LInvTypes
     DEF LInv, pthread_cancel, pthread_join, Goto, FailAt, FailUntold,
         HasThread, Joinable, Thread, ThreadInv, Alive, WithThread,
         AfterThread
<1>8. CASE close_pipe \/ close_output
  BY <1>8, LInvTypes
     DEF LInv, close_pipe, close_output, Goto, FailAt, FailUntold, ThreadInv,
         Alive, WithThread, AfterThread
<1>9. CASE egress_err \/ detach_ingress \/ detach_egress
  BY <1>9, LInvTypes
     DEF LInv, egress_err, detach_ingress, detach_egress, Goto, FailAt,
         FailUntold, Detaching, files, ThreadInv, Alive, WithThread,
         AfterThread
<1>10. CASE \/ clean_ts \/ clean_flow \/ abort_main_thread
            \/ wake_up \/ be_canceled
  BY <1>10, LInvTypes
     DEF LInv, clean_ts, clean_flow, abort_main_thread, wake_up, be_canceled,
         Thread, Pipe, ThreadInv, Alive, WithThread, AfterThread
<1>11. CASE (\E s \in Signals : Signal(s))
  BY <1>11, LInvTypes
     DEF LInv, Signal, SignalState, files, SignalsInv, NotBlockedYet,
         ThreadInv, Alive, WithThread, AfterThread
<1>12. CASE Rotate \/ UNCHANGED vars
  BY <1>12, LInvTypes
     DEF LInv, Rotate, vars, files, ThreadInv, Alive, WithThread, AfterThread
<1> QED
  BY <1>1, <1>2, <1>3, <1>4, <1>5, <1>6, <1>7, <1>8, <1>9, <1>10, <1>11, <1>12
     DEF Next, Setup, Cleanup, periodic_map_cleanup

(* Nothing is attached before signals are blocked, and they stay blocked. *)
LEMMA NextSignalsInv ==
  ASSUME LInv, [Next]_vars
  PROVE  SignalsInv'
<1>1. CASE open_output \/ init_signalfd \/ load_bpfprogs
  BY <1>1, LInvTypes
     DEF LInv, open_output, init_signalfd, load_bpfprogs, Goto, FailAt,
         FailUntold, files, SignalState, SignalsInv, Clean, NotBlockedYet
<1>2. CASE xdp_attach \/ tc_attach_ingress \/ tc_attach_egress
  BY <1>2, LInvTypes
     DEF LInv, xdp_attach, tc_attach_ingress, tc_attach_egress, Goto, FailAt,
         FailUntold, files, SignalsInv, Clean, NotBlockedYet
<1>3. CASE open_pipe \/ iter_map_attach \/ pthread_create
  BY <1>3, LInvTypes
     DEF LInv, open_pipe, iter_map_attach, pthread_create, Goto, FailAt,
         FailUntold, SignalsInv, Clean, NotBlockedYet
<1>4. CASE \/ init_perfbuffer \/ init_aggregation_timer
           \/ epoll_create \/ epoll_add_events
  BY <1>4, LInvTypes
     DEF LInv, init_perfbuffer, init_aggregation_timer, epoll_create,
         epoll_add_events, Goto, FailAt, FailUntold, files, SignalsInv, Clean,
         NotBlockedYet
<1>5. CASE \/ epoll_poll_fails \/ handle_abort_signal
           \/ handle_reopen_signal \/ handle_pipefd
  BY <1>5, LInvTypes
     DEF LInv, epoll_poll_fails, handle_abort_signal, handle_reopen_signal,
         handle_pipefd, Goto, FailAt, FailUntold, SignalState, files,
         SignalsInv, Clean, NotBlockedYet
<1>6. CASE pthread_cancel \/ pthread_join \/ close_pipe \/ close_output
  BY <1>6, LInvTypes
     DEF LInv, pthread_cancel, pthread_join, close_pipe, close_output, Goto,
         FailAt, FailUntold, SignalsInv, Clean, NotBlockedYet
<1>7. CASE egress_err
  BY <1>7, LInvTypes, DetachStep
     DEF LInv, egress_err, Goto, FailAt, FailUntold, files, SignalsInv, Clean,
         NotBlockedYet
<1>8. CASE detach_ingress \/ detach_egress
  BY <1>8, LInvTypes, DetachStep
     DEF LInv, detach_ingress, detach_egress, Detaching, files, SignalsInv,
         Clean, NotBlockedYet
<1>9. CASE \/ clean_ts \/ clean_flow \/ abort_main_thread
           \/ wake_up \/ be_canceled
  BY <1>9, LInvTypes
     DEF LInv, clean_ts, clean_flow, abort_main_thread, wake_up, be_canceled,
         SignalsInv, Clean, NotBlockedYet
<1>10. CASE (\E s \in Signals : Signal(s))
  BY <1>10, LInvTypes
     DEF LInv, Signal, SignalState, files, SignalsInv, Clean, NotBlockedYet
<1>11. CASE Rotate \/ UNCHANGED vars
  BY <1>11, LInvTypes
     DEF LInv, Rotate, vars, files, SignalsInv, Clean, NotBlockedYet
<1> QED
  BY <1>1, <1>2, <1>3, <1>4, <1>5, <1>6, <1>7, <1>8, <1>9, <1>10, <1>11
     DEF Next, Setup, Cleanup, periodic_map_cleanup

(* An error of the thread stays with it until main has taken it over. *)
LEMMA NextErrorInv ==
  ASSUME LInv, [Next]_vars
  PROVE  ErrorInv'
<1>1. CASE open_output \/ init_signalfd \/ load_bpfprogs
  BY <1>1, LInvTypes
     DEF LInv, open_output, init_signalfd, load_bpfprogs, Goto, FailAt,
         FailUntold, files, ThreadInv, AfterThread, WithThread, ErrorInv
<1>2. CASE xdp_attach \/ tc_attach_ingress \/ tc_attach_egress
  BY <1>2, LInvTypes
     DEF LInv, xdp_attach, tc_attach_ingress, tc_attach_egress, Goto, FailAt,
         FailUntold, files, ThreadInv, AfterThread, WithThread, ErrorInv
<1>3. CASE open_pipe \/ iter_map_attach \/ pthread_create
  BY <1>3, LInvTypes
     DEF LInv, open_pipe, iter_map_attach, pthread_create, Goto, FailAt,
         FailUntold, Thread, ThreadInv, AfterThread, WithThread, ErrorInv
<1>4. CASE \/ init_perfbuffer \/ init_aggregation_timer
           \/ epoll_create \/ epoll_add_events
  BY <1>4, LInvTypes
     DEF LInv, init_perfbuffer, init_aggregation_timer, epoll_create,
         epoll_add_events, Goto, FailAt, FailUntold, files, AfterThread,
         ErrorInv
<1>5. CASE \/ epoll_poll_fails \/ handle_abort_signal
           \/ handle_reopen_signal \/ handle_pipefd
  BY <1>5, LInvTypes
     DEF LInv, epoll_poll_fails, handle_abort_signal, handle_reopen_signal,
         handle_pipefd, Goto, FailAt, FailUntold, files, AfterThread, ErrorInv
<1>6. CASE pthread_cancel
  BY <1>6, LInvTypes
     DEF LInv, pthread_cancel, Goto, FailAt, FailUntold, HasThread, Thread,
         AfterThread, ErrorInv
<1>7. CASE pthread_join \/ close_pipe \/ close_output
  BY <1>7, LInvTypes
     DEF LInv, pthread_join, close_pipe, close_output, Goto, FailAt,
         FailUntold, ThreadError, AfterThread, ErrorInv
<1>8. CASE egress_err
  BY <1>8, LInvTypes
     DEF LInv, egress_err, Goto, FailAt, FailUntold, files, ThreadInv,
         AfterThread, WithThread, ErrorInv
<1>9. CASE detach_ingress \/ detach_egress
  BY <1>9, LInvTypes
     DEF LInv, detach_ingress, detach_egress, Detaching, files, AfterThread,
         ErrorInv
<1>10. CASE \/ clean_ts \/ clean_flow \/ abort_main_thread
            \/ wake_up \/ be_canceled
  BY <1>10, LInvTypes
     DEF LInv, clean_ts, clean_flow, abort_main_thread, wake_up, be_canceled,
         Thread, ThreadInv, Alive, AfterThread, WithThread, ErrorInv
<1>11. CASE (\E s \in Signals : Signal(s))
  BY <1>11, LInvTypes DEF LInv, Signal, files, AfterThread, ErrorInv
<1>12. CASE Rotate \/ UNCHANGED vars
  BY <1>12, LInvTypes DEF LInv, Rotate, vars, files, AfterThread, ErrorInv
<1> QED
  BY <1>1, <1>2, <1>3, <1>4, <1>5, <1>6, <1>7, <1>8, <1>9, <1>10, <1>11, <1>12
     DEF Next, Setup, Cleanup, periodic_map_cleanup

(* What was created is noted where it is created. *)
LEMMA NextQdiscInv ==
  ASSUME LInv, [Next]_vars
  PROVE  QdiscInv'
<1>1. CASE open_output \/ init_signalfd \/ load_bpfprogs
  BY <1>1, LInvTypes
     DEF LInv, open_output, init_signalfd, load_bpfprogs, files, QdiscInv
<1>2. CASE xdp_attach
  BY <1>2, LInvTypes, AttachingEffects DEF LInv, xdp_attach, Progs, QdiscInv
<1>3. CASE tc_attach_ingress
  BY <1>3, LInvTypes, AttachingEffects
     DEF LInv, tc_attach_ingress, Created, Progs, QdiscInv
<1>4. CASE \/ tc_attach_egress \/ open_pipe
           \/ iter_map_attach \/ pthread_create
  BY <1>4, LInvTypes, AttachingEffects
     DEF LInv, tc_attach_egress, open_pipe, iter_map_attach, pthread_create,
         QdiscInv
<1>5. CASE \/ init_perfbuffer \/ init_aggregation_timer
           \/ epoll_create \/ epoll_add_events
  BY <1>5, LInvTypes
     DEF LInv, init_perfbuffer, init_aggregation_timer, epoll_create,
         epoll_add_events, QdiscInv
<1>6. CASE \/ epoll_poll_fails \/ handle_abort_signal
           \/ handle_reopen_signal \/ handle_pipefd
  BY <1>6, LInvTypes
     DEF LInv, epoll_poll_fails, handle_abort_signal, handle_reopen_signal,
         handle_pipefd, QdiscInv
<1>7. CASE pthread_cancel \/ pthread_join \/ close_pipe \/ close_output
  BY <1>7, LInvTypes
     DEF LInv, pthread_cancel, pthread_join, close_pipe, close_output,
         QdiscInv
<1>8. CASE egress_err \/ detach_ingress \/ detach_egress
  BY <1>8, LInvTypes, DetachStep
     DEF LInv, egress_err, detach_ingress, detach_egress, QdiscInv
<1>9. CASE \/ clean_ts \/ clean_flow \/ abort_main_thread
           \/ wake_up \/ be_canceled
  BY <1>9, LInvTypes
     DEF LInv, clean_ts, clean_flow, abort_main_thread, wake_up, be_canceled,
         QdiscInv
<1>10. CASE (\E s \in Signals : Signal(s))
  BY <1>10, LInvTypes DEF LInv, Signal, QdiscInv
<1>11. CASE Rotate \/ UNCHANGED vars
  BY <1>11, LInvTypes DEF LInv, Rotate, vars, QdiscInv
<1> QED
  BY <1>1, <1>2, <1>3, <1>4, <1>5, <1>6, <1>7, <1>8, <1>9, <1>10, <1>11
     DEF Next, Setup, Cleanup, periodic_map_cleanup

(* Nothing but close_output closes the output. *)
LEMMA NextOutputInv ==
  ASSUME LInv, [Next]_vars
  PROVE  OutputInv'
<1>1. CASE open_output
  BY <1>1, LInvTypes
     DEF LInv, open_output, Goto, FailAt, FailUntold, Opened, OutputInv
<1>2. CASE \/ init_signalfd \/ load_bpfprogs \/ xdp_attach
           \/ tc_attach_ingress \/ tc_attach_egress
  BY <1>2, LInvTypes
     DEF LInv, init_signalfd, load_bpfprogs, xdp_attach, tc_attach_ingress,
         tc_attach_egress, Goto, FailAt, FailUntold, files, OutputInv
<1>3. CASE open_pipe \/ iter_map_attach \/ pthread_create
  BY <1>3, LInvTypes
     DEF LInv, open_pipe, iter_map_attach, pthread_create, Goto, FailAt,
         FailUntold, OutputInv
<1>4. CASE \/ init_perfbuffer \/ init_aggregation_timer
           \/ epoll_create \/ epoll_add_events
  BY <1>4, LInvTypes
     DEF LInv, init_perfbuffer, init_aggregation_timer, epoll_create,
         epoll_add_events, Goto, FailAt, FailUntold, files, OutputInv
<1>5. CASE \/ epoll_poll_fails \/ handle_abort_signal
           \/ handle_reopen_signal \/ handle_pipefd
  BY <1>5, LInvTypes
     DEF LInv, epoll_poll_fails, handle_abort_signal, handle_reopen_signal,
         handle_pipefd, Goto, FailAt, FailUntold, Reopened, Opened, files,
         OutputInv
<1>6. CASE pthread_cancel \/ pthread_join \/ close_pipe \/ close_output
  BY <1>6, LInvTypes
     DEF LInv, pthread_cancel, pthread_join, close_pipe, close_output, Goto,
         FailAt, FailUntold, OutputInv
<1>7. CASE egress_err
  BY <1>7, LInvTypes
     DEF LInv, egress_err, Goto, FailAt, FailUntold, files, OutputInv
<1>8. CASE detach_ingress \/ detach_egress
  BY <1>8, LInvTypes
     DEF LInv, detach_ingress, detach_egress, Detaching, files, OutputInv
<1>9. CASE \/ clean_ts \/ clean_flow \/ abort_main_thread
           \/ wake_up \/ be_canceled
  BY <1>9, LInvTypes
     DEF LInv, clean_ts, clean_flow, abort_main_thread, wake_up, be_canceled,
         OutputInv
<1>10. CASE (\E s \in Signals : Signal(s))
  BY <1>10, LInvTypes DEF LInv, Signal, files, OutputInv
<1>11. CASE Rotate \/ UNCHANGED vars
  BY <1>11, LInvTypes DEF LInv, Rotate, vars, files, Output, OutputInv
<1> QED
  BY <1>1, <1>2, <1>3, <1>4, <1>5, <1>6, <1>7, <1>8, <1>9, <1>10, <1>11
     DEF Next, Setup, Cleanup, periodic_map_cleanup

(* A failure is in err, unless the program goes on or the thread has it. *)
LEMMA NextFailedInv ==
  ASSUME LInv, [Next]_vars
  PROVE  FailedInv'
<1>1. CASE open_output \/ init_signalfd \/ load_bpfprogs
  BY <1>1, LInvTypes
     DEF LInv, open_output, init_signalfd, load_bpfprogs, Goto, FailAt,
         FailUntold, files, Untold, FailedInv
<1>2. CASE xdp_attach \/ tc_attach_ingress \/ tc_attach_egress
  BY <1>2, LInvTypes
     DEF LInv, xdp_attach, tc_attach_ingress, tc_attach_egress, Goto, FailAt,
         FailUntold, files, Untold, FailedInv
<1>3. CASE open_pipe \/ iter_map_attach \/ pthread_create
  BY <1>3, LInvTypes
     DEF LInv, open_pipe, iter_map_attach, pthread_create, Goto, FailAt,
         FailUntold, Untold, ThreadInv, WithThread, AfterThread, FailedInv
<1>4. CASE \/ init_perfbuffer \/ init_aggregation_timer
           \/ epoll_create \/ epoll_add_events
  BY <1>4, LInvTypes
     DEF LInv, init_perfbuffer, init_aggregation_timer, epoll_create,
         epoll_add_events, Goto, FailAt, FailUntold, files, Untold, FailedInv
<1>5. CASE \/ epoll_poll_fails \/ handle_abort_signal
           \/ handle_reopen_signal \/ handle_pipefd
  BY <1>5, LInvTypes
     DEF LInv, epoll_poll_fails, handle_abort_signal, handle_reopen_signal,
         handle_pipefd, Goto, FailAt, FailUntold, files, FailedInv
<1>6. CASE pthread_cancel
  BY <1>6, LInvTypes
     DEF LInv, pthread_cancel, Goto, FailAt, FailUntold, HasThread, Thread,
         FailedInv
<1>7. CASE pthread_join \/ close_pipe \/ close_output
  BY <1>7, LInvTypes
     DEF LInv, pthread_join, close_pipe, close_output, Goto, FailAt,
         FailUntold, FailedInv
<1>8. CASE egress_err
  BY <1>8, LInvTypes, DetachStep
     DEF LInv, egress_err, Goto, FailAt, FailUntold, files, FailedInv
<1>9. CASE detach_ingress \/ detach_egress
  BY <1>9, LInvTypes, DetachStep
     DEF LInv, detach_ingress, detach_egress, Detaching, files, Untold,
         SignalsInv, NotBlockedYet, FailedInv
<1>10. CASE \/ clean_ts \/ clean_flow \/ abort_main_thread
            \/ wake_up \/ be_canceled
  BY <1>10, LInvTypes
     DEF LInv, clean_ts, clean_flow, abort_main_thread, wake_up, be_canceled,
         Thread, FailedInv
<1>11. CASE (\E s \in Signals : Signal(s))
  BY <1>11, LInvTypes DEF LInv, Signal, SignalState, files, FailedInv
<1>12. CASE Rotate \/ UNCHANGED vars
  BY <1>12, LInvTypes DEF LInv, Rotate, vars, files, FailedInv
<1> QED
  BY <1>1, <1>2, <1>3, <1>4, <1>5, <1>6, <1>7, <1>8, <1>9, <1>10, <1>11, <1>12
     DEF Next, Setup, Cleanup, periodic_map_cleanup

(* The XDP program is attached if and only if this has not failed. *)
LEMMA NextXdpInv ==
  ASSUME LInv, [Next]_vars
  PROVE  XdpInv'
<1>1. CASE open_output \/ init_signalfd \/ load_bpfprogs
  BY <1>1, LInvTypes
     DEF LInv, open_output, init_signalfd, load_bpfprogs, Goto, FailAt,
         FailUntold, files, SignalsInv, Clean, XdpInv, NotBlockedYet
<1>2. CASE xdp_attach
  BY <1>2, LInvTypes, AttachingEffects
     DEF LInv, xdp_attach, Goto, FailAt, FailUntold, Progs, XdpInv,
         NotBlockedYet
<1>3. CASE tc_attach_ingress \/ tc_attach_egress
  BY <1>3, LInvTypes, AttachingEffects
     DEF LInv, tc_attach_ingress, tc_attach_egress, Goto, FailAt, FailUntold,
         Progs, XdpInv, NotBlockedYet
<1>4. CASE open_pipe \/ iter_map_attach \/ pthread_create
  BY <1>4, LInvTypes
     DEF LInv, open_pipe, iter_map_attach, pthread_create, Goto, FailAt,
         FailUntold, XdpInv, NotBlockedYet
<1>5. CASE \/ init_perfbuffer \/ init_aggregation_timer
           \/ epoll_create \/ epoll_add_events
  BY <1>5, LInvTypes
     DEF LInv, init_perfbuffer, init_aggregation_timer, epoll_create,
         epoll_add_events, Goto, FailAt, FailUntold, XdpInv, NotBlockedYet
<1>6. CASE \/ epoll_poll_fails \/ handle_abort_signal
           \/ handle_reopen_signal \/ handle_pipefd
  BY <1>6, LInvTypes
     DEF LInv, epoll_poll_fails, handle_abort_signal, handle_reopen_signal,
         handle_pipefd, Goto, FailAt, FailUntold, XdpInv, NotBlockedYet
<1>7. CASE pthread_cancel \/ pthread_join \/ close_pipe \/ close_output
  BY <1>7, LInvTypes
     DEF LInv, pthread_cancel, pthread_join, close_pipe, close_output, Goto,
         FailAt, FailUntold, XdpInv, NotBlockedYet
<1>8. CASE egress_err
  BY <1>8, LInvTypes, DetachStep
     DEF LInv, egress_err, Goto, FailAt, FailUntold, XdpInv, NotBlockedYet
<1>9. CASE detach_ingress \/ detach_egress
  BY <1>9, LInvTypes, DetachStep
     DEF LInv, detach_ingress, detach_egress, Detaching, XdpInv, NotBlockedYet
<1>10. CASE \/ clean_ts \/ clean_flow \/ abort_main_thread
            \/ wake_up \/ be_canceled
  BY <1>10, LInvTypes
     DEF LInv, clean_ts, clean_flow, abort_main_thread, wake_up, be_canceled,
         XdpInv, NotBlockedYet
<1>11. CASE (\E s \in Signals : Signal(s))
  BY <1>11, LInvTypes DEF LInv, Signal, files, XdpInv, NotBlockedYet
<1>12. CASE Rotate \/ UNCHANGED vars
  BY <1>12, LInvTypes DEF LInv, Rotate, vars, files, XdpInv, NotBlockedYet
<1> QED
  BY <1>1, <1>2, <1>3, <1>4, <1>5, <1>6, <1>7, <1>8, <1>9, <1>10, <1>11, <1>12
     DEF Next, Setup, Cleanup, periodic_map_cleanup

(* The egress filter stays until detach_egress. *)
LEMMA NextEgressInv ==
  ASSUME LInv, [Next]_vars
  PROVE  EgressInv'
<1>1. CASE open_output \/ init_signalfd \/ load_bpfprogs
  BY <1>1, LInvTypes
     DEF LInv, open_output, init_signalfd, load_bpfprogs, Goto, FailAt,
         FailUntold, SignalsInv, Clean, NotBlockedYet, EgressInv, Attached,
         MakingThread, WithThread
<1>2. CASE xdp_attach
  BY <1>2, LInvTypes, AttachingEffects
     DEF LInv, xdp_attach, Goto, FailAt, FailUntold, SignalsInv, Clean,
         NotBlockedYet, EgressInv, Attached, MakingThread, WithThread
<1>3. CASE tc_attach_ingress
  BY <1>3, LInvTypes, AttachingEffects
     DEF LInv, tc_attach_ingress, Goto, FailAt, FailUntold, EgressInv,
         Attached, MakingThread, WithThread
<1>4. CASE tc_attach_egress
  BY <1>4, LInvTypes, AttachingEffects
     DEF LInv, tc_attach_egress, Goto, FailAt, FailUntold, EgressInv,
         Attached, MakingThread, WithThread
<1>5. CASE open_pipe \/ iter_map_attach \/ pthread_create
  BY <1>5, LInvTypes
     DEF LInv, open_pipe, iter_map_attach, pthread_create, Goto, FailAt,
         FailUntold, EgressInv, Attached, MakingThread, WithThread
<1>6. CASE \/ init_perfbuffer \/ init_aggregation_timer
           \/ epoll_create \/ epoll_add_events
  BY <1>6, LInvTypes
     DEF LInv, init_perfbuffer, init_aggregation_timer, epoll_create,
         epoll_add_events, Goto, FailAt, FailUntold, EgressInv, Attached,
         MakingThread, WithThread
<1>7. CASE \/ epoll_poll_fails \/ handle_abort_signal
           \/ handle_reopen_signal \/ handle_pipefd
  BY <1>7, LInvTypes
     DEF LInv, epoll_poll_fails, handle_abort_signal, handle_reopen_signal,
         handle_pipefd, Goto, FailAt, FailUntold, EgressInv, Attached,
         MakingThread, WithThread
<1>8. CASE pthread_cancel \/ pthread_join \/ close_pipe \/ close_output
  BY <1>8, LInvTypes
     DEF LInv, pthread_cancel, pthread_join, close_pipe, close_output, Goto,
         FailAt, FailUntold, EgressInv, Attached, MakingThread, WithThread
<1>9. CASE egress_err
  BY <1>9, LInvTypes, DetachStep, DetachingEffects
     DEF LInv, egress_err, Goto, FailAt, FailUntold, Progs, XdpInv, EgressInv,
         Attached, MakingThread, WithThread
<1>10. CASE detach_ingress
  BY <1>10, LInvTypes, DetachStep, DetachingEffects
     DEF LInv, detach_ingress, Detaching, XdpInv, EgressInv, Attached,
         MakingThread, WithThread
<1>11. CASE detach_egress
  BY <1>11, LInvTypes, DetachStep, DetachingEffects
     DEF LInv, detach_egress, Detaching, XdpInv, EgressInv, Attached,
         MakingThread, WithThread
<1>12. CASE \/ clean_ts \/ clean_flow \/ abort_main_thread
            \/ wake_up \/ be_canceled
  BY <1>12, LInvTypes
     DEF LInv, clean_ts, clean_flow, abort_main_thread, wake_up, be_canceled,
         EgressInv, Attached, MakingThread, WithThread
<1>13. CASE (\E s \in Signals : Signal(s))
  BY <1>13, LInvTypes
     DEF LInv, Signal, SignalsInv, Clean, EgressInv, Attached, MakingThread,
         WithThread
<1>14. CASE Rotate \/ UNCHANGED vars
  BY <1>14, LInvTypes
     DEF LInv, Rotate, vars, files, EgressInv, Attached, MakingThread,
         WithThread
<1> QED
  BY <1>1, <1>2, <1>3, <1>4, <1>5, <1>6, <1>7, <1>8, <1>9, <1>10, <1>11, <1>12, <1>13, <1>14
     DEF Next, Setup, Cleanup, periodic_map_cleanup

(* The XDP program stays until it is detached at ingress, or an attach fails. *)
LEMMA NextXdpLeftInv ==
  ASSUME LInv, [Next]_vars
  PROVE  XdpLeftInv'
<1>1. CASE open_output \/ init_signalfd \/ load_bpfprogs
  BY <1>1, LInvTypes
     DEF LInv, open_output, init_signalfd, load_bpfprogs, Goto, FailAt,
         FailUntold, SignalsInv, Clean, NotBlockedYet, XdpLeftInv, Attached,
         MakingThread, WithThread
<1>2. CASE xdp_attach
  BY <1>2, LInvTypes, AttachingEffects
     DEF LInv, xdp_attach, Goto, FailAt, FailUntold, SignalsInv, Clean,
         NotBlockedYet, XdpLeftInv, Attached, MakingThread, WithThread
<1>3. CASE tc_attach_ingress
  BY <1>3, LInvTypes, AttachingEffects
     DEF LInv, tc_attach_ingress, Goto, FailAt, FailUntold, XdpLeftInv,
         Attached, MakingThread, WithThread
<1>4. CASE tc_attach_egress
  BY <1>4, LInvTypes, AttachingEffects
     DEF LInv, tc_attach_egress, Goto, FailAt, FailUntold, XdpLeftInv,
         Attached, MakingThread, WithThread
<1>5. CASE open_pipe \/ iter_map_attach \/ pthread_create
  BY <1>5, LInvTypes
     DEF LInv, open_pipe, iter_map_attach, pthread_create, Goto, FailAt,
         FailUntold, XdpLeftInv, Attached, MakingThread, WithThread
<1>6. CASE \/ init_perfbuffer \/ init_aggregation_timer
           \/ epoll_create \/ epoll_add_events
  BY <1>6, LInvTypes
     DEF LInv, init_perfbuffer, init_aggregation_timer, epoll_create,
         epoll_add_events, Goto, FailAt, FailUntold, XdpLeftInv, Attached,
         MakingThread, WithThread
<1>7. CASE \/ epoll_poll_fails \/ handle_abort_signal
           \/ handle_reopen_signal \/ handle_pipefd
  BY <1>7, LInvTypes
     DEF LInv, epoll_poll_fails, handle_abort_signal, handle_reopen_signal,
         handle_pipefd, Goto, FailAt, FailUntold, XdpLeftInv, Attached,
         MakingThread, WithThread
<1>8. CASE pthread_cancel \/ pthread_join \/ close_pipe \/ close_output
  BY <1>8, LInvTypes
     DEF LInv, pthread_cancel, pthread_join, close_pipe, close_output, Goto,
         FailAt, FailUntold, XdpLeftInv, Attached, MakingThread, WithThread
<1>9. CASE egress_err
  BY <1>9, LInvTypes, DetachStep, DetachingEffects
     DEF LInv, egress_err, Goto, FailAt, FailUntold, Progs, XdpInv,
         XdpLeftInv, Attached, MakingThread, WithThread
<1>10. CASE detach_ingress
  BY <1>10, LInvTypes, DetachStep, DetachingEffects
     DEF LInv, detach_ingress, Detaching, XdpInv, XdpLeftInv, Attached,
         MakingThread, WithThread
<1>11. CASE detach_egress
  BY <1>11, LInvTypes, DetachStep, DetachingEffects
     DEF LInv, detach_egress, Detaching, XdpInv, XdpLeftInv, Attached,
         MakingThread, WithThread
<1>12. CASE \/ clean_ts \/ clean_flow \/ abort_main_thread
            \/ wake_up \/ be_canceled
  BY <1>12, LInvTypes
     DEF LInv, clean_ts, clean_flow, abort_main_thread, wake_up, be_canceled,
         XdpLeftInv, Attached, MakingThread, WithThread
<1>13. CASE (\E s \in Signals : Signal(s))
  BY <1>13, LInvTypes
     DEF LInv, Signal, SignalsInv, Clean, XdpLeftInv, Attached, MakingThread,
         WithThread
<1>14. CASE Rotate \/ UNCHANGED vars
  BY <1>14, LInvTypes
     DEF LInv, Rotate, vars, files, XdpLeftInv, Attached, MakingThread,
         WithThread
<1> QED
  BY <1>1, <1>2, <1>3, <1>4, <1>5, <1>6, <1>7, <1>8, <1>9, <1>10, <1>11, <1>12, <1>13, <1>14
     DEF Next, Setup, Cleanup, periodic_map_cleanup

(* The ingress filter stays until it is detached, or the XDP program is instead. *)
LEMMA NextIngressInv ==
  ASSUME LInv, [Next]_vars
  PROVE  IngressInv'
<1>1. CASE open_output \/ init_signalfd \/ load_bpfprogs
  BY <1>1, LInvTypes
     DEF LInv, open_output, init_signalfd, load_bpfprogs, Goto, FailAt,
         FailUntold, SignalsInv, Clean, NotBlockedYet, IngressInv, Attached,
         MakingThread, WithThread
<1>2. CASE xdp_attach
  BY <1>2, LInvTypes, AttachingEffects
     DEF LInv, xdp_attach, Goto, FailAt, FailUntold, SignalsInv, Clean,
         NotBlockedYet, IngressInv, Attached, MakingThread, WithThread
<1>3. CASE tc_attach_ingress
  BY <1>3, LInvTypes, AttachingEffects
     DEF LInv, tc_attach_ingress, Goto, FailAt, FailUntold, IngressInv,
         Attached, MakingThread, WithThread
<1>4. CASE tc_attach_egress
  BY <1>4, LInvTypes, AttachingEffects
     DEF LInv, tc_attach_egress, Goto, FailAt, FailUntold, IngressInv,
         Attached, MakingThread, WithThread
<1>5. CASE open_pipe \/ iter_map_attach \/ pthread_create
  BY <1>5, LInvTypes
     DEF LInv, open_pipe, iter_map_attach, pthread_create, Goto, FailAt,
         FailUntold, IngressInv, Attached, MakingThread, WithThread
<1>6. CASE \/ init_perfbuffer \/ init_aggregation_timer
           \/ epoll_create \/ epoll_add_events
  BY <1>6, LInvTypes
     DEF LInv, init_perfbuffer, init_aggregation_timer, epoll_create,
         epoll_add_events, Goto, FailAt, FailUntold, IngressInv, Attached,
         MakingThread, WithThread
<1>7. CASE \/ epoll_poll_fails \/ handle_abort_signal
           \/ handle_reopen_signal \/ handle_pipefd
  BY <1>7, LInvTypes
     DEF LInv, epoll_poll_fails, handle_abort_signal, handle_reopen_signal,
         handle_pipefd, Goto, FailAt, FailUntold, IngressInv, Attached,
         MakingThread, WithThread
<1>8. CASE pthread_cancel \/ pthread_join \/ close_pipe \/ close_output
  BY <1>8, LInvTypes
     DEF LInv, pthread_cancel, pthread_join, close_pipe, close_output, Goto,
         FailAt, FailUntold, IngressInv, Attached, MakingThread, WithThread
<1>9. CASE egress_err
  BY <1>9, LInvTypes, DetachStep, DetachingEffects
     DEF LInv, egress_err, Goto, FailAt, FailUntold, Progs, XdpInv,
         IngressInv, Attached, MakingThread, WithThread
<1>10. CASE detach_ingress
  BY <1>10, LInvTypes, DetachStep, DetachingEffects
     DEF LInv, detach_ingress, Detaching, XdpInv, IngressInv, Attached,
         MakingThread, WithThread
<1>11. CASE detach_egress
  BY <1>11, LInvTypes, DetachStep, DetachingEffects
     DEF LInv, detach_egress, Detaching, XdpInv, IngressInv, Attached,
         MakingThread, WithThread
<1>12. CASE \/ clean_ts \/ clean_flow \/ abort_main_thread
            \/ wake_up \/ be_canceled
  BY <1>12, LInvTypes
     DEF LInv, clean_ts, clean_flow, abort_main_thread, wake_up, be_canceled,
         IngressInv, Attached, MakingThread, WithThread
<1>13. CASE (\E s \in Signals : Signal(s))
  BY <1>13, LInvTypes
     DEF LInv, Signal, SignalsInv, Clean, IngressInv, Attached, MakingThread,
         WithThread
<1>14. CASE Rotate \/ UNCHANGED vars
  BY <1>14, LInvTypes
     DEF LInv, Rotate, vars, files, IngressInv, Attached, MakingThread,
         WithThread
<1> QED
  BY <1>1, <1>2, <1>3, <1>4, <1>5, <1>6, <1>7, <1>8, <1>9, <1>10, <1>11, <1>12, <1>13, <1>14
     DEF Next, Setup, Cleanup, periodic_map_cleanup

-----------------------------------------------------------------------------
LEMMA InitLInv == Init => LInv
<1> SUFFICES ASSUME Init PROVE LInv
  OBVIOUS
<1>1. TypeOK
  BY InitTypeOK
<1>2. SignalsInv /\ QdiscInv
  BY DEF Init, SignalsInv, QdiscInv, Clean, NotBlockedYet
<1>3. ThreadInv /\ ErrorInv
  BY DEF Init, ThreadInv, ErrorInv, Alive
<1>4. FailedInv /\ XdpInv /\ OutputInv
  BY DEF Init, FailedInv, XdpInv, OutputInv
<1>5. EgressInv /\ XdpLeftInv /\ IngressInv
  BY DEF Init, EgressInv, XdpLeftInv, IngressInv
<1> QED
  BY <1>1, <1>2, <1>3, <1>4, <1>5 DEF LInv

LEMMA NextTypeOK ==
  ASSUME LInv, [Next]_vars
  PROVE  TypeOK'
<1>1. TypeOK /\ (main = "flowclean_link" => links = {"tsclean"})
  BY DEF LInv, ThreadInv
<1>2. CASE Setup
  BY <1>1, <1>2, StartTypes, AttachTypes, CleaningTypes, EpollTypes DEF Setup
<1>3. CASE UNCHANGED vars
  BY <1>1, <1>3 DEF vars, files, TypeOK
<1> QED
  BY <1>1, <1>2, <1>3, LoopTypes, CleanupTypes, ThreadTypes, EnvironmentTypes
     DEF Next

LEMMA NextLInv == LInv /\ [Next]_vars => LInv'
<1> SUFFICES ASSUME LInv, [Next]_vars PROVE LInv'
  OBVIOUS
<1>1. TypeOK' /\ SignalsInv' /\ ThreadInv' /\ ErrorInv' /\ QdiscInv'
  BY NextTypeOK, NextSignalsInv, NextThreadInv, NextErrorInv, NextQdiscInv
<1>2. FailedInv' /\ XdpInv' /\ OutputInv'
  BY NextFailedInv, NextXdpInv, NextOutputInv
<1>3. EgressInv' /\ XdpLeftInv' /\ IngressInv'
  BY NextEgressInv, NextXdpLeftInv, NextIngressInv
<1> QED
  BY <1>1, <1>2, <1>3 DEF LInv

LEMMA LInvHolds == Spec => []LInv
BY InitLInv, NextLInv, PTL DEF Spec

-----------------------------------------------------------------------------
(***************************************************************************)
(* Whatever main and the cleanup thread do, every variable holds a value   *)
(* of its kind.                                                            *)
(***************************************************************************)
THEOREM TypeCorrect == Spec => []TypeOK
BY LInvHolds, PTL DEF LInv

(***************************************************************************)
(* While the cleanup thread lives, its links and its pipe are there,       *)
(* whichever call fails and whenever main cleans up.                       *)
(***************************************************************************)
THEOREM ThreadKeepsItsFiles == Spec => []ThreadHasItsFiles
<1>1. LInv => ThreadHasItsFiles
  BY DEF LInv, ThreadInv, Alive, ThreadHasItsFiles
<1> QED
  BY <1>1, LInvHolds, PTL

(***************************************************************************)
(* A signal that kills the process finds nothing attached: all of them are *)
(* blocked before the first program is.                                    *)
(***************************************************************************)
THEOREM SignalsLeaveNothing == Spec => []NotKilledAttached
<1>1. LInv => NotKilledAttached
  BY DEF LInv, SignalsInv, Clean, NotKilledAttached
<1> QED
  BY <1>1, LInvHolds, PTL

(***************************************************************************)
(* If the cleanup thread has ended of itself, the exit status is a         *)
(* failure, although the main loop takes the abort for no error.           *)
(***************************************************************************)
THEOREM AbortsAreTold == Spec => []AbortIsFailure
<1>1. LInv => AbortIsFailure
  BY DEF LInv, ErrorInv, AfterThread, AbortIsFailure, Success
<1> QED
  BY <1>1, LInvHolds, PTL

(***************************************************************************)
(* Whatever else has failed when the process ends, and in whatever order,  *)
(* the exit status tells it: only the failures of Untold, and those of a   *)
(* thread that was canceled, are behind a success.                         *)
(***************************************************************************)
THEOREM FailuresAreTold == Spec => []StatusTellsFailure
<1>1. ASSUME LInv, main = "ended", Success
      PROVE  failed \subseteq
               Untold \union (IF thread.at = "canceled" THEN {"iterator"} ELSE {})
  <2>1. failed \subseteq Untold \union {"iterator", "write", "detach_egress"}
    BY <1>1 DEF LInv, FailedInv, Success
  <2>2. "detach_egress" \notin failed
    BY <1>1 DEF LInv, FailedInv, Success
  <2>3. thread.at # "ended" /\ thread.at \notin {"flow", "write"}
    BY <1>1 DEF LInv, ErrorInv, ThreadInv, Alive, WithThread, AfterThread, Success
  <2>4. "write" \notin failed /\ ("iterator" \in failed => thread.at = "canceled")
    BY <1>1, <2>3 DEF LInv, FailedInv
  <2> QED
    BY <2>1, <2>2, <2>4
<1>2. LInv => StatusTellsFailure
  BY <1>1 DEF StatusTellsFailure
<1> QED
  BY <1>2, LInvHolds, PTL

(***************************************************************************)
(* A process that has ended leaves a program on the interface only where   *)
(* a call has failed, or for the ingress filter, where the XDP program was *)
(* detached in its place.                                                  *)
(***************************************************************************)
THEOREM LeftoversHaveReasons == Spec => []LeftoversAreExplained
<1>1. ASSUME LInv, main = "ended"
      PROVE  /\ "egress" \in kernel.attached => "detach_egress" \in failed
             /\ "xdp" \in kernel.attached =>
                  failed \intersect {"tc_ingress", "egress_err", "detach_ingress"} # {}
             /\ "ingress" \in kernel.attached =>
                  \/ "xdp_attach" \notin failed
                  \/ failed \intersect {"egress_err", "detach_ingress"} # {}
  <2>1. main \notin Attached \union {"detach_egress", "tc_ingress", "tc_egress",
                                     "egress_err"}
    BY <1>1 DEF Attached, MakingThread, WithThread
  <2> QED
    BY <1>1, <2>1 DEF LInv, EgressInv, XdpLeftInv, IngressInv, XdpInv
<1>2. LInv => LeftoversAreExplained
  BY <1>1 DEF LeftoversAreExplained
<1> QED
  BY <1>2, LInvHolds, PTL

(***************************************************************************)
(* However often the output is reopened, and whether or not that works,    *)
(* the main loop always has one.                                           *)
(***************************************************************************)
THEOREM EventsHaveOutput == Spec => []OutputIsOpen
<1>1. LInv => OutputIsOpen
  BY DEF LInv, OutputInv, OutputIsOpen
<1> QED
  BY <1>1, LInvHolds, PTL

(* No step destroys a qdisc that was there before ePPing was started. *)
LEMMA NextKeepsQdisc ==
  ASSUME LInv, [Next]_vars, kernel.qdisc = "foreign"
  PROVE  kernel'.qdisc = "foreign"
<1>1. progs.created_tc_hook = FALSE /\ kernel \in Kernel
  BY LInvTypes DEF LInv, QdiscInv, Progs
<1>2. CASE egress_err \/ detach_ingress \/ detach_egress
  BY <1>1, <1>2, DetachStep
<1>3. CASE xdp_attach \/ tc_attach_ingress \/ tc_attach_egress
  <2>1. \/ UNCHANGED kernel
        \/ kernel' = [kernel EXCEPT !.attached = @ \union {"xdp"}]
        \/ kernel' = WithFilter("ingress")
        \/ kernel' = WithFilter("egress")
    BY <1>3 DEF xdp_attach, tc_attach_ingress, tc_attach_egress
  <2> QED
    BY <1>1, <2>1, AttachingEffects
<1>4. CASE UNCHANGED kernel
  BY <1>4
<1> QED
  BY <1>2, <1>3, <1>4
     DEF Next, Setup, Cleanup, periodic_map_cleanup, vars, open_output,
         init_signalfd, load_bpfprogs, open_pipe, iter_map_attach, pthread_create,
         init_perfbuffer, init_aggregation_timer, epoll_create, epoll_add_events,
         epoll_poll_fails, handle_abort_signal, handle_reopen_signal,
         handle_pipefd, pthread_cancel, pthread_join, close_pipe, close_output,
         clean_ts, clean_flow, abort_main_thread, wake_up, be_canceled, Signal,
         Rotate

(***************************************************************************)
(* A qdisc with other people's filters survives every way in which ePPing  *)
(* may start, fail and end, with -f and without.                           *)
(***************************************************************************)
THEOREM ForeignQdiscIsKept == Spec => ForeignQdiscStays
<1>1. LInv /\ [Next]_vars =>
        [kernel.qdisc = "foreign" => kernel'.qdisc = "foreign"]_kernel
  BY NextKeepsQdisc
<1> QED
  BY <1>1, LInvHolds, PTL DEF Spec, ForeignQdiscStays
=============================================================================
