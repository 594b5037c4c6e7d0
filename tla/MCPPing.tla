------------------------------- MODULE MCPPing ------------------------------
(***************************************************************************)
(* What the instances of PPing and of its histories share.                 *)
(*                                                                         *)
(* States that differ only in what no step can read any more are the same  *)
(* to the runs (VIEW): the locals a handler has finished with, and what is *)
(* in an element that is not the flow's and to which nobody has a pointer. *)
(***************************************************************************)
EXTENDS PPing, TLC

Symmetric == Permutations(Dirs)
Alike == Permutations(CPUs)

NeedsPid == {"lookup", "create", "find", "forward", "stamp"}
NeedsTime == NeedsPid \union {"count", "reverse", "open", "match"}
NeedsReply == NeedsTime \union {"delete", "uncount", "report"}

LiveLocals(h) ==
  IF h = Idle THEN h
  ELSE << h.at, h.dir, h.elem, h.pkt.event_type,
          IF h.at \in NeedsPid THEN h.pkt.pid ELSE None,
          IF h.at \in NeedsReply THEN h.pkt.reply_pid ELSE None,
          IF h.at \in NeedsTime THEN h.time ELSE None >>

Held ==
  {current} \union {handler[c].elem : c \in Running}
  \union (IF cleaner.at \in {"tsdelete", "tsuncount"} THEN {cleaner.elem} ELSE {})

LiveView ==
  << current, [e \in Elements \intersect Held |-> mem[e]], packet_ts,
     [c \in CPUs |-> LiveLocals(handler[c])], cleaner, reported >>
=============================================================================
