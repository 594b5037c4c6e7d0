----------------------------- MODULE PPingCounts ----------------------------
(***************************************************************************)
(* How the timestamps of PPing are used and counted while programs and     *)
(* cleaner overlap.  The program is that of PPing; the variables added     *)
(* here only remember what has happened.                                   *)
(***************************************************************************)
EXTENDS PPing

VARIABLES
  unsampled,    (* the timestamps no RTT has been taken from *)
  left,         (* how many timestamps of older flows the flow has found *)
  undisturbed   (* nobody had a pointer into an older flow when it was created *)

countVars == <<vars, unsampled, left, undisturbed>>

(* The events the history is made from, as seen in one step. *)
Stamps(c) == At(c, "stamp") /\ handler'[c].at = "count"
TakesSample(c) == At(c, "match") /\ handler'[c].at = "delete"

(* The timestamps that the programs' packets make, and answer. *)
Question(c) == <<Fw(c), handler[c].pkt.pid>>
Answer(c) == <<Rev(c), handler[c].pkt.reply_pid>>

(* The cleaner may have found no flow; it is no better off with one later. *)
NobodyHolds ==
  /\ \A c \in Running : handler[c].at \in Searching
  /\ cleaner.at \notin {"tsdelete", "tsuncount"}

RememberTimestamps ==
  /\ unsampled' =
       (unsampled \union {Question(c) : c \in {x \in CPUs : Stamps(x)}})
       \ ({Answer(c) : c \in {x \in CPUs : TakesSample(x)}}
          \union {q \in Dirs \X Ids : packet_ts'[q[1]][q[2]] = None})
  /\ IF current = None /\ current' # None
       THEN /\ left' = [d \in Dirs |-> Cardinality(Stored(d))]
            /\ undisturbed' = NobodyHolds
       ELSE UNCHANGED <<left, undisturbed>>

CountsInit ==
  /\ Init
  /\ unsampled = {}
  /\ left = [d \in Dirs |-> 0]
  /\ undisturbed = TRUE

CountsNext == Next /\ RememberTimestamps

CountsSpec == CountsInit /\ [][CountsNext]_countVars

-----------------------------------------------------------------------------
(***************************************************************************)
(* "Delete timestamp entry as soon as RTT is calculated": a timestamp      *)
(* gives a second RTT only to a program that has looked it up before the   *)
(* first one to do so has deleted it.  Duplicate and late answers find     *)
(* nothing, however the cleaner and the other programs interfere.          *)
(***************************************************************************)
NoSecondSample ==
  [][\A c \in CPUs :
       TakesSample(c) /\ Answer(c) \notin unsampled =>
         \E x \in CPUs : At(x, "delete") /\ Answer(x) = Answer(c)]_countVars

(* Programs and cleaner that have yet to change the counter of direction d. *)
ToCount(d) == {c \in CPUs : At(c, "count") /\ Fw(c) = d}
ToUncount(d) == {c \in CPUs : At(c, "uncount") /\ Rev(c) = d}
CleanerUncounts(d) == cleaner.at = "tsuncount" /\ cleaner.dir = d

(***************************************************************************)
(* outstanding_timestamps is the number of timestamps of the direction,    *)
(* less those a deleted flow with the same tuple had left behind, up to    *)
(* the steps that are under way, modulo 2^32: each timestamp is counted    *)
(* once and uncounted once, whoever deletes it.  Excepted are flows whose  *)
(* creation somebody with a pointer into an older flow has lived to see.   *)
(***************************************************************************)
OutstandingIsExact ==
  current # None /\ undisturbed =>
    \A d \in Dirs :
      mem[current][d].outstanding_timestamps =
        ( Cardinality(Stored(d)) - left[d]
          + Cardinality(ToUncount(d)) + (IF CleanerUncounts(d) THEN 1 ELSE 0)
          - Cardinality(ToCount(d)) ) % CtrMod
=============================================================================
