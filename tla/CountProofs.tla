----------------------------- MODULE CountProofs ----------------------------
(***************************************************************************)
(* Proofs about PPingCounts, for any number of CPUs whose programs, and    *)
(* the cleaner, overlap in any way: which programs get an RTT from a       *)
(* timestamp, and that the counter of timestamps is exact.                 *)
(***************************************************************************)
EXTENDS PPingCounts, PPingProofs, FiniteSetTheorems

-----------------------------------------------------------------------------
(* Packets have the identifiers that the handlers look up. *)

IdsAreThere ==
  \A c \in CPUs :
    /\ At(c, "stamp") => handler[c].pkt.pid \in Ids
    /\ At(c, "delete") => handler[c].pkt.reply_pid \in Ids

LEMMA ProceedKeepsIds ==
  ASSUME TypeOK, IdsAreThere, NEW c \in CPUs, Proceed(c)
  PROVE  IdsAreThere'
<1>1. \A x \in CPUs \ {c} : handler'[x] = handler[x]
  BY ProceedIsBusy
<1>2. At(c, "stamp")' => handler'[c].pkt.pid \in Ids
  <2> SUFFICES ASSUME At(c, "stamp")'
               PROVE  handler'[c].pkt.pid \in Ids
    OBVIOUS
  <2>1. /\ pping_forward(c) /\ handler[c].pkt.pid # None
        /\ handler[c] \in Busy
    BY CameFrom
  <2>2. handler'[c].pkt = handler[c].pkt
    BY <2>1, GotoMoves DEF pping_forward, Labels
  <2> QED
    BY <2>1, <2>2, BusyFields DEF OptionalId
<1>3. At(c, "delete")' => handler'[c].pkt.reply_pid \in Ids
  <2> SUFFICES ASSUME At(c, "delete")'
               PROVE  handler'[c].pkt.reply_pid \in Ids
    OBVIOUS
  <2>1. /\ pping_match(c) /\ handler[c].pkt.reply_pid # None
        /\ handler[c] \in Busy
    BY CameFrom
  <2>2. handler'[c].pkt = handler[c].pkt
    BY <2>1, GotoMoves DEF pping_match, Labels
  <2> QED
    BY <2>1, <2>2, BusyFields DEF OptionalId
<1> QED
  BY <1>1, <1>2, <1>3 DEF IdsAreThere, At

LEMMA ArriveKeepsIds ==
  ASSUME TypeOK, IdsAreThere, NEW c \in CPUs, NEW d \in Dirs, NEW p \in Packets,
         Arrive(c, d, p)
  PROVE  IdsAreThere'
<1>1. handler'[c].at = "lookup" /\ \A x \in CPUs \ {c} : handler'[x] = handler[x]
  BY DEF Arrive, TypeOK
<1> QED
  BY <1>1 DEF IdsAreThere, At

LEMMA NextKeepsIds ==
  ASSUME TypeOK, IdsAreThere, [Next]_vars
  PROVE  IdsAreThere'
<1>1. CASE \E c \in CPUs, d \in Dirs, p \in Packets : Arrive(c, d, p)
  BY <1>1, ArriveKeepsIds
<1>2. CASE \E c \in CPUs : Proceed(c)
  BY <1>2, ProceedKeepsIds
<1>3. CASE Clean \/ UNCHANGED vars
  BY <1>3 DEF Clean, tsmap_cleanup, tsmap_delete, tsmap_uncount,
     flowmap_cleanup, flowmap_delete, vars, IdsAreThere, At
<1>4. CASE Tick
  <2>1. \A c \in CPUs : At(c, "stamp") \/ At(c, "delete") => handler[c] # Idle
    BY DEF At, Idle
  <2> QED
    BY <1>4, <2>1, TickMoves DEF IdsAreThere, At
<1> QED
  BY <1>1, <1>2, <1>3, <1>4 DEF Next, Step

-----------------------------------------------------------------------------
(* Second samples. *)

(***************************************************************************)
(* Whoever has taken an RTT from a timestamp that is still there is about  *)
(* to delete it.                                                           *)
(***************************************************************************)
SampledIsDoomed ==
  \A d \in Dirs, i \in Ids :
    packet_ts[d][i] # None /\ <<d, i>> \notin unsampled =>
      \E x \in CPUs : At(x, "delete") /\ Answer(x) = <<d, i>>

SampleInv == TypeOK /\ IdsAreThere /\ SampledIsDoomed

(* A timestamp comes into being when a program stamps its packet. *)
LEMMA NewTimestamp ==
  ASSUME TypeOK, [Next]_vars, NEW d \in Dirs, NEW i \in Ids,
         packet_ts[d][i] = None, packet_ts'[d][i] # None
  PROVE  \E c \in CPUs : Stamps(c) /\ Question(c) = <<d, i>>
<1>1. packet_ts \in [Dirs -> [Ids -> Age \union {None}]]
  BY DEF TypeOK
<1>2. packet_ts' # packet_ts
  OBVIOUS
<1>3. CASE \E c \in CPUs : Proceed(c)
  <2>1. PICK c \in CPUs : Proceed(c)
    BY <1>3
  <2>2. pping_stamp(c) \/ pping_delete(c)
    BY <1>2, <2>1 DEF Proceed, lookup_or_create_dualflow_state,
       create_dualflow_state, find_dualflow_state, pping_forward, pping_count,
       pping_reverse, pping_open, pping_match, pping_uncount, pping_report,
       close_flows, delete_flows
  <2>3. ~ pping_delete(c)
    BY <1>1, <2>1 DEF pping_delete
  <2>4. /\ At(c, "stamp") /\ Goto(c, "count")
        /\ packet_ts' =
             [packet_ts EXCEPT ![Fw(c)][handler[c].pkt.pid] = handler[c].time]
    BY <1>2, <2>2, <2>3 DEF pping_stamp
  <2>5. Fw(c) = d /\ handler[c].pkt.pid = i
    BY <1>1, <2>4
  <2>6. handler'[c].at = "count"
    BY <2>1, <2>4, ProceedIsBusy, GotoMoves DEF Labels
  <2> QED
    BY <2>4, <2>5, <2>6 DEF Stamps, Question
<1>4. CASE Clean
  <2>1. tsmap_delete
    BY <1>2, <1>4 DEF Clean, tsmap_cleanup, tsmap_uncount, flowmap_cleanup,
       flowmap_delete
  <2>2. cleaner.dir \in Dirs /\ cleaner.id \in Ids
    BY <2>1, CleanerType DEF tsmap_delete, TypeOK, TsCleaner
  <2>3. packet_ts' = [packet_ts EXCEPT ![cleaner.dir][cleaner.id] = None]
    BY <2>1 DEF tsmap_delete
  <2> QED
    BY <1>1, <2>2, <2>3
<1>5. CASE Tick
  BY <1>1, <1>5, PPingAssumption DEF Tick, Older
<1>6. CASE UNCHANGED vars \/ \E c \in CPUs, e \in Dirs, p \in Packets : Arrive(c, e, p)
  BY <1>2, <1>6 DEF vars, Arrive
<1> QED
  BY <1>3, <1>4, <1>5, <1>6 DEF Next, Step

(* Who is about to delete a timestamp is so until it is gone. *)
LEMMA DoomStays ==
  ASSUME TypeOK, IdsAreThere, [Next]_vars, NEW x \in CPUs, At(x, "delete"),
         NEW d \in Dirs, NEW i \in Ids, Answer(x) = <<d, i>>,
         packet_ts'[d][i] # None
  PROVE  At(x, "delete")' /\ Answer(x)' = <<d, i>>
<1>1. /\ handler[x] \in Busy /\ handler[x] # Idle
      /\ Rev(x) = d /\ handler[x].pkt.reply_pid = i
  BY AtIsBusy, IdleIsNoLabel DEF Answer, At, Idle, Labels
<1>2. ASSUME handler'[x] = handler[x]
      PROVE  At(x, "delete")' /\ Answer(x)' = <<d, i>>
  BY <1>1, <1>2 DEF At, Answer, Rev
<1>3. CASE \E c \in CPUs : Proceed(c)
  <2>1. PICK c \in CPUs : Proceed(c)
    BY <1>3
  <2>2. CASE c = x
    <3>1. pping_delete(x)
      BY <2>1, <2>2 DEF Proceed, lookup_or_create_dualflow_state,
         create_dualflow_state, find_dualflow_state, pping_forward, pping_stamp,
         pping_count, pping_reverse, pping_open, pping_match, pping_uncount,
         pping_report, close_flows, delete_flows, At
    <3> QED
      BY <1>1, <3>1 DEF pping_delete, TypeOK
  <2> QED
    BY <1>2, <2>1, <2>2, ProceedIsBusy
<1>4. CASE Clean \/ UNCHANGED vars
  BY <1>2, <1>4 DEF Clean, tsmap_cleanup, tsmap_delete, tsmap_uncount,
     flowmap_cleanup, flowmap_delete, vars
<1>5. CASE Tick
  <2>1. /\ handler'[x].at = handler[x].at /\ handler'[x].pkt = handler[x].pkt
        /\ handler'[x].dir = handler[x].dir
    BY <1>1, <1>5, TickMoves
  <2> QED
    BY <1>1, <2>1 DEF At, Answer, Rev
<1>6. CASE \E c \in CPUs, e \in Dirs, p \in Packets : Arrive(c, e, p)
  <2>1. PICK c \in CPUs, e \in Dirs, p \in Packets : Arrive(c, e, p)
    BY <1>6
  <2>2. c # x
    BY <2>1 DEF Arrive, At
  <2> QED
    BY <1>2, <2>1, <2>2 DEF Arrive, TypeOK
<1> QED
  BY <1>3, <1>4, <1>5, <1>6 DEF Next, Step

(* A program that takes an RTT has found a timestamp, and will delete it. *)
LEMMA SampleStep ==
  ASSUME TypeOK, Next, NEW c \in CPUs, TakesSample(c)
  PROVE  /\ Answer(c) \in Dirs \X Ids
         /\ packet_ts[Answer(c)[1]][Answer(c)[2]] # None
         /\ At(c, "delete")' /\ Answer(c)' = Answer(c)
<1>1. handler[c] \in Busy /\ At(c, "match") /\ handler'[c].at = "delete"
  BY AtIsBusy DEF TakesSample, Labels
<1>2. pping_match(c)
  <2>1. CASE \E x \in CPUs : Proceed(x)
    <3>1. PICK x \in CPUs : Proceed(x)
      BY <2>1
    <3>2. x = c
      BY <1>1, <3>1, ProceedIsBusy DEF At
    <3> QED
      BY <1>1, <3>1, <3>2, CameFrom DEF At
  <2>2. CASE ~ \E x \in CPUs : Proceed(x)
    <3>1. CASE Tick
      BY <1>1, <3>1, TickMoves DEF At
    <3>2. CASE Clean
      BY <1>1, <3>2 DEF Clean, tsmap_cleanup, tsmap_delete, tsmap_uncount,
         flowmap_cleanup, flowmap_delete, At
    <3>3. CASE \E x \in CPUs, d \in Dirs, p \in Packets : Arrive(x, d, p)
      <4>1. PICK x \in CPUs, d \in Dirs, p \in Packets : Arrive(x, d, p)
        BY <3>3
      <4>2. handler'[c].at \in {handler[c].at, "lookup"}
        BY <4>1 DEF Arrive, TypeOK
      <4> QED
        BY <1>1, <4>2 DEF At
    <3> QED
      BY <2>2, <3>1, <3>2, <3>3 DEF Next, Step
  <2> QED
    BY <2>1, <2>2
<1>3. Goto(c, "delete")
  <2>1. Goto(c, "delete") \/ Goto(c, "close")
    BY <1>2 DEF pping_match
  <2>2. ~ Goto(c, "close")
    <3>1. Goto(c, "close") => handler'[c].at = "close"
      BY <1>1, GotoMoves DEF Labels
    <3> QED
      BY <1>1, <3>1
  <2> QED
    BY <2>1, <2>2
<1>4. handler[c].pkt.reply_pid # None
      /\ packet_ts[Rev(c)][handler[c].pkt.reply_pid] # None
  <2>1. ~ Goto(c, "close")
    <3>1. Goto(c, "close") => handler'[c].at = "close"
      BY <1>1, GotoMoves DEF Labels
    <3> QED
      BY <1>1, <3>1
  <2> QED
    BY <1>2, <2>1 DEF pping_match, HasTimestamp
<1>5. Rev(c) \in Dirs /\ handler[c].pkt.reply_pid \in Ids
  BY <1>1, <1>4, HandlerDirs, BusyFields DEF OptionalId
<1>6. handler'[c].pkt = handler[c].pkt /\ handler'[c].dir = handler[c].dir
  BY <1>1, <1>3, GotoMoves DEF Labels
<1> QED
  BY <1>1, <1>4, <1>5, <1>6 DEF Answer, At, Rev

LEMMA NextSamples == SampleInv /\ [CountsNext]_countVars => SampleInv'
<1> SUFFICES ASSUME SampleInv, [CountsNext]_countVars
             PROVE  SampleInv'
  OBVIOUS
<1>1. [Next]_vars /\ TypeOK /\ IdsAreThere
  BY DEF SampleInv, CountsNext, countVars, vars
<1>2. TypeOK' /\ IdsAreThere'
  BY <1>1, NextType, NextKeepsIds
<1>3. SampledIsDoomed'
  <2> SUFFICES ASSUME NEW d \in Dirs, NEW i \in Ids,
                      packet_ts'[d][i] # None, <<d, i>> \notin unsampled'
               PROVE  \E x \in CPUs : At(x, "delete")' /\ Answer(x)' = <<d, i>>
    BY DEF SampledIsDoomed
  <2>1. CASE \E c \in CPUs : TakesSample(c) /\ Answer(c) = <<d, i>> /\ CountsNext
    BY <1>1, <2>1, SampleStep DEF CountsNext
  <2>2. CASE packet_ts[d][i] # None /\ <<d, i>> \notin unsampled
    <3>1. PICK x \in CPUs : At(x, "delete") /\ Answer(x) = <<d, i>>
      BY <2>2 DEF SampleInv, SampledIsDoomed
    <3> QED
      BY <1>1, <3>1, DoomStays
  <2>3. CASE packet_ts[d][i] = None
    <3>1. PICK c \in CPUs : Stamps(c) /\ Question(c) = <<d, i>>
      BY <1>1, <2>3, NewTimestamp
    <3>2. CountsNext
      BY <2>3 DEF countVars, vars
    <3>3. <<d, i>> \in unsampled'
          \/ \E x \in CPUs : TakesSample(x) /\ Answer(x) = <<d, i>>
      BY <3>1, <3>2 DEF CountsNext, RememberTimestamps
    <3> QED
      BY <2>1, <3>2, <3>3
  <2>4. CASE <<d, i>> \in unsampled
    <3>1. CountsNext
      BY <2>4 DEF countVars
    <3>2. \E x \in CPUs : TakesSample(x) /\ Answer(x) = <<d, i>>
      BY <2>4, <3>1 DEF CountsNext, RememberTimestamps
    <3> QED
      BY <2>1, <3>1, <3>2
  <2> QED
    BY <2>2, <2>3, <2>4
<1> QED
  BY <1>2, <1>3 DEF SampleInv

LEMMA InitSamples == CountsInit => SampleInv
BY InitType DEF CountsInit, Init, SampleInv, IdsAreThere, SampledIsDoomed, At, Idle

(***************************************************************************)
(* However many programs and the cleaner overlap: a timestamp gives a      *)
(* second RTT only to a program that looked it up before a first one,      *)
(* which also did, has deleted it.  A timestamp that has been used is      *)
(* still there only as long as such a program has yet to delete it.        *)
(***************************************************************************)
THEOREM SecondSamplesOverlap == CountsSpec => NoSecondSample
<1>1. SampleInv /\ [CountsNext]_countVars =>
        [\A c \in CPUs :
           TakesSample(c) /\ Answer(c) \notin unsampled =>
             \E x \in CPUs : At(x, "delete") /\ Answer(x) = Answer(c)]_countVars
  <2> SUFFICES ASSUME SampleInv, CountsNext, NEW c \in CPUs, TakesSample(c),
                      Answer(c) \notin unsampled
               PROVE  \E x \in CPUs : At(x, "delete") /\ Answer(x) = Answer(c)
    OBVIOUS
  <2>1. /\ Answer(c) \in Dirs \X Ids
        /\ packet_ts[Answer(c)[1]][Answer(c)[2]] # None
    BY SampleStep DEF SampleInv, CountsNext
  <2>2. PICK d \in Dirs, i \in Ids : Answer(c) = <<d, i>>
    BY <2>1
  <2> QED
    BY <2>1, <2>2 DEF SampleInv, SampledIsDoomed
<1> QED
  BY <1>1, InitSamples, NextSamples, PTL DEF CountsSpec, NoSecondSample

-----------------------------------------------------------------------------
(* The arithmetic of a counter that wraps around. *)

LEMMA SumOfRests ==
  ASSUME NEW m \in Nat \ {0}, NEW a \in Int, NEW c \in Int
  PROVE  ((a % m) + c) % m = (a + c) % m
<1> DEFINE x == a \div m
           z == a % m
           b == z + c
           y == b \div m
           w == b % m
<1>1. x \in Int /\ z \in 0 .. m - 1 /\ a = (m * x) + z
  BY QuotientAndRest
<1>2. b \in Int
  BY <1>1
<1>3. y \in Int /\ w \in 0 .. m - 1 /\ b = (m * y) + w
  <2> HIDE DEF b
  <2> QED
    BY <1>2, QuotientAndRest
<1>4. m * (x + y) = (m * x) + (m * y) /\ m * x \in Int /\ m * y \in Int
  BY <1>1, <1>3, Distribute
<1>5. a + c = (m * (x + y)) + w /\ x + y \in Int /\ a + c \in Int
  <2>1. b = z + c
    OBVIOUS
  <2> HIDE DEF x, y, z, w, b
  <2> QED
    BY <1>1, <1>2, <1>3, <1>4, <2>1
<1>6. (a + c) % m = w
  <2> HIDE DEF x, y, z, w, b
  <2> QED
    BY <1>3, <1>5, RestIsUnique
<1> QED
  BY <1>6

LEMMA CounterMoves ==
  ASSUME NEW s \in FlowState, NEW a \in Int,
         s.outstanding_timestamps = a % CtrMod
  PROVE  /\ Incremented(s).outstanding_timestamps = (a + 1) % CtrMod
         /\ Decremented(s).outstanding_timestamps = (a - 1) % CtrMod
<1>1. CtrMod \in Nat \ {0} /\ a % CtrMod \in Int
  BY PPingAssumption, QuotientAndRest
<1>2. \A c \in Int : ((a % CtrMod) + c) % CtrMod = (a + c) % CtrMod
  BY <1>1, SumOfRests, Zenon
<1>3. /\ ((a % CtrMod) + 1) % CtrMod = (a + 1) % CtrMod
      /\ ((a % CtrMod) + (-1)) % CtrMod = (a + (-1)) % CtrMod
  <2>1. 1 \in Int /\ -1 \in Int
    OBVIOUS
  <2> QED
    BY <1>2, <2>1, Zenon
<1>4. (a % CtrMod) + (-1) = (a % CtrMod) - 1 /\ a + (-1) = a - 1
  BY <1>1
<1>5. /\ Incremented(s).outstanding_timestamps = ((a % CtrMod) + 1) % CtrMod
      /\ Decremented(s).outstanding_timestamps = ((a % CtrMod) - 1) % CtrMod
  BY DEF Incremented, Decremented, FlowState
<1> QED
  BY <1>3, <1>4, <1>5

(* How many timestamps a direction has. *)
Size(x) == Cardinality(Stored(x))

LEMMA SizeIsNat ==
  ASSUME NEW x \in Dirs
  PROVE  IsFiniteSet(Stored(x)) /\ Size(x) \in Nat /\ Size(x)' \in Nat
<1>1. IsFiniteSet(Ids)
  <2>1. IdMod - 1 \in Int /\ Ids \in SUBSET (0 .. IdMod - 1)
    BY PPingAssumption
  <2>2. IsFiniteSet(0 .. IdMod - 1)
    BY <2>1, FS_Interval
  <2> QED
    BY <2>1, <2>2, FS_Subset
<1>2. Stored(x) \in SUBSET Ids
  BY DEF Stored
<1>3. IsFiniteSet(Stored(x)) /\ IsFiniteSet(Stored(x)')
  <2>1. Stored(x)' \in SUBSET Ids
    BY DEF Stored
  <2> QED
    BY <1>1, <1>2, <2>1, FS_Subset
<1> QED
  BY <1>3, FS_CardinalityType DEF Size

LEMMA OneMoreTimestamp ==
  ASSUME TypeOK, NEW x \in Dirs, NEW i \in Ids, NEW t \in Age,
         packet_ts[x][i] = None, packet_ts' = [packet_ts EXCEPT ![x][i] = t]
  PROVE  Size(x)' = Size(x) + 1 /\ Size(Other(x))' = Size(Other(x))
<1>1. /\ packet_ts \in [Dirs -> [Ids -> Age \union {None}]] /\ None \notin Age
      /\ Other(x) \in Dirs /\ Other(x) # x
  BY PPingAssumption, DirsArePaired DEF TypeOK, Age
<1>2. Stored(x)' = Stored(x) \union {i} /\ i \notin Stored(x)
  BY <1>1 DEF Stored
<1>3. Stored(Other(x))' = Stored(Other(x))
  BY <1>1 DEF Stored
<1>4. Cardinality(Stored(x) \union {i}) = Cardinality(Stored(x)) + 1
  BY <1>2, SizeIsNat, FS_AddElement
<1> QED
  BY <1>2, <1>3, <1>4 DEF Size

LEMMA OneTimestampLess ==
  ASSUME TypeOK, NEW x \in Dirs, NEW i \in Ids,
         packet_ts' = [packet_ts EXCEPT ![x][i] = None]
  PROVE  /\ Size(x)' = IF packet_ts[x][i] # None THEN Size(x) - 1 ELSE Size(x)
         /\ Size(Other(x))' = Size(Other(x))
<1>1. /\ packet_ts \in [Dirs -> [Ids -> Age \union {None}]]
      /\ Other(x) \in Dirs /\ Other(x) # x
  BY DirsArePaired DEF TypeOK
<1>2. Stored(x)' = Stored(x) \ {i} /\ (i \in Stored(x) <=> packet_ts[x][i] # None)
  BY <1>1 DEF Stored
<1>3. Stored(Other(x))' = Stored(Other(x))
  BY <1>1 DEF Stored
<1>4. Cardinality(Stored(x) \ {i}) =
        IF i \in Stored(x) THEN Cardinality(Stored(x)) - 1
                           ELSE Cardinality(Stored(x))
  BY SizeIsNat, FS_RemoveElement
<1> QED
  BY <1>2, <1>3, <1>4 DEF Size

-----------------------------------------------------------------------------
(* How many programs are about to change a counter. *)

(* Two sets that differ at most in one element. *)
LEMMA OneMember ==
  ASSUME NEW S, NEW T, NEW c, IsFiniteSet(S), T \ {c} = S \ {c}
  PROVE  /\ Cardinality(S) \in Int /\ Cardinality(T) \in Int
         /\ Cardinality(T) - (IF c \in T THEN 1 ELSE 0)
              = Cardinality(S) - (IF c \in S THEN 1 ELSE 0)
<1>1. /\ IsFiniteSet(S \ {c}) /\ Cardinality(S) \in Int
      /\ Cardinality(S \ {c}) =
           IF c \in S THEN Cardinality(S) - 1 ELSE Cardinality(S)
  BY FS_RemoveElement, FS_CardinalityType
<1>2. IsFiniteSet(T)
  <2>1. IsFiniteSet((S \ {c}) \union {c})
    BY <1>1, FS_AddElement
  <2>2. T \in SUBSET ((S \ {c}) \union {c})
    OBVIOUS
  <2> QED
    BY <2>1, <2>2, FS_Subset
<1>3. /\ Cardinality(T) \in Int
      /\ Cardinality(T \ {c}) =
           IF c \in T THEN Cardinality(T) - 1 ELSE Cardinality(T)
  BY <1>2, FS_RemoveElement, FS_CardinalityType
<1> QED
  BY <1>1, <1>3

(* What c's handler has yet to subtract, less what it has yet to add. *)
OwnPending(c, d) ==
  (IF At(c, "uncount") /\ Rev(c) = d THEN 1 ELSE 0)
  - (IF At(c, "count") /\ Fw(c) = d THEN 1 ELSE 0)

CleanerPending(d) == IF CleanerUncounts(d) THEN 1 ELSE 0

Pending(d) ==
  Cardinality(ToUncount(d)) + CleanerPending(d) - Cardinality(ToCount(d))

LEMMA PendingSets ==
  ASSUME NEW d
  PROVE  /\ IsFiniteSet(ToCount(d)) /\ IsFiniteSet(ToUncount(d))
         /\ IsFiniteSet(ToCount(d)') /\ IsFiniteSet(ToUncount(d)')
<1>1. /\ ToCount(d) \in SUBSET CPUs /\ ToUncount(d) \in SUBSET CPUs
      /\ ToCount(d)' \in SUBSET CPUs /\ ToUncount(d)' \in SUBSET CPUs
  BY DEF ToCount, ToUncount
<1> QED
  BY <1>1, PPingAssumption, FS_Subset

LEMMA PendingIsInt ==
  ASSUME NEW d
  PROVE  /\ Pending(d) \in Int /\ Pending(d)' \in Int /\ CleanerPending(d) \in Int
         /\ Cardinality(ToCount(d)) \in Int /\ Cardinality(ToUncount(d)) \in Int
<1>1. /\ Cardinality(ToCount(d)) \in Nat /\ Cardinality(ToUncount(d)) \in Nat
      /\ Cardinality(ToCount(d)') \in Nat /\ Cardinality(ToUncount(d)') \in Nat
  BY PendingSets, FS_CardinalityType
<1>2. CleanerPending(d) \in Int /\ CleanerPending(d)' \in Int
  BY DEF CleanerPending
<1> QED
  BY <1>1, <1>2 DEF Pending

(* Only c's handler has moved. *)
LEMMA PendingMoves ==
  ASSUME NEW c \in CPUs, NEW d, UNCHANGED cleaner,
         \A x \in CPUs \ {c} : handler'[x] = handler[x]
  PROVE  /\ {Pending(d), Pending(d)', OwnPending(c, d), OwnPending(c, d)'}
              \subseteq Int
         /\ Pending(d)' - OwnPending(c, d)' = Pending(d) - OwnPending(c, d)
<1> DEFINE S == ToCount(d)
           T == ToUncount(d)
<1>1. IsFiniteSet(S) /\ IsFiniteSet(T)
  BY PendingSets
<1>2. S' \ {c} = S \ {c} /\ T' \ {c} = T \ {c}
  BY DEF ToCount, ToUncount, At, Fw, Rev
<1>3. /\ c \in S <=> At(c, "count") /\ Fw(c) = d
      /\ c \in T <=> At(c, "uncount") /\ Rev(c) = d
      /\ c \in S' <=> At(c, "count")' /\ Fw(c)' = d
      /\ c \in T' <=> At(c, "uncount")' /\ Rev(c)' = d
  BY DEF ToCount, ToUncount
<1>4. /\ OwnPending(c, d) = (IF c \in T THEN 1 ELSE 0) - (IF c \in S THEN 1 ELSE 0)
      /\ OwnPending(c, d)' =
           (IF c \in T' THEN 1 ELSE 0) - (IF c \in S' THEN 1 ELSE 0)
  BY <1>3 DEF OwnPending
<1>5. CleanerPending(d)' = CleanerPending(d) /\ CleanerPending(d) \in Int
  BY DEF CleanerPending, CleanerUncounts
<1>6. /\ Pending(d) = Cardinality(T) + CleanerPending(d) - Cardinality(S)
      /\ Pending(d)' = Cardinality(T') + CleanerPending(d) - Cardinality(S')
  BY <1>5 DEF Pending
<1> HIDE DEF S, T
<1>7. /\ Cardinality(S) \in Int /\ Cardinality(S') \in Int
      /\ Cardinality(S') - (IF c \in S' THEN 1 ELSE 0)
           = Cardinality(S) - (IF c \in S THEN 1 ELSE 0)
  BY <1>1, <1>2, OneMember
<1>8. /\ Cardinality(T) \in Int /\ Cardinality(T') \in Int
      /\ Cardinality(T') - (IF c \in T' THEN 1 ELSE 0)
           = Cardinality(T) - (IF c \in T THEN 1 ELSE 0)
  BY <1>1, <1>2, OneMember
<1> QED
  BY <1>4, <1>5, <1>6, <1>7, <1>8

(* No handler has moved. *)
LEMMA PendingStays ==
  ASSUME NEW d, \A x \in CPUs : /\ At(x, "count")' /\ Fw(x)' = d
                                     <=> At(x, "count") /\ Fw(x) = d
                                /\ At(x, "uncount")' /\ Rev(x)' = d
                                     <=> At(x, "uncount") /\ Rev(x) = d
  PROVE  Pending(d)' - CleanerPending(d)' = Pending(d) - CleanerPending(d)
<1>1. ToCount(d)' = ToCount(d) /\ ToUncount(d)' = ToUncount(d)
  BY DEF ToCount, ToUncount
<1>2. CleanerPending(d)' \in Int
  BY DEF CleanerPending
<1> QED
  BY <1>1, <1>2, PendingIsInt DEF Pending

-----------------------------------------------------------------------------
(* The balance of the timestamps that are there and of the counter. *)

Balance(d) == Size(d) - left[d] + Pending(d)

IsSettled(x) ==
  mem[current][x].outstanding_timestamps = Balance(x) % CtrMod

Exact == current # None /\ undisturbed => \A d \in Dirs : IsSettled(d)

(* What undisturbed promises of the pointers of handlers and cleaner. *)
PointersAreToFlow ==
  current # None /\ undisturbed =>
    /\ \A c \in CPUs : handler[c].at \in Holding => handler[c].elem = current
    /\ cleaner.at \in {"tsdelete", "tsuncount"} => cleaner.elem = current

CountInv ==
  /\ TypeOK
  /\ IdsAreThere
  /\ left \in [Dirs -> Nat]
  /\ PointersAreToFlow
  /\ Exact

LEMMA BalanceIsInt ==
  ASSUME NEW x \in Dirs, left \in [Dirs -> Nat]
  PROVE  Balance(x) \in Int
BY SizeIsNat, PendingIsInt DEF Balance

(* A step that changes the counter by as much as the balance. *)
LEMMA SettledStep ==
  ASSUME CountInv, UNCHANGED <<current, left>>, current # None, undisturbed,
         NEW x \in Dirs, NEW k \in {-1, 0, 1},
         Balance(x)' = Balance(x) + k,
         mem'[current][x].outstanding_timestamps =
           CASE k = 1 -> Incremented(mem[current][x]).outstanding_timestamps
             [] k = -1 -> Decremented(mem[current][x]).outstanding_timestamps
             [] k = 0 -> mem[current][x].outstanding_timestamps
  PROVE  IsSettled(x)'
<1> DEFINE a == Balance(x)
           s == mem[current][x]
<1>1. a \in Int /\ s.outstanding_timestamps = a % CtrMod /\ s \in FlowState
  BY BalanceIsInt, FlowHasStates DEF CountInv, Exact, IsSettled
<1>2. /\ Incremented(s).outstanding_timestamps = (a + 1) % CtrMod
      /\ Decremented(s).outstanding_timestamps = (a - 1) % CtrMod
  <2> HIDE DEF a, s
  <2> QED
    BY <1>1, CounterMoves
<1>3. mem'[current][x].outstanding_timestamps = (a + k) % CtrMod
  <2>1. CASE k = 1
    BY <1>2, <2>1
  <2>2. CASE k = -1
    <3>1. a + k = a - 1
      BY <1>1, <2>2
    <3> QED
      BY <1>2, <2>2, <3>1
  <2>3. CASE k = 0
    <3>1. a + k = a
      BY <1>1, <2>3
    <3> QED
      BY <1>1, <2>3, <3>1
  <2> QED
    BY <2>1, <2>2, <2>3
<1> QED
  BY <1>3 DEF IsSettled

-----------------------------------------------------------------------------
(* The steps of handlers. *)

Shift(c, x) ==
  IF At(c, "count") /\ Fw(c) = x THEN 1
  ELSE IF At(c, "uncount") /\ Rev(c) = x THEN -1
  ELSE 0

(* What the steps of a handler store in the counters of the flow. *)
LEMMA StoresOfStep ==
  ASSUME TypeOK, NEW c \in CPUs, Proceed(c), current # None, UNCHANGED current,
         handler[c].at \in Holding => handler[c].elem = current,
         NEW x \in Dirs
  PROVE  mem'[current][x].outstanding_timestamps =
           CASE Shift(c, x) = 1 ->
                  Incremented(mem[current][x]).outstanding_timestamps
             [] Shift(c, x) = -1 ->
                  Decremented(mem[current][x]).outstanding_timestamps
             [] Shift(c, x) = 0 -> mem[current][x].outstanding_timestamps
<1> DEFINE s == mem[current][x]
           h == handler[c]
<1>1. /\ h \in Busy /\ Fw(c) \in Dirs /\ Rev(c) \in Dirs /\ Rev(c) # Fw(c)
      /\ Fw(c) = x \/ Rev(c) = x
  BY ProceedIsBusy, ProceedDirs
<1>2. s \in FlowState /\ current \in Elements
  BY FlowHasStates DEF TypeOK
<1>3. ASSUME NEW v, NEW y \in Dirs, SetState(c, y, v), h.at \in Holding
      PROVE  mem'[current][x] = IF y = x THEN v ELSE s
  BY <1>2, <1>3 DEF SetState, TypeOK
<1>4. h.at \in Holding => \A y \in Dirs : State(c, y) = mem[current][y]
  BY DEF State
<1>5. CASE pping_count(c)
  <2>1. mem'[current][x] = IF Fw(c) = x THEN Incremented(s) ELSE s
    BY <1>1, <1>3, <1>4, <1>5 DEF pping_count, At, Holding, Labels
  <2>2. Shift(c, x) = IF Fw(c) = x THEN 1 ELSE 0
    BY <1>5 DEF Shift, pping_count, At
  <2> QED
    BY <2>1, <2>2
<1>6. CASE pping_uncount(c)
  <2>1. mem'[current][x] = IF Rev(c) = x THEN Decremented(s) ELSE s
    BY <1>1, <1>3, <1>4, <1>6 DEF pping_uncount, At, Holding, Labels
  <2>2. Shift(c, x) = IF Rev(c) = x THEN -1 ELSE 0
    BY <1>6 DEF Shift, pping_uncount, At
  <2> QED
    BY <2>1, <2>2
<1>7. CASE pping_forward(c)
  <2> DEFINE u == update_forward_flowstate(State(c, Fw(c)), h.pkt, h.time)
             stamped == [u EXCEPT !.last_id = h.pkt.pid,
                                  !.has_been_timestamped = TRUE,
                                  !.last_timestamp = h.time]
  <2>1. h.at \in Holding /\ h.pkt \in Packets /\ h.time \in Age
    BY <1>1, <1>7 DEF pping_forward, At, Holding, Labels, Busy
  <2>2. \/ SetState(c, Fw(c), u)
        \/ SetState(c, Fw(c), Limited(u, h.pkt))
        \/ SetState(c, Fw(c), stamped)
    BY <1>7 DEF pping_forward
  <2>3. State(c, Fw(c)) \in FlowState
    BY <1>1, <1>4, <2>1, FlowHasStates
  <2>4. /\ u \in FlowState
        /\ u.outstanding_timestamps = State(c, Fw(c)).outstanding_timestamps
    BY <2>1, <2>3, ForwardFields
  <2> HIDE DEF u
  <2>5. /\ Limited(u, h.pkt).outstanding_timestamps = u.outstanding_timestamps
        /\ stamped.outstanding_timestamps = u.outstanding_timestamps
    BY <2>4 DEF Limited, FlowState
  <2> HIDE DEF stamped
  <2>6. PICK v : /\ SetState(c, Fw(c), v)
                 /\ v.outstanding_timestamps = u.outstanding_timestamps
    BY <2>2, <2>5
  <2>7. mem'[current][x] = IF Fw(c) = x THEN v ELSE s
    BY <1>1, <1>3, <2>1, <2>6
  <2>8. mem'[current][x].outstanding_timestamps = s.outstanding_timestamps
    BY <1>1, <1>4, <2>1, <2>4, <2>6, <2>7
  <2>9. Shift(c, x) = 0
    BY <1>7 DEF Shift, pping_forward, At
  <2> QED
    BY <2>8, <2>9
<1>8. CASE pping_open(c) \/ pping_report(c)
  <2>1. h.at \in Holding /\ Shift(c, x) = 0
    BY <1>8 DEF pping_open, pping_report, At, Holding, Labels, Shift
  <2> DEFINE r == mem[current][Rev(c)]
  <2>2. PICK v : /\ SetState(c, Rev(c), v)
                 /\ v \in {[r EXCEPT !.conn_state = "OPEN"],
                           [r EXCEPT !.srtt = TRUE]}
    BY <1>1, <1>4, <1>8, <2>1 DEF pping_open, pping_report
  <2>3. r \in FlowState
    BY <1>1, FlowHasStates
  <2>4. v.outstanding_timestamps = r.outstanding_timestamps
    BY <2>2, <2>3 DEF FlowState
  <2>5. mem'[current][x] = IF Rev(c) = x THEN v ELSE s
    BY <1>1, <1>3, <2>1, <2>2
  <2> QED
    BY <2>1, <2>4, <2>5
<1>9. CASE close_flows(c)
  <2>1. h.elem = current /\ Shift(c, x) = 0
    BY <1>9 DEF close_flows, At, Holding, Labels, Shift
  <2>2. mem'[current][x] \in {s, [s EXCEPT !.conn_state = "CLOSED"]}
    BY <1>2, <1>9, <2>1 DEF close_flows, TypeOK
  <2>3. mem'[current][x].outstanding_timestamps = s.outstanding_timestamps
    BY <1>2, <2>2 DEF FlowState
  <2> QED
    BY <2>1, <2>3
<1>10. CASE \/ lookup_or_create_dualflow_state(c) \/ create_dualflow_state(c)
            \/ find_dualflow_state(c) \/ pping_stamp(c) \/ pping_reverse(c)
            \/ pping_match(c) \/ pping_delete(c) \/ delete_flows(c)
  <2>1. UNCHANGED mem /\ Shift(c, x) = 0
    BY <1>10 DEF lookup_or_create_dualflow_state, create_dualflow_state,
       find_dualflow_state, pping_stamp, pping_reverse, pping_match,
       pping_delete, delete_flows, At, Shift
  <2> QED
    BY <2>1
<1> QED
  BY <1>5, <1>6, <1>7, <1>8, <1>9, <1>10 DEF Proceed

(* What they make of the timestamps, with what is pending. *)
LEMMA BalanceOfStep ==
  ASSUME TypeOK, IdsAreThere, left \in [Dirs -> Nat],
         NEW c \in CPUs, Proceed(c), UNCHANGED left, NEW x \in Dirs
  PROVE  Balance(x)' = Balance(x) + Shift(c, x)
<1> DEFINE h == handler[c]
<1>1. /\ h \in Busy /\ Fw(c) \in Dirs /\ Rev(c) \in Dirs /\ Rev(c) # Fw(c)
      /\ Other(Fw(c)) = Rev(c) /\ Other(Rev(c)) = Fw(c)
      /\ Fw(c) = x \/ Rev(c) = x
      /\ UNCHANGED cleaner /\ \A y \in CPUs \ {c} : handler'[y] = handler[y]
  BY ProceedIsBusy, ProceedDirs
<1>2. /\ {Pending(x), Pending(x)', OwnPending(c, x), OwnPending(c, x)'} \subseteq Int
      /\ Pending(x)' - OwnPending(c, x)' = Pending(x) - OwnPending(c, x)
  BY <1>1, PendingMoves
<1>3. /\ Size(x) \in Int /\ Size(x)' \in Int /\ left[x] \in Int
      /\ left'[x] = left[x]
  <2>1. Size(x) \in Nat
    BY SizeIsNat
  <2> QED
    BY <2>1, SizeIsNat
<1>4. OwnPending(c, x) = IF At(c, "uncount") /\ Rev(c) = x THEN 1
                         ELSE IF At(c, "count") /\ Fw(c) = x THEN -1 ELSE 0
  BY <1>1 DEF OwnPending, At
<1>5. Size(x)' + OwnPending(c, x)' = Size(x) + OwnPending(c, x) + Shift(c, x)
  <2>1. CASE pping_stamp(c) /\ Goto(c, "count")
    <3>1. /\ handler'[c].at = "count" /\ handler'[c].dir = h.dir
          /\ ~ Goto(c, "reverse") /\ At(c, "stamp")
      BY <1>1, <2>1, GotoMoves DEF Labels, pping_stamp
    <3>2. /\ h.pkt.pid \in Ids /\ h.time \in Age
          /\ packet_ts[Fw(c)][h.pkt.pid] = None
          /\ packet_ts' = [packet_ts EXCEPT ![Fw(c)][h.pkt.pid] = h.time]
      BY <1>1, <2>1, <3>1 DEF pping_stamp, IdsAreThere, Busy
    <3>3. Size(x)' = IF Fw(c) = x THEN Size(x) + 1 ELSE Size(x)
      <4>1. PICK d \in Dirs, o \in Dirs : d = Fw(c) /\ o = Rev(c) /\ o = Other(d)
        BY <1>1
      <4>2. Size(d)' = Size(d) + 1 /\ Size(Other(d))' = Size(Other(d))
        BY <3>2, <4>1, OneMoreTimestamp
      <4> QED
        BY <1>1, <4>1, <4>2 DEF Size, Stored
    <3>4. /\ OwnPending(c, x) = 0 /\ Shift(c, x) = 0
          /\ OwnPending(c, x)' = IF Fw(c) = x THEN -1 ELSE 0
      BY <3>1 DEF OwnPending, Shift, At, Fw
    <3> QED
      BY <1>3, <3>3, <3>4
  <2>2. CASE pping_delete(c)
    <3> DEFINE i == h.pkt.reply_pid
               there == packet_ts[Rev(c)][i] # None
    <3>1. /\ At(c, "delete") /\ i \in Ids
          /\ packet_ts' = [packet_ts EXCEPT ![Rev(c)][i] = None]
          /\ Goto(c, IF there THEN "uncount" ELSE "report")
      BY <2>2 DEF pping_delete, IdsAreThere
    <3>2. /\ handler'[c].at = IF there THEN "uncount" ELSE "report"
          /\ handler'[c].dir = h.dir
      <4>1. (IF there THEN "uncount" ELSE "report") \in Labels
        BY DEF Labels
      <4> QED
        BY <1>1, <3>1, <4>1, GotoMoves
    <3>3. Size(x)' = IF Rev(c) = x /\ there THEN Size(x) - 1 ELSE Size(x)
      <4>1. PICK d \in Dirs, o \in Dirs : d = Rev(c) /\ o = Fw(c) /\ o = Other(d)
        BY <1>1
      <4>2. /\ Size(d)' = IF packet_ts[d][i] # None THEN Size(d) - 1 ELSE Size(d)
            /\ Size(Other(d))' = Size(Other(d))
        <5> HIDE DEF i
        <5> QED
          BY <3>1, <4>1, OneTimestampLess
      <4> QED
        BY <1>1, <4>1, <4>2 DEF Size, Stored
    <3>4. /\ OwnPending(c, x) = 0 /\ Shift(c, x) = 0
          /\ OwnPending(c, x)' = IF Rev(c) = x /\ there THEN 1 ELSE 0
      <4> HIDE DEF there
      <4> QED
        BY <3>1, <3>2 DEF OwnPending, Shift, At, Rev
    <3> QED
      BY <1>3, <3>3, <3>4
  <2>3. CASE ~ pping_delete(c) /\ ~ (pping_stamp(c) /\ Goto(c, "count"))
    <3>1. UNCHANGED packet_ts
      BY <2>3 DEF Proceed, lookup_or_create_dualflow_state, pping_stamp,
         create_dualflow_state, find_dualflow_state, pping_forward, pping_count,
         pping_reverse, pping_open, pping_match, pping_uncount, pping_report,
         close_flows, delete_flows
    <3>2. Size(x)' = Size(x)
      BY <3>1 DEF Size, Stored
    <3>3. ~ At(c, "count")' /\ ~ At(c, "uncount")'
      BY <2>3, CameFrom
    <3>4. OwnPending(c, x)' = 0 /\ OwnPending(c, x) + Shift(c, x) = 0
      BY <1>1, <1>4, <3>3 DEF OwnPending, Shift, At
    <3> QED
      BY <1>2, <1>3, <3>2, <3>4 DEF Shift
  <2> QED
    BY <2>1, <2>2, <2>3
<1>6. Shift(c, x) \in Int
  BY DEF Shift
<1>7. /\ Pending(x) \in Int /\ Pending(x)' \in Int
      /\ OwnPending(c, x) \in Int /\ OwnPending(c, x)' \in Int
  BY <1>2
<1>8. Size(x)' + Pending(x)' = Size(x) + Pending(x) + Shift(c, x)
  BY <1>2, <1>3, <1>5, <1>6, <1>7
<1>9. Balance(x)' = Size(x)' - left'[x] + Pending(x)'
  BY DEF Balance
<1> QED
  BY <1>3, <1>6, <1>7, <1>8, <1>9 DEF Balance

(* A handler keeps the flow, deletes it, or creates it. *)
LEMMA FlowOfStep ==
  ASSUME TypeOK, NEW c \in CPUs, Proceed(c), current' # None, current' # current
  PROVE  create_dualflow_state(c) /\ current = None
BY PPingAssumption DEF Proceed, lookup_or_create_dualflow_state,
   create_dualflow_state, find_dualflow_state, pping_forward, pping_stamp,
   pping_count, pping_reverse, pping_open, pping_match, pping_delete,
   pping_uncount, pping_report, close_flows, delete_flows

(* The flow that is created is disturbed by whoever has a pointer already. *)
LEMMA CreateHolds ==
  ASSUME TypeOK, NEW c \in CPUs, create_dualflow_state(c), current' # current,
         NobodyHolds
  PROVE  /\ \A x \in CPUs : handler'[x].at \notin Holding
         /\ cleaner'.at \notin {"tsdelete", "tsuncount"}
<1>1. /\ Proceed(c) /\ UNCHANGED cleaner
      /\ Goto(c, "find")
  BY DEF Proceed, create_dualflow_state
<1>2. /\ handler[c] \in Busy /\ \A x \in CPUs \ {c} : handler'[x] = handler[x]
  BY <1>1, ProceedIsBusy
<1>3. handler'[c].at = "find"
  BY <1>1, <1>2, GotoMoves DEF Labels
<1>4. \A x \in CPUs : handler[x].at \notin Holding
  BY DEF NobodyHolds, Running, Searching, Holding, Labels, Idle
<1> QED
  BY <1>1, <1>2, <1>3, <1>4 DEF NobodyHolds, Holding

LEMMA LeftType ==
  ASSUME left \in [Dirs -> Nat], RememberTimestamps
  PROVE  left' \in [Dirs -> Nat]
BY SizeIsNat DEF RememberTimestamps, Size

LEMMA ProceedPointers ==
  ASSUME CountInv, NEW c \in CPUs, Proceed(c), RememberTimestamps
  PROVE  PointersAreToFlow'
<1> SUFFICES ASSUME current' # None, undisturbed'
             PROVE  /\ \A x \in CPUs :
                         handler'[x].at \in Holding => handler'[x].elem = current'
                    /\ cleaner'.at \in {"tsdelete", "tsuncount"} =>
                         cleaner'.elem = current'
  BY DEF PointersAreToFlow
<1>1. /\ TypeOK /\ handler[c] \in Busy /\ UNCHANGED cleaner
      /\ \A x \in CPUs \ {c} : handler'[x] = handler[x]
  BY ProceedIsBusy DEF CountInv
<1>2. CASE current = None
  <2>1. create_dualflow_state(c) /\ NobodyHolds /\ current' # current
    BY <1>1, <1>2, FlowOfStep DEF RememberTimestamps
  <2> QED
    BY <1>1, <2>1, CreateHolds
<1>3. CASE current # None
  <2>1. current' = current /\ undisturbed
    BY <1>1, <1>3, FlowOfStep DEF RememberTimestamps
  <2>2. /\ \A x \in CPUs : handler[x].at \in Holding => handler[x].elem = current
        /\ cleaner.at \in {"tsdelete", "tsuncount"} => cleaner.elem = current
    BY <1>3, <2>1 DEF CountInv, PointersAreToFlow
  <2>3. handler'[c].at \in Holding => handler'[c].elem = current
    <3>1. "idle" \notin Holding /\ Holding \subseteq Labels
      BY DEF Holding, Labels
    <3>2. CASE handler[c].at \in Holding
      <4>1. (\E l \in Holding : Goto(c, l)) \/ Leave(c)
        BY <1>1, <3>2, HoldingStep DEF delete_flows
      <4> QED
        BY <1>1, <2>2, <3>1, <3>2, <4>1, GotoMoves, LeaveMoves DEF Idle
    <3>3. CASE handler[c].at \notin Holding
      <4>1. \/ handler' = [handler EXCEPT ![c].at = "forward", ![c].elem = current]
            \/ Goto(c, "create") \/ Goto(c, "find") \/ Leave(c)
        BY <1>1, <3>3, SearchStep DEF lookup_or_create_dualflow_state,
           create_dualflow_state, find_dualflow_state
      <4>2. \A l \in {"create", "find"} : l \notin Holding /\ l \in Labels
        BY DEF Holding, Labels
      <4> QED
        BY <1>1, <3>1, <4>1, <4>2, FoundMoves, GotoMoves, LeaveMoves DEF Idle
    <3> QED
      BY <3>2, <3>3
  <2> QED
    BY <1>1, <2>1, <2>2, <2>3
<1> QED
  BY <1>2, <1>3

(* A flow that is created finds the timestamps that older ones have left. *)
LEMMA CreateCounts ==
  ASSUME CountInv, NEW c \in CPUs, create_dualflow_state(c), current' # current,
         RememberTimestamps, undisturbed'
  PROVE  \A x \in Dirs : IsSettled(x)'
<1> SUFFICES ASSUME NEW x \in Dirs
             PROVE  IsSettled(x)'
  OBVIOUS
<1>1. /\ TypeOK /\ Proceed(c) /\ UNCHANGED packet_ts
      /\ current = None /\ current' \in Elements
      /\ mem' = [mem EXCEPT ![current'] = [y \in Dirs |->
           IF y = Fw(c)
             THEN init_flowstate(EmptyState, handler[c].pkt, handler[c].time)
             ELSE EmptyState]]
  BY DEF CountInv, Proceed, create_dualflow_state
<1>2. mem'[current'][x].outstanding_timestamps = 0
  <2>1. mem'[current'][x] \in
          {init_flowstate(EmptyState, handler[c].pkt, handler[c].time), EmptyState}
    BY <1>1 DEF TypeOK
  <2>2. EmptyState \in FlowState /\ EmptyState.outstanding_timestamps = 0
    BY EmptyStateType DEF EmptyState
  <2> QED
    BY <2>1, <2>2 DEF init_flowstate, FlowState
<1>3. NobodyHolds /\ left'[x] = Size(x)
  BY <1>1, PPingAssumption DEF RememberTimestamps, Size
<1>4. Size(x)' = Size(x) /\ Size(x) \in Nat
  BY <1>1, SizeIsNat DEF Size, Stored
<1>5. Pending(x)' = 0
  <2>1. /\ \A y \in CPUs : handler'[y].at \notin Holding
        /\ cleaner'.at \notin {"tsdelete", "tsuncount"}
    BY <1>1, <1>3, CreateHolds
  <2>2. ToCount(x)' = {} /\ ToUncount(x)' = {}
    BY <2>1 DEF ToCount, ToUncount, At, Holding, Labels
  <2>3. CleanerPending(x)' = 0
    BY <2>1 DEF CleanerPending, CleanerUncounts
  <2> QED
    BY <2>2, <2>3, FS_EmptySet DEF Pending
<1>6. Balance(x)' = 0
  BY <1>3, <1>4, <1>5 DEF Balance
<1>7. 0 % CtrMod = 0
  BY PPingAssumption
<1> QED
  BY <1>2, <1>6, <1>7 DEF IsSettled

LEMMA ProceedCounts ==
  ASSUME CountInv, NEW c \in CPUs, Proceed(c), RememberTimestamps
  PROVE  CountInv'
<1>1. TypeOK' /\ IdsAreThere' /\ left' \in [Dirs -> Nat] /\ PointersAreToFlow'
  BY ProceedType, ProceedKeepsIds, LeftType, ProceedPointers DEF CountInv
<1>2. Exact'
  <2> SUFFICES ASSUME current' # None, undisturbed', NEW x \in Dirs
               PROVE  IsSettled(x)'
    BY DEF Exact
  <2>1. CASE current' # current
    BY <2>1, FlowOfStep, CreateCounts DEF CountInv
  <2>2. CASE current' = current
    <3>1. UNCHANGED left /\ undisturbed
      BY <2>2 DEF RememberTimestamps
    <3>2. handler[c].at \in Holding => handler[c].elem = current
      BY <2>2, <3>1 DEF CountInv, PointersAreToFlow
    <3>3. Balance(x)' = Balance(x) + Shift(c, x) /\ Shift(c, x) \in {-1, 0, 1}
      BY <3>1, BalanceOfStep DEF CountInv, Shift
    <3>4. mem'[current][x].outstanding_timestamps =
            CASE Shift(c, x) = 1 ->
                   Incremented(mem[current][x]).outstanding_timestamps
              [] Shift(c, x) = -1 ->
                   Decremented(mem[current][x]).outstanding_timestamps
              [] Shift(c, x) = 0 -> mem[current][x].outstanding_timestamps
      BY <2>2, <3>2, StoresOfStep DEF CountInv
    <3> QED
      BY <2>2, <3>1, <3>3, <3>4, SettledStep
  <2> QED
    BY <2>1, <2>2
<1> QED
  BY <1>1, <1>2 DEF CountInv

-----------------------------------------------------------------------------
(* The steps of the cleaner and of the clock. *)

(* Steps that neither move a handler nor change what is counted. *)
LEMMA CalmStep ==
  ASSUME CountInv, RememberTimestamps, current' \in {current, None},
         \A d \in Dirs : Stored(d)' = Stored(d),
         \A x \in CPUs : /\ handler'[x].at = handler[x].at
                         /\ handler[x].at \in Labels =>
                              /\ handler'[x].dir = handler[x].dir
                              /\ handler'[x].elem = handler[x].elem,
         \A d \in Dirs : CleanerUncounts(d)' <=> CleanerUncounts(d),
         cleaner'.at \in {"tsdelete", "tsuncount"} =>
           \/ cleaner'.elem = current
           \/ UNCHANGED cleaner,
         \A d \in Dirs : current' # None =>
           mem'[current][d].outstanding_timestamps =
             mem[current][d].outstanding_timestamps
  PROVE  left' \in [Dirs -> Nat] /\ PointersAreToFlow' /\ Exact'
<1>1. left' \in [Dirs -> Nat]
  BY LeftType DEF CountInv
<1>2. current' # None => UNCHANGED <<current, left, undisturbed>>
  BY DEF RememberTimestamps
<1>3. PointersAreToFlow'
  BY <1>2 DEF CountInv, PointersAreToFlow, Holding
<1>4. Exact'
  <2> SUFFICES ASSUME current' # None, undisturbed', NEW x \in Dirs
               PROVE  IsSettled(x)'
    BY DEF Exact
  <2>1. Pending(x)' - CleanerPending(x)' = Pending(x) - CleanerPending(x)
    <3>1. \A y \in CPUs : /\ At(y, "count")' /\ Fw(y)' = x
                               <=> At(y, "count") /\ Fw(y) = x
                          /\ At(y, "uncount")' /\ Rev(y)' = x
                               <=> At(y, "uncount") /\ Rev(y) = x
      BY DEF At, Fw, Rev, Labels
    <3> QED
      BY <3>1, PendingStays
  <2>2. CleanerPending(x)' = CleanerPending(x) /\ CleanerPending(x) \in Int
    BY DEF CleanerPending
  <2>3. Size(x)' = Size(x)
    BY DEF Size
  <2>4. Balance(x)' = Balance(x) + 0
    <3>1. Pending(x) \in Int /\ Pending(x)' \in Int
      BY PendingIsInt
    <3>2. Pending(x)' = Pending(x)
      BY <2>1, <2>2, <3>1
    <3>3. Balance(x)' = Balance(x)
      BY <1>2, <2>3, <3>2 DEF Balance
    <3> QED
      BY <3>3, BalanceIsInt DEF CountInv
  <2>5. mem'[current][x].outstanding_timestamps =
          mem[current][x].outstanding_timestamps
    OBVIOUS
  <2>6. UNCHANGED <<current, left>> /\ current # None /\ undisturbed
    BY <1>2
  <2> DEFINE k == 0
  <2>7. /\ k \in {-1, 0, 1} /\ Balance(x)' = Balance(x) + k
        /\ mem'[current][x].outstanding_timestamps =
             CASE k = 1 -> Incremented(mem[current][x]).outstanding_timestamps
               [] k = -1 -> Decremented(mem[current][x]).outstanding_timestamps
               [] k = 0 -> mem[current][x].outstanding_timestamps
    BY <2>4, <2>5
  <2> HIDE DEF k
  <2> QED
    BY <2>6, <2>7, SettledStep
<1> QED
  BY <1>1, <1>3, <1>4

LEMMA ArriveCounts ==
  ASSUME CountInv, NEW c \in CPUs, NEW d \in Dirs, NEW p \in Packets,
         Arrive(c, d, p), RememberTimestamps
  PROVE  CountInv'
<1>1. TypeOK' /\ IdsAreThere'
  BY ArriveType, ArriveKeepsIds DEF CountInv
<1>2. /\ UNCHANGED <<current, mem, packet_ts, cleaner, left, undisturbed>>
      /\ handler[c].at = "idle" /\ handler'[c].at = "lookup"
      /\ \A x \in CPUs \ {c} : handler'[x] = handler[x]
  BY DEF Arrive, At, CountInv, TypeOK, RememberTimestamps
<1>3. PointersAreToFlow'
  BY <1>2 DEF CountInv, PointersAreToFlow, Holding
<1>4. ASSUME NEW x \in Dirs
      PROVE  Balance(x)' = Balance(x)
  <2>1. \A y \in CPUs : /\ At(y, "count")' /\ Fw(y)' = x
                             <=> At(y, "count") /\ Fw(y) = x
                        /\ At(y, "uncount")' /\ Rev(y)' = x
                             <=> At(y, "uncount") /\ Rev(y) = x
    <3>1. /\ ~ At(c, "count") /\ ~ At(c, "uncount")
          /\ ~ At(c, "count")' /\ ~ At(c, "uncount")'
      BY <1>2 DEF At
    <3> QED
      BY <1>2, <3>1 DEF At, Fw, Rev
  <2>2. Pending(x)' - CleanerPending(x)' = Pending(x) - CleanerPending(x)
    BY <2>1, PendingStays
  <2>3. CleanerPending(x)' = CleanerPending(x)
    BY <1>2 DEF CleanerPending, CleanerUncounts
  <2>4. Pending(x)' = Pending(x)
    BY <2>2, <2>3, PendingIsInt
  <2> QED
    BY <1>2, <2>4 DEF Balance, Size, Stored
<1>5. Exact'
  BY <1>2, <1>4 DEF CountInv, Exact, IsSettled
<1> QED
  BY <1>1, <1>2, <1>3, <1>5 DEF CountInv

LEMMA TickCounts ==
  ASSUME CountInv, Tick, RememberTimestamps
  PROVE  CountInv'
<1>1. TypeOK' /\ IdsAreThere'
  BY TickType, NextKeepsIds DEF CountInv, Next
<1>2. UNCHANGED <<current, cleaner>> /\ TypeOK
  BY DEF Tick, CountInv
<1>3. \A d \in Dirs : Stored(d)' = Stored(d)
  BY OlderType DEF Tick, Stored, CountInv, TypeOK
<1>4. \A x \in CPUs : /\ handler'[x].at = handler[x].at
                      /\ handler[x].at \in Labels =>
                           /\ handler'[x].dir = handler[x].dir
                           /\ handler'[x].elem = handler[x].elem
  <2>1. \A x \in CPUs : handler[x].at \in Labels => handler[x] # Idle
    BY DEF Labels, Idle
  <2> QED
    BY <1>2, <2>1, TickMoves
<1>5. \A d \in Dirs : CleanerUncounts(d)' <=> CleanerUncounts(d)
  BY <1>2 DEF CleanerUncounts
<1>6. ASSUME NEW d \in Dirs, current' # None
      PROVE  mem'[current][d].outstanding_timestamps =
               mem[current][d].outstanding_timestamps
  <2>1. current \in Elements /\ mem[current][d] \in FlowState
    BY <1>2, <1>6 DEF TypeOK
  <2>2. mem'[current][d] =
          IF mem[current][d].conn_state = "EMPTY" THEN mem[current][d]
          ELSE [mem[current][d] EXCEPT !.last_timestamp = Older(@)]
    BY <2>1 DEF Tick
  <2> QED
    BY <2>1, <2>2 DEF FlowState
<1>7. left' \in [Dirs -> Nat] /\ PointersAreToFlow' /\ Exact'
  BY <1>2, <1>3, <1>4, <1>5, <1>6, CalmStep
<1> QED
  BY <1>1, <1>7 DEF CountInv

(* The cleaner deletes a timestamp, and has yet to count that. *)
LEMMA TsDeleteCounts ==
  ASSUME CountInv, tsmap_delete, RememberTimestamps, current # None, undisturbed,
         NEW x \in Dirs
  PROVE  IsSettled(x)'
<1>1. /\ cleaner \in TsCleaner /\ cleaner.dir \in Dirs /\ cleaner.id \in Ids
      /\ cleaner.at = "tsdelete" /\ cleaner.elem # None /\ TypeOK
  BY CleanerType
     DEF tsmap_delete, CountInv, TypeOK, TsCleaner, PointersAreToFlow
<1>2. PICK d \in Dirs, i \in Ids : d = cleaner.dir /\ i = cleaner.id
  BY <1>1
<1> DEFINE there == packet_ts[d][i] # None
<1>3. /\ UNCHANGED <<current, mem, handler, left>>
      /\ packet_ts' = [packet_ts EXCEPT ![d][i] = None]
      /\ cleaner' = IF there THEN [cleaner EXCEPT !.at = "tsuncount"] ELSE Idle
  BY <1>1, <1>2 DEF tsmap_delete, RememberTimestamps
<1>4. /\ CleanerPending(x) = 0
      /\ CleanerPending(x)' = IF there /\ x = d THEN 1 ELSE 0
  <2>1. /\ [cleaner EXCEPT !.at = "tsuncount"].at = "tsuncount"
        /\ [cleaner EXCEPT !.at = "tsuncount"].dir = d
        /\ Idle.at = "idle"
    BY <1>1, <1>2 DEF TsCleaner, Idle
  <2> HIDE DEF there
  <2> QED
    BY <1>1, <1>3, <2>1 DEF CleanerPending, CleanerUncounts
<1>5. /\ Size(d)' = IF there THEN Size(d) - 1 ELSE Size(d)
      /\ Size(Other(d))' = Size(Other(d))
  BY <1>1, <1>3, OneTimestampLess
<1>6. Size(x)' = IF there /\ x = d THEN Size(x) - 1 ELSE Size(x)
  <2> HIDE DEF there
  <2>1. x = d \/ x = Other(d)
    BY DirsArePaired
  <2> QED
    BY <1>5, <2>1, DirsArePaired
<1>7. Pending(x)' - CleanerPending(x)' = Pending(x) - CleanerPending(x)
  BY <1>3, PendingStays DEF At, Fw, Rev
<1>8. Balance(x)' = Balance(x)
  <2> HIDE DEF there
  <2>1. /\ Pending(x) \in Int /\ Pending(x)' \in Int
        /\ Size(x) \in Int /\ Size(x)' \in Int /\ left[x] \in Int
        /\ left'[x] = left[x]
    BY <1>3, PendingIsInt, SizeIsNat DEF CountInv
  <2>2. Size(x)' + Pending(x)' = Size(x) + Pending(x)
    BY <1>4, <1>6, <1>7, <2>1
  <2>3. Balance(x)' = Size(x)' - left'[x] + Pending(x)'
    BY DEF Balance
  <2> QED
    BY <2>1, <2>2, <2>3 DEF Balance
<1> QED
  BY <1>3, <1>8 DEF CountInv, Exact, IsSettled

(* It counts that. *)
LEMMA TsUncountCounts ==
  ASSUME CountInv, tsmap_uncount, RememberTimestamps, current # None, undisturbed,
         NEW x \in Dirs
  PROVE  IsSettled(x)'
<1>1. /\ cleaner \in TsCleaner /\ cleaner.dir \in Dirs
      /\ cleaner.at = "tsuncount" /\ cleaner.elem = current /\ TypeOK
      /\ current \in Elements
  BY CleanerType
     DEF tsmap_uncount, CountInv, TypeOK, TsCleaner, PointersAreToFlow
<1>2. UNCHANGED <<current, packet_ts, handler, left>> /\ cleaner' = Idle
  BY DEF tsmap_uncount, RememberTimestamps
<1> DEFINE k == IF x = cleaner.dir THEN -1 ELSE 0
<1>3. CleanerPending(x)' = 0 /\ CleanerPending(x) = - k
  BY <1>1, <1>2 DEF CleanerPending, CleanerUncounts, Idle
<1>4. Pending(x)' - CleanerPending(x)' = Pending(x) - CleanerPending(x)
  BY <1>2, PendingStays DEF At, Fw, Rev
<1>5. Size(x)' = Size(x) /\ left'[x] = left[x]
  BY <1>2 DEF Size, Stored
<1>6. k \in {-1, 0, 1}
  OBVIOUS
<1>7. mem'[current][x].outstanding_timestamps =
        CASE k = 1 -> Incremented(mem[current][x]).outstanding_timestamps
          [] k = -1 -> Decremented(mem[current][x]).outstanding_timestamps
          [] k = 0 -> mem[current][x].outstanding_timestamps
  <2>1. mem'[current][x] =
          IF x = cleaner.dir THEN Decremented(mem[current][x]) ELSE mem[current][x]
    BY <1>1 DEF tsmap_uncount, TypeOK
  <2> QED
    BY <2>1
<1> HIDE DEF k
<1>8. Balance(x)' = Balance(x) + k
  <2>1. Pending(x) \in Int /\ Pending(x)' \in Int /\ Size(x) \in Int /\ left[x] \in Int
    BY PendingIsInt, SizeIsNat DEF CountInv
  <2>2. Pending(x)' = Pending(x) + k
    BY <1>3, <1>4, <1>6, <2>1
  <2>3. Balance(x)' = Size(x) - left[x] + Pending(x)'
    BY <1>5 DEF Balance
  <2> QED
    BY <1>6, <2>1, <2>2, <2>3 DEF Balance
<1> QED
  BY <1>2, <1>6, <1>7, <1>8, SettledStep

LEMMA CleanCounts ==
  ASSUME CountInv, Clean, RememberTimestamps
  PROVE  CountInv'
<1>1. TypeOK' /\ IdsAreThere' /\ left' \in [Dirs -> Nat] /\ TypeOK
  BY CleanType, NextKeepsIds, LeftType DEF CountInv, Next, Step
<1>2. UNCHANGED handler
  BY DEF Clean, tsmap_cleanup, tsmap_delete, tsmap_uncount, flowmap_cleanup,
     flowmap_delete
<1>3. current' \in {current, None}
  BY DEF Clean, tsmap_cleanup, tsmap_delete, tsmap_uncount, flowmap_cleanup,
     flowmap_delete
<1>4. current' # None => UNCHANGED <<current, left, undisturbed>>
  BY <1>3 DEF RememberTimestamps
<1>5. PointersAreToFlow'
  <2>1. current' # None /\ undisturbed' /\ cleaner'.at \in {"tsdelete", "tsuncount"}
          => cleaner'.elem = current
    <3> SUFFICES ASSUME current' # None, undisturbed',
                        cleaner'.at \in {"tsdelete", "tsuncount"}
                 PROVE  cleaner'.elem = current
      OBVIOUS
    <3>1. CASE \E d \in Dirs, i \in Ids : tsmap_cleanup(d, i)
      BY <3>1 DEF tsmap_cleanup
    <3>2. CASE tsmap_delete
      <4>1. cleaner \in TsCleaner /\ cleaner.elem = current
        BY <1>1, <1>4, <3>2, CleanerType
           DEF tsmap_delete, CountInv, TypeOK, PointersAreToFlow
      <4>2. cleaner' = [cleaner EXCEPT !.at = "tsuncount"]
        BY <3>2 DEF tsmap_delete, Idle
      <4> QED
        BY <4>1, <4>2 DEF TsCleaner
    <3>3. CASE tsmap_uncount \/ flowmap_cleanup \/ flowmap_delete
      <4>1. cleaner'.at \in {"idle", "flowdelete"}
        <5>1. CASE tsmap_uncount \/ flowmap_delete
          <6>1. cleaner' = Idle
            BY <5>1 DEF tsmap_uncount, flowmap_delete
          <6> QED
            BY <6>1 DEF Idle
        <5>2. CASE flowmap_cleanup
          BY <5>2 DEF flowmap_cleanup
        <5> QED
          BY <3>3, <5>1, <5>2
      <4> QED
        BY <4>1
    <3> QED
      BY <3>1, <3>2, <3>3 DEF Clean
  <2> QED
    BY <1>2, <1>4, <2>1 DEF CountInv, PointersAreToFlow
<1>6. Exact'
  <2> SUFFICES ASSUME current' # None, undisturbed', NEW x \in Dirs
               PROVE  IsSettled(x)'
    BY DEF Exact
  <2>1. CASE tsmap_delete
    BY <1>4, <2>1, TsDeleteCounts
  <2>2. CASE tsmap_uncount
    BY <1>4, <2>2, TsUncountCounts
  <2>3. CASE (\E d \in Dirs, i \in Ids : tsmap_cleanup(d, i)) \/ flowmap_cleanup
    <3>1. UNCHANGED <<mem, packet_ts>>
      BY <2>3 DEF tsmap_cleanup, flowmap_cleanup
    <3>2. CleanerPending(x) = 0 /\ CleanerPending(x)' = 0
      BY <2>3 DEF tsmap_cleanup, flowmap_cleanup, Idle, CleanerPending,
         CleanerUncounts
    <3>3. Pending(x)' - CleanerPending(x)' = Pending(x) - CleanerPending(x)
      BY <1>2, PendingStays DEF At, Fw, Rev
    <3>4. Pending(x)' = Pending(x)
      BY <3>2, <3>3, PendingIsInt
    <3>5. Balance(x)' = Balance(x)
      BY <1>4, <3>1, <3>4 DEF Balance, Size, Stored
    <3> QED
      BY <1>4, <3>1, <3>5 DEF CountInv, Exact, IsSettled
  <2>4. CASE flowmap_delete
    BY <2>4 DEF flowmap_delete
  <2> QED
    BY <2>1, <2>2, <2>3, <2>4 DEF Clean
<1> QED
  BY <1>1, <1>5, <1>6 DEF CountInv

LEMMA NextCounts == CountInv /\ [CountsNext]_countVars => CountInv'
<1>1. ASSUME CountInv, CountsNext
      PROVE  CountInv'
  <2>1. Next /\ RememberTimestamps
    BY <1>1 DEF CountsNext
  <2> QED
    BY <1>1, <2>1, ArriveCounts, ProceedCounts, CleanCounts, TickCounts
       DEF Next, Step
<1>2. ASSUME CountInv, UNCHANGED countVars
      PROVE  CountInv'
  <2>1. /\ UNCHANGED <<current, mem, packet_ts, handler, cleaner, reported>>
        /\ UNCHANGED <<left, undisturbed>>
    BY <1>2 DEF countVars, vars
  <2>2. \A d \in Dirs : Balance(d)' = Balance(d)
    BY <2>1 DEF Balance, Size, Stored, Pending, CleanerPending, CleanerUncounts,
       ToCount, ToUncount, At, Fw, Rev
  <2>3. Exact'
    BY <1>2, <2>1, <2>2 DEF CountInv, Exact, IsSettled
  <2> QED
    BY <1>2, <2>1, <2>3
       DEF CountInv, TypeOK, IdsAreThere, At, PointersAreToFlow
<1> QED
  BY <1>1, <1>2

LEMMA InitCounts == CountsInit => CountInv
<1> SUFFICES ASSUME CountsInit PROVE CountInv
  OBVIOUS
<1>1. TypeOK /\ current = None
  BY InitType DEF CountsInit, Init
<1>2. IdsAreThere
  BY DEF CountsInit, Init, IdsAreThere, At, Idle
<1> QED
  BY <1>1, <1>2 DEF CountsInit, CountInv, Exact, PointersAreToFlow

(***************************************************************************)
(* However many programs and the cleaner overlap, and however the counter  *)
(* wraps around: while nobody has a pointer into an older flow,            *)
(* outstanding_timestamps is the number of timestamps of the direction     *)
(* since the flow was created, up to the steps that are under way.         *)
(***************************************************************************)
THEOREM CountersAreExact == CountsSpec => []OutstandingIsExact
<1>1. CountInv => OutstandingIsExact
  <2> SUFFICES ASSUME CountInv, current # None, undisturbed, NEW d \in Dirs
               PROVE  mem[current][d].outstanding_timestamps =
                        ( Cardinality(Stored(d)) - left[d]
                          + Cardinality(ToUncount(d))
                          + (IF CleanerUncounts(d) THEN 1 ELSE 0)
                          - Cardinality(ToCount(d)) ) % CtrMod
    BY DEF OutstandingIsExact
  <2>1. mem[current][d].outstanding_timestamps = Balance(d) % CtrMod
    BY DEF CountInv, Exact, IsSettled
  <2> DEFINE a == Cardinality(Stored(d))
             b == left[d]
             u == Cardinality(ToUncount(d))
             p == IF CleanerUncounts(d) THEN 1 ELSE 0
             o == Cardinality(ToCount(d))
  <2>2. a \in Int /\ b \in Int /\ u \in Int /\ p \in Int /\ o \in Int
    BY SizeIsNat, PendingIsInt DEF CountInv, Size
  <2>3. Balance(d) = a - b + (u + p - o)
    BY DEF Balance, Size, Pending, CleanerPending
  <2> HIDE DEF a, b, u, p, o
  <2>4. a - b + (u + p - o) = a - b + u + p - o
    BY <2>2
  <2>5. mem[current][d].outstanding_timestamps = (a - b + u + p - o) % CtrMod
    BY <2>1, <2>3, <2>4
  <2> QED
    BY <2>5 DEF a, b, u, p, o
<1> QED
  BY <1>1, InitCounts, NextCounts, PTL DEF CountsSpec
=============================================================================
