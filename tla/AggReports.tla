------------------------------ MODULE AggReports ----------------------------
(***************************************************************************)
(* What aggregation promises, with no CPUs, no maps and no batches: RTTs   *)
(* are entered in one of two books under a prefix; the books take turns;   *)
(* once the older one is closed its numbers are printed, each exactly once *)
(* and as it stands, before that book is opened again.                     *)
(***************************************************************************)
EXTENDS Integers

CONSTANT Keys     (* the prefixes that RTTs are aggregated by *)

VARIABLES
  book,       (* the number of RTTs not printed yet, for each book and prefix *)
  current,    (* the book in which new packets are entered *)
  closing,    (* whether packets under way may still use the older one *)
  lines       (* what the current report has printed *)

vars == <<book, current, closing, lines>>

Nothing == [k \in Keys |-> 0]

Init ==
  /\ book = [m \in {0, 1} |-> Nothing]
  /\ current = 0
  /\ closing = FALSE
  /\ lines = Nothing

Measure(m, k) ==
  /\ m = current \/ closing
  /\ UNCHANGED <<current, closing, lines>>
  /\ book' = [book EXCEPT ![m][k] = @ + 1]

(* The next book is opened only if all of it has been printed. *)
Turn ==
  /\ ~ closing
  /\ book[1 - current] = Nothing
  /\ current' = 1 - current
  /\ closing' = TRUE
  /\ lines' = Nothing
  /\ UNCHANGED book

Close ==
  /\ closing
  /\ closing' = FALSE
  /\ UNCHANGED <<book, current, lines>>

Publish(K) ==
  LET older == 1 - current IN
  /\ ~ closing
  /\ UNCHANGED <<current, closing>>
  /\ lines' = [k \in Keys |-> IF k \in K THEN book[older][k] ELSE lines[k]]
  /\ book' = [book EXCEPT ![older] =
       [k \in Keys |-> IF k \in K THEN 0 ELSE @[k]]]

Next ==
  \/ \E m \in {0, 1}, k \in Keys : Measure(m, k)
  \/ Turn
  \/ Close
  \/ \E K \in SUBSET Keys : Publish(K)

Spec == Init /\ [][Next]_vars
=============================================================================
