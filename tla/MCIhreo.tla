------------------------------- MODULE MCIhreo ------------------------------
(***************************************************************************)
(* Instances of Ihreo for TLC.  Times run from 0 to the bound a run gives; *)
(* every packet a kretprobe sees advances the clock, so the bound also     *)
(* limits how many packets there are.                                      *)
(***************************************************************************)
EXTENDS Ihreo, TLC

TimesUpTo4 == 0 .. 4
TimesUpTo5 == 0 .. 5

Symmetric == Permutations(CPUs) \union Permutations(Slots)
=============================================================================
