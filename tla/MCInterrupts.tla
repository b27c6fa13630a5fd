----------------------------- MODULE MCInterrupts -----------------------------
(* Interrupts with two tasks, timer, keyboard and a line of the second       *)
(* controller, for TLC.                                                      *)
EXTENDS Interrupts, TLC
Symmetry == Permutations(Tasks)
===============================================================================
