------------------------------ MODULE MCMainloop ------------------------------
(* Instances of Mainloop for TLC *)
EXTENDS Mainloop, TLC

CONSTANTS c1, c2, none

CbSymmetry == Permutations({c1, c2})

(* A program that has signal handlers or timers registered, never both, and  *)
(* no signal handlers once the clock was set back.  This holds back calls of *)
(* the program and the clock only, of which FairSpec assumes no fairness:    *)
(* the loop by itself only reschedules a timer where there are timers.       *)
Separate == sigs = <<>> \/ (timers = <<>> /\ setbacks = 0)
StaysSeparate == Separate'
===============================================================================
