------------------------------- MODULE Detector -------------------------------
(***************************************************************************)
(* The noise detector (client/audio.c): a boom is reported when the level  *)
(* of a sample exceeds the running average by more than a threshold, and   *)
(* then nothing for BACKOFF samples.                                       *)
(*                                                                         *)
(* A level is what logtab holds, a byte; that of the indices 0 (log of 0)  *)
(* and 8192 (past the end of the table) can be any.  The running average   *)
(* is kept in units of 1/SCALE, which stands for the code's double.        *)
(*                                                                         *)
(* A definition whose name starts with Mut is the one that follows it with *)
(* a bug in it; the specification does not use them.                       *)
(***************************************************************************)
EXTENDS Integers

CONSTANT BACKOFF    \* samples from one report to the next

ASSUME DetectorAssumption == BACKOFF \in Nat \ {0}

SCALE == 2^20
Levels == 0 .. 255
THRESHOLD == 80

(* vavg = vavg * 0.999 + v * 0.001 *)
MutAverage(vavg, v) == v * SCALE
Average(vavg, v) == vavg + (v * SCALE - vavg) \div 1000

Exceeds(vavg, v) == v * SCALE - vavg > THRESHOLD * SCALE

MutCountedDown(backoff) == IF backoff > 1 THEN backoff - 2 ELSE 0
CountedDown(backoff) == IF backoff > 0 THEN backoff - 1 ELSE 0

(* backoff at the end of an iteration: it is counted down in every one, the *)
(* one that has just set it included.                                       *)
MutNextBackoff(backoff, boom) == IF boom THEN BACKOFF ELSE CountedDown(backoff)
NextBackoff(backoff, boom) == CountedDown(IF boom THEN BACKOFF ELSE backoff)

MutReports(backoff, loud) == loud
Reports(backoff, loud) == backoff = 0 /\ loud

(* audio_handle over a block of samples, of which those in louds exceed the *)
(* average: the new backoff, and the samples that were reported             *)
Handled(backoff, samples, louds) ==
    LET at[i \in 0 .. samples] ==
            IF i = 0 THEN [backoff |-> backoff, booms |-> {}]
            ELSE LET boom == Reports(at[i - 1].backoff, i \in louds)
                 IN  [backoff |-> NextBackoff(at[i - 1].backoff, boom),
                      booms |-> at[i - 1].booms \cup {j \in {i} : boom}]
    IN  at[samples]

(* audio_handle over n samples of one level, halving n.  booms counts the  *)
(* reports.                                                                 *)
Ear == [vavg : Nat, backoff : Nat, booms : Nat, v : Levels]
Heard(e) ==
    LET vavg == Average(e.vavg, e.v)
        boom == Reports(e.backoff, Exceeds(vavg, e.v))
    IN  [vavg |-> vavg, v |-> e.v,
         backoff |-> NextBackoff(e.backoff, boom),
         booms |-> IF boom THEN e.booms + 1 ELSE e.booms]
Listen[n \in Nat] ==
    [e \in Ear |-> IF n = 0 THEN e
                   ELSE IF n = 1 THEN Heard(e)
                   ELSE Listen[n - n \div 2][Listen[n \div 2][e]]]

-----------------------------------------------------------------------------
(* What the detector is for *)

(* The samples that are reported when n samples come in two blocks *)
Reported(n, k, louds) ==
    LET one == Handled(0, k, louds)
        two == Handled(one.backoff, n - k, {i - k : i \in {j \in louds : j > k}})
    IN  one.booms \cup {i + k : i \in two.booms}

(* Only loud samples are reported, no two within BACKOFF of each other, and *)
(* every loud sample is, or comes within BACKOFF of one that was.           *)
OncePerBackoff(n) ==
    \A louds \in SUBSET (1 .. n), k \in 0 .. n :
        LET booms == Reported(n, k, louds)
        IN  /\ booms \subseteq louds
            /\ \A i, j \in booms : i < j => j - i >= BACKOFF
            /\ \A i \in louds : \E b \in booms : b <= i /\ i < b + BACKOFF

(* A lasting change from level v0 to level v is reported once if it exceeds *)
(* the threshold, and never otherwise.                                      *)
ReportedOnce(v0, v) ==
    Listen[2 * BACKOFF][[vavg |-> v0 * SCALE, backoff |-> 0, booms |-> 0, v |-> v]].booms =
        IF v - v0 > THRESHOLD THEN 1 ELSE 0
===============================================================================
