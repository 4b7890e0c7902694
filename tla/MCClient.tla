------------------------------- MODULE MCClient -------------------------------
(* Instances of Client, and of the detector, for TLC *)
EXTENDS Client

Short == INSTANCE Detector WITH BACKOFF <- 3
Real == INSTANCE Detector WITH BACKOFF <- 4000

AtStart == main = "setup" /\ step = 1 /\ now = 0

(* Reports are BACKOFF apart, and miss nothing in between, wherever the     *)
(* blocks of samples begin and end.                                         *)
ReportsOncePerBackoff == AtStart => Short!OncePerBackoff(8)

(* With the constants of the code, a noise that goes on is reported once:   *)
(* the average has caught up with it before the back-off is over.           *)
LastingNoiseReportedOnce ==
    AtStart => \A v0 \in {0, 1, 60, 171, 175}, v \in {0, 80, 81, 140, 141, 251, 252, 255} :
                  Real!ReportedOnce(v0, v)
===============================================================================
