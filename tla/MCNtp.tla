--------------------------------- MODULE MCNtp ---------------------------------
(* Instances of Ntp for TLC *)
EXTENDS Ntp

(* How far the client's clock is off: a step goes over a timer interval *)
MCSkews == {-5, 0}
===============================================================================
