------------------------------ MODULE MCActivity ------------------------------
(* Instances of Activity for TLC, and the codec of its messages *)
EXTENDS Activity, NtpMessage

(* How far the clock of the device is off *)
MCSkews == {-2, 0}

MCFollowed == {{"audio"}, {"ntp"}}
MCNtpOnly == {{"ntp"}}

(* The codec has no state: what it promises is looked at in one state *)
AtStart == ui = "created" /\ starts = 0 /\ sock = "open" /\ followed = {"ntp"}
           /\ skew = 0 /\ now = 0 /\ steps = 0

(* A message in which every field has a value of its own *)
Sample ==
    [leapIndicator |-> 2, version |-> 4, mode |-> 5, stratum |-> BASE - 1,
     pollInterval |-> Byte(1), precision |-> Byte(BASE - 1),
     rootDelay |-> -Power[2] - 1, rootDispersion |-> Power[4] - 2,
     referenceIdentifier |-> [j \in 0 .. 3 |-> Byte(j)],
     referenceTimestamp |-> Power[8] - 2, originateTimestamp |-> Power[7] + 5,
     receiveTimestamp |-> Power[4] - 1, transmitTimestamp |-> Power[4] + 3]

(* Two neighbouring bytes of a timestamp take all values, the others are    *)
(* all zeros or all ones                                                    *)
MCTimestamps ==
    UNION {{(hi * Power[2] + x) * Power[k] + lo :
               hi \in {0, Power[6 - k] - 1}, x \in 0 .. Power[2] - 1,
               lo \in {0, Power[k] - 1}} : k \in 0 .. 6}

(* A message comes back from its bytes: all four timestamps up to 2036, the *)
(* delays of either sign, the flags with the sign bit of byte 0.  The lowest *)
(* bytes of the timestamps, which RFC 2030 wants to be noise, and that of    *)
(* the root delay are left to EncodesTimestamps.                             *)
MessagesSurvive ==
    AtStart =>
        /\ \A t \in MCTimestamps :
              Survives([Sample EXCEPT !.referenceTimestamp = t,
                                      !.originateTimestamp = Power[8] - 1 - t,
                                      !.receiveTimestamp = t \div BASE,
                                      !.transmitTimestamp = (t * BASE) % Power[8]])
        /\ \A d \in Delays : Survives([Sample EXCEPT !.rootDelay = d])
        /\ \A d \in Dispersions : Survives([Sample EXCEPT !.rootDispersion = d])
        /\ \A l \in 0 .. 3, v \in 0 .. 7, m \in 0 .. 7 :
              Survives([Sample EXCEPT !.leapIndicator = l, !.version = v, !.mode = m])

(* "Converts a double into a 64-bit fixed point", "fill the non-significant *)
(* low order bits of the timestamp with a random, unbiased bitstring"        *)
(* (NtpMessage.java:380, 394): a request carries its time modulo 2^64 units, *)
(* so that it is right when the seconds wrap around in 2036, and up to its   *)
(* lowest byte; and no other field is touched.                               *)
EncodesTimestamps ==
    AtStart => \A t \in MCTimestamps, era \in {0, Power[8]}, noise \in Noises :
                  /\ Sent(era + t, noise) \div BASE = t \div BASE
                  /\ Decoded(ToByteArray(Request(era + t), noise)).rootDelay = 0
===============================================================================
