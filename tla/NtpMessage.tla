------------------------------ MODULE NtpMessage ------------------------------
(***************************************************************************)
(* The codec of NTP messages of the Android application                    *)
(* (android/src/com/zevv/fwloc/NtpMessage.java), which the activity uses   *)
(* for its requests and for the responses of the server.                   *)
(*                                                                         *)
(* A byte has BASE values; it is 256 in the code, and smaller for TLC, so  *)
(* that all timestamps can be tried.  Numbers with a fraction are integers *)
(* in units of their lowest byte: timestamps of BASE^-4 seconds, root      *)
(* delay and dispersion of BASE^-2.  The code holds them as doubles, whose *)
(* 53 bits are exact for what the code encodes and round what it decodes   *)
(* to the half of a microsecond; the rounding is left out.                 *)
(***************************************************************************)
EXTENDS Integers

CONSTANT BASE

ASSUME CodecAssumption == BASE \in Nat /\ BASE >= 4 /\ BASE % 2 = 0

(* BASE to the k *)
Power[k \in 0 .. 8] == IF k = 0 THEN 1 ELSE BASE * Power[k - 1]

Timestamps == 0 .. Power[8] - 1
Delays == -(Power[4] \div 2) .. Power[4] \div 2 - 1
Dispersions == 0 .. Power[4] - 1

(* A byte is signed: a number is cut down to the n values around 0 *)
Signed(x, n) == ((x + n \div 2) % n) - n \div 2
Byte(x) == Signed(x, BASE)

MutUnsignedByteToShort(b) == b
UnsignedByteToShort(b) == IF b < 0 THEN b + BASE ELSE b

(* A double that becomes a byte is an int in between: one too large is the  *)
(* largest int, of 4 bytes.                                                 *)
ToInt(x) == IF x >= Power[4] \div 2 THEN Power[4] \div 2 - 1 ELSE x

DecodeTimestamp(array, pointer) ==
    LET r[i \in 0 .. 8] ==
            IF i = 0 THEN 0
            ELSE r[i - 1] + UnsignedByteToShort(array[pointer + i - 1]) * Power[8 - i]
    IN  r[8]

(* Byte i of what is left of a timestamp, and what each byte leaves *)
Captured(x, i) == Byte(ToInt(x \div Power[7 - i]))
Left(timestamp) ==
    LET left[i \in 0 .. 8] ==
            IF i = 0 THEN timestamp
            ELSE left[i - 1] - UnsignedByteToShort(Captured(left[i - 1], i - 1)) * Power[8 - i]
    IN  left

(* The noise goes to byte 7 of the message, not of the timestamp. *)
EncodeTimestamp(array, pointer, timestamp, noise) ==
    LET left == Left(timestamp)
    IN  [j \in 0 .. 47 |-> IF j = 7 THEN noise
                           ELSE IF j \in pointer .. pointer + 7
                                THEN Captured(left[j - pointer], j - pointer)
                                ELSE array[j]]

(* Byte 0 holds fields of 2, 3 and 3 bits, whatever BASE is *)
EncodeFlags(m) == Signed(m.leapIndicator * 64 + m.version * 8 + m.mode, 256)
DecodeFlags(b) == [leapIndicator |-> (b \div 64) % 4, version |-> (b \div 8) % 8, mode |-> b % 8]

Shifted(x, k) == Byte(x \div Power[3 - k])
ToByteArray(m, noise) ==
    LET p == [j \in 0 .. 47 |->
                  CASE j = 0 -> EncodeFlags(m)
                    [] j = 1 -> Byte(m.stratum)
                    [] j = 2 -> m.pollInterval
                    [] j = 3 -> m.precision
                    [] j \in 4 .. 7 -> Shifted(m.rootDelay, j - 4)
                    [] j \in 8 .. 11 -> Shifted(m.rootDispersion, j - 8)
                    [] j \in 12 .. 15 -> m.referenceIdentifier[j - 12]
                    [] OTHER -> 0]
        p16 == EncodeTimestamp(p, 16, m.referenceTimestamp, noise)
        p24 == EncodeTimestamp(p16, 24, m.originateTimestamp, noise)
        p32 == EncodeTimestamp(p24, 32, m.receiveTimestamp, noise)
    IN  EncodeTimestamp(p32, 40, m.transmitTimestamp, noise)

(* The constructor from an array: root delay is signed, dispersion is not *)
Decoded(array) ==
    LET U(j) == UnsignedByteToShort(array[j])
        flags == DecodeFlags(array[0])
    IN  [leapIndicator |-> flags.leapIndicator, version |-> flags.version, mode |-> flags.mode,
         stratum |-> U(1), pollInterval |-> array[2], precision |-> array[3],
         rootDelay |-> array[4] * Power[3] + U(5) * Power[2] + U(6) * BASE + U(7),
         rootDispersion |-> U(8) * Power[3] + U(9) * Power[2] + U(10) * BASE + U(11),
         referenceIdentifier |-> [j \in 0 .. 3 |-> array[12 + j]],
         referenceTimestamp |-> DecodeTimestamp(array, 16),
         originateTimestamp |-> DecodeTimestamp(array, 24),
         receiveTimestamp |-> DecodeTimestamp(array, 32),
         transmitTimestamp |-> DecodeTimestamp(array, 40)]

(* The request that the application sends at the time t: mode 3, version 3  *)
Request(t) ==
    [leapIndicator |-> 0, version |-> 3, mode |-> 3, stratum |-> 0, pollInterval |-> 0,
     precision |-> 0, rootDelay |-> 0, rootDispersion |-> 0,
     referenceIdentifier |-> [j \in 0 .. 3 |-> 0],
     referenceTimestamp |-> 0, originateTimestamp |-> 0, receiveTimestamp |-> 0,
     transmitTimestamp |-> t]

-----------------------------------------------------------------------------
(* What is left of a message and of a time *)

Noises == {Byte(0), Byte(BASE - 1)}

(* A message without the lowest bytes of its timestamps, which are of no    *)
(* significance, and of its root delay                                      *)
Coarse(m) ==
    [m EXCEPT !.rootDelay = @ \div BASE,
              !.referenceTimestamp = @ \div BASE, !.originateTimestamp = @ \div BASE,
              !.receiveTimestamp = @ \div BASE, !.transmitTimestamp = @ \div BASE]

Survives(m) == \A noise \in Noises : Coarse(Decoded(ToByteArray(m, noise))) = Coarse(m)

(* The time that the request of the time t carries *)
Sent(t, noise) == Decoded(ToByteArray(Request(t), noise)).transmitTimestamp
===============================================================================
