------------------------------ MODULE CodecProofs ------------------------------
(***************************************************************************)
(* Proofs about the codec of NTP messages, for every message and every     *)
(* size of a byte.  The bytes of a timestamp are its digits: what encoding *)
(* leaves of it after each byte telescopes to what decoding adds up.       *)
(***************************************************************************)
EXTENDS MCActivity, Induction

(* Division *)
LEMMA Division ==
    ASSUME NEW b \in Nat \ {0}, NEW x \in Int
    PROVE  /\ x \div b \in Int /\ x % b \in 0 .. b - 1
           /\ x = b * (x \div b) + (x % b)
  <1>1. x \div b \in Int /\ x % b \in 0 .. b - 1
    OBVIOUS
  <1> DEFINE p == b * (x \div b)
             r == x % b
  <1>2. x - p = r
    BY SMTT(60)
  <1>3. p \in Int /\ r \in Int
    BY <1>1
  <1> HIDE DEF p, r
  <1>4. x = p + r
    BY <1>2, <1>3
  <1>5. p = b * (x \div b) /\ r = x % b
    BY DEF p, r
  <1>6. x = b * (x \div b) + (x % b)
    BY <1>4, <1>5, Zenon
  <1> QED
    BY <1>1, <1>6, Zenon

LEMMA Multiples ==
    ASSUME NEW b \in Nat \ {0}, NEW p \in Int, NEW q \in Int, p < q
    PROVE  b * p + b <= b * q
  <1>1. PICK d \in Nat : q = p + 1 + d
    <2>1. q - p - 1 \in Nat /\ q = p + 1 + (q - p - 1)
      OBVIOUS
    <2> QED
      BY <2>1
  <1>2. b * q = b * p + b + b * d
    BY <1>1
  <1>3. b * d >= 0 /\ b * d \in Int /\ b * p \in Int
    OBVIOUS
  <1> QED
    BY <1>2, <1>3

LEMMA Quotient ==
    ASSUME NEW b \in Nat \ {0}, NEW q \in Int, NEW r \in 0 .. b - 1, NEW x \in Int,
           x = b * q + r
    PROVE  x \div b = q /\ x % b = r
  <1>1. /\ x \div b \in Int /\ x % b \in 0 .. b - 1
        /\ x = b * (x \div b) + (x % b)
    BY Division
  <1> DEFINE p == x \div b
             m == x % b
  <1>2. p \in Int /\ m \in 0 .. b - 1 /\ b * p + m = b * q + r
    BY <1>1
  <1> HIDE DEF p, m
  <1>3. b * p \in Int /\ b * q \in Int
    BY <1>2
  <1>4. ~(p < q)
    BY <1>2, <1>3, Multiples
  <1>5. ~(q < p)
    BY <1>2, <1>3, Multiples
  <1>6. p = q /\ m = r
    BY <1>2, <1>3, <1>4, <1>5
  <1> QED
    BY <1>6 DEF p, m

LEMMA Quotients ==
    ASSUME NEW b \in Nat \ {0}
    PROVE  \A q, x \in Int : \A r \in 0 .. b - 1 :
              x = b * q + r => x \div b = q /\ x % b = r
  BY Quotient

(* Dividing twice *)
LEMMA Divisions ==
    ASSUME NEW b \in Nat \ {0}, NEW w \in Nat \ {0}, NEW x \in Int
    PROVE  b * w \in Nat \ {0} /\ x \div (b * w) = (x \div w) \div b
  <1> DEFINE y == x \div w
             r == x % w
             z == y \div b
             s == y % b
  <1>1. y \in Int /\ r \in 0 .. w - 1 /\ x = w * y + r
    BY Division
  <1> HIDE DEF y, r
  <1>2. z \in Int /\ s \in 0 .. b - 1 /\ y = b * z + s
    BY <1>1, Division
  <1> HIDE DEF z, s
  <1>3. b * w \in Nat \ {0}
    OBVIOUS
  <1>4. x = (b * w) * z + (w * s + r)
    BY <1>1, <1>2
  <1>5. w * s + r \in 0 .. b * w - 1
    <2>1. w * s \in Nat
      BY <1>2
    <2>2. w * s + w <= w * b
      BY <1>2, Multiples
    <2>3. w * b = b * w
      OBVIOUS
    <2> QED
      BY <1>1, <1>3, <2>1, <2>2, <2>3
  <1>6. x \div (b * w) = z
    BY <1>2, <1>3, <1>4, <1>5, Quotient
  <1> QED
    BY <1>3, <1>6 DEF z, y

-----------------------------------------------------------------------------
(* Bytes *)

LEMMA Base ==
    /\ BASE \in Nat \ {0} /\ BASE >= 4
    /\ BASE \div 2 \in Nat \ {0} /\ BASE = 2 * (BASE \div 2)
  <1>1. BASE \in Nat \ {0} /\ BASE >= 4 /\ BASE % 2 = 0
    BY CodecAssumption
  <1>2. BASE \div 2 \in Int /\ BASE = 2 * (BASE \div 2) + (BASE % 2)
    BY <1>1, Division
  <1> QED
    BY <1>1, <1>2

(* A byte, taken as unsigned, is what its value leaves when it is cut down *)
LEMMA UnsignedByte ==
    ASSUME NEW x \in Int
    PROVE  /\ Byte(x) \in Int
           /\ UnsignedByteToShort(Byte(x)) = x % BASE
           /\ x % BASE \in 0 .. BASE - 1
  <1> DEFINE h == BASE \div 2
             q == x \div BASE
             r == x % BASE
  <1>1. h \in Nat \ {0} /\ BASE = 2 * h /\ BASE \in Nat \ {0}
    BY Base
  <1>2. q \in Int /\ r \in 0 .. BASE - 1 /\ x = BASE * q + r
    BY Base, Division
  <1>0. \A y, p \in Int : \A s \in 0 .. BASE - 1 : y = BASE * p + s => y % BASE = s
    BY Base, Quotient
  <1> HIDE DEF h, q, r
  <1>3. CASE r < h
    <2>1. /\ r + h \in 0 .. BASE - 1 /\ x + h \in Int /\ q \in Int
          /\ x + h = BASE * q + (r + h)
      BY <1>1, <1>2, <1>3
    <2>2. (x + h) % BASE = r + h
      BY <1>0, <2>1
    <2>3. Byte(x) = r
      BY <1>1, <1>2, <2>2 DEF Byte, Signed, h
    <2> QED
      BY <1>2, <2>3 DEF UnsignedByteToShort, r
  <1>4. CASE r >= h
    <2>1. /\ r - h \in 0 .. BASE - 1 /\ x + h \in Int /\ (q + 1) \in Int
          /\ x + h = BASE * (q + 1) + (r - h)
      BY <1>1, <1>2, <1>4
    <2>2. (x + h) % BASE = r - h
      BY <1>0, <2>1
    <2>3. Byte(x) = r - h - h
      BY <1>1, <1>2, <2>2 DEF Byte, Signed, h
    <2>4. Byte(x) < 0 /\ Byte(x) + BASE = r
      BY <1>1, <1>2, <2>3
    <2> QED
      BY <1>1, <1>2, <2>3, <2>4 DEF UnsignedByteToShort, r
  <1> QED
    BY <1>1, <1>2, <1>3, <1>4

LEMMA SmallByte == ASSUME NEW x \in 0 .. BASE - 1 PROVE x % BASE = x
  <1>1. x = BASE * 0 + x /\ BASE \in Nat \ {0}
    BY Base
  <1> QED
    BY <1>1, Quotient

(* A number in the range of a byte is the byte *)
LEMMA SignedByte ==
    ASSUME NEW x \in Int, -(BASE \div 2) <= x, x < BASE \div 2
    PROVE  Byte(x) = x
  <1> DEFINE h == BASE \div 2
  <1>1. h \in Nat \ {0} /\ BASE = 2 * h /\ BASE \in Nat \ {0}
    BY Base
  <1>2. -h <= x /\ x < h
    OBVIOUS
  <1> HIDE DEF h
  <1>3. x + h \in 0 .. BASE - 1 /\ x + h = BASE * 0 + (x + h)
    BY <1>1, <1>2
  <1>4. (x + h) % BASE = x + h
    BY <1>1, <1>3, Quotient
  <1> QED
    BY <1>1, <1>4 DEF Byte, Signed, h

-----------------------------------------------------------------------------
(* Powers of BASE *)

LEMMA Powers ==
    /\ Power[0] = 1
    /\ \A k \in 0 .. 7 : Power[k + 1] = BASE * Power[k]
    /\ \A k \in 0 .. 8 : Power[k] \in Nat \ {0}
  <1> DEFINE Step == [a \in Nat \X Nat |-> BASE * a[1]]
             Equation(f) == f = [k \in 0 .. 8 |-> IF k = 0 THEN 1 ELSE BASE * f[k - 1]]
  <1>1. Step \in [Nat \X Nat -> Nat]
    BY Base
  <1>2. PICK g \in [0 .. 8 -> Nat] : Computes(g, 1, Step, 8)
    BY <1>1, Recursion
  <1>3. Equation(g)
    <2>1. ASSUME NEW k \in 0 .. 8 PROVE g[k] = IF k = 0 THEN 1 ELSE BASE * g[k - 1]
      <3>1. CASE k = 0
        BY <1>2, <3>1 DEF Computes
      <3>2. CASE k # 0
        <4>1. k \in 1 .. 8 /\ k - 1 \in 0 .. 8 /\ g[k - 1] \in Nat
          BY <1>2, <3>2
        <4>2. g[k] = Step[<<g[k - 1], k>>]
          BY <1>2, <4>1 DEF Computes
        <4> QED
          BY <3>2, <4>1, <4>2
      <3> QED
        BY <3>1, <3>2
    <2> QED
      BY <1>2, <2>1
  <1>4. Power = CHOOSE f : Equation(f)
    BY DEF Power
  <1> HIDE DEF Equation
  <1>5. Equation(Power)
    BY <1>3, <1>4
  <1>6. \A k \in 0 .. 8 : Power[k] = IF k = 0 THEN 1 ELSE BASE * Power[k - 1]
    BY <1>5 DEF Equation
  <1>7. \A k \in 0 .. 7 : Power[k + 1] = BASE * Power[k]
    <2>1. \A k \in 0 .. 7 : k + 1 \in 0 .. 8 /\ k + 1 # 0 /\ (k + 1) - 1 = k
      OBVIOUS
    <2> QED
      BY <1>6, <2>1
  <1>8. Power[0] = 1
    BY <1>6
  <1>9. \A k \in 0 .. 8 : Power[k] \in Nat \ {0}
    <2> DEFINE S == {k \in Nat : k \in 0 .. 8 => Power[k] \in Nat \ {0}}
    <2>1. 0 \in S
      BY <1>8
    <2>2. ASSUME NEW k \in Nat, k \in S PROVE k + 1 \in S
      <3>1. CASE k + 1 \in 0 .. 8
        <4>1. k \in 0 .. 7 /\ Power[k] \in Nat \ {0}
          BY <2>2, <3>1
        <4>2. Power[k + 1] = BASE * Power[k]
          BY <1>7, <4>1
        <4> QED
          BY <4>1, <4>2, Base
      <3> QED
        BY <3>1
    <2> HIDE DEF S
    <2>3. Nat \subseteq S
      BY <2>1, <2>2, SetInduction
    <2> QED
      BY <2>3 DEF S
  <1> QED
    BY <1>7, <1>8, <1>9

-----------------------------------------------------------------------------
(* Timestamps *)

(* Byte i of what is left of a timestamp, as a receiver reads it *)
Taken(x, i) == UnsignedByteToShort(Captured(x, i))

LEMMA HalfRange ==
    /\ Power[4] \div 2 \in Nat /\ Power[4] = 2 * (Power[4] \div 2)
    /\ Power[4] \div 2 = BASE * ((BASE \div 2) * Power[2])
  <1> DEFINE h == BASE \div 2
  <1>1. h \in Nat \ {0} /\ BASE = 2 * h /\ BASE \in Nat \ {0}
    BY Base
  <1>2. Power[4] = BASE * Power[3] /\ Power[3] = BASE * Power[2] /\ Power[2] \in Nat \ {0}
    BY Powers
  <1> HIDE DEF h
  <1> DEFINE p == h * Power[2]
             q == BASE * p
  <1>3. p \in Nat
    BY <1>1, <1>2
  <1>4. q \in Nat
    BY <1>1, <1>3
  <1>5. Power[4] = 2 * q
    <2>1. Power[4] = (2 * h) * (BASE * Power[2])
      BY <1>1, <1>2
    <2> QED
      BY <1>1, <1>2, <2>1
  <1> HIDE DEF p, q
  <1>6. Power[4] \div 2 = q
    BY <1>4, <1>5
  <1> QED
    BY <1>4, <1>5, <1>6 DEF p, q, h

LEMMA TakenIs ==
    ASSUME NEW x \in Int, NEW i \in 0 .. 7
    PROVE  /\ Taken(x, i) = ToInt(x \div Power[7 - i]) % BASE
           /\ Taken(x, i) \in 0 .. BASE - 1
           /\ Captured(x, i) \in Int
  <1>1. 7 - i \in 0 .. 8
    OBVIOUS
  <1>2. x \div Power[7 - i] \in Int
    BY <1>1, Powers, Division
  <1>3. ToInt(x \div Power[7 - i]) \in Int
    BY <1>2, HalfRange DEF ToInt
  <1> QED
    BY <1>3, UnsignedByte DEF Taken, Captured

LEMMA TakenType == ASSUME NEW x \in Int, NEW i \in 0 .. 7 PROVE Taken(x, i) \in Int
  <1>1. Taken(x, i) \in 0 .. BASE - 1
    BY TakenIs
  <1> QED
    BY <1>1, Base

LEMMA LeftRuns ==
    ASSUME NEW t \in Int
    PROVE  /\ Left(t)[0] = t
           /\ \A i \in 0 .. 8 : Left(t)[i] \in Int
           /\ \A i \in 0 .. 7 :
                 Left(t)[i + 1] = Left(t)[i] - Taken(Left(t)[i], i) * Power[7 - i]
  <1> DEFINE Next1(x, i) == x - Taken(x, i - 1) * Power[8 - i]
             Step == [a \in Int \X Nat |-> IF a[2] \in 1 .. 8 THEN Next1(a[1], a[2]) ELSE a[1]]
             Equation(f) == f = [i \in 0 .. 8 |-> IF i = 0 THEN t ELSE Next1(f[i - 1], i)]
  <1>1. ASSUME NEW x \in Int, NEW i \in 1 .. 8 PROVE Next1(x, i) \in Int
    <2>1. i - 1 \in 0 .. 7 /\ 8 - i \in 0 .. 8
      OBVIOUS
    <2>2. Taken(x, i - 1) \in Int
      BY <2>1, TakenType
    <2>3. Power[8 - i] \in Int
      BY <2>1, Powers
    <2> QED
      BY <2>2, <2>3
  <1>2. Left(t) = CHOOSE f : Equation(f)
    BY DEF Left, Taken
  <1> HIDE DEF Next1
  <1>3. Step \in [Int \X Nat -> Int]
    BY <1>1
  <1>4. PICK g \in [0 .. 8 -> Int] : Computes(g, t, Step, 8)
    BY <1>3, Recursion
  <1>5. ASSUME NEW i \in 1 .. 8 PROVE g[i - 1] \in Int /\ g[i] = Next1(g[i - 1], i)
    <2>1. i - 1 \in 0 .. 8 /\ g[i - 1] \in Int
      BY <1>4
    <2>2. g[i] = Step[<<g[i - 1], i>>]
      BY <1>4 DEF Computes
    <2> QED
      BY <2>1, <2>2
  <1>6. Equation(g)
    BY <1>4, <1>5 DEF Computes
  <1> HIDE DEF Equation
  <1>7. Equation(Left(t))
    BY <1>2, <1>6
  <1>8. \A i \in 0 .. 8 : Left(t)[i] = IF i = 0 THEN t ELSE Next1(Left(t)[i - 1], i)
    BY <1>7 DEF Equation
  <1>9. ASSUME NEW i \in 0 .. 7
        PROVE  Left(t)[i + 1] = Left(t)[i] - Taken(Left(t)[i], i) * Power[7 - i]
    <2>1. i + 1 \in 0 .. 8 /\ i + 1 # 0 /\ (i + 1) - 1 = i /\ 8 - (i + 1) = 7 - i
      OBVIOUS
    <2>2. Left(t)[i + 1] = Next1(Left(t)[i], i + 1)
      BY <1>8, <2>1
    <2> QED
      BY <2>1, <2>2 DEF Next1
  <1>10. \A i \in 0 .. 8 : Left(t)[i] \in Int
    <2> DEFINE S == {i \in Nat : i \in 0 .. 8 => Left(t)[i] \in Int}
    <2>1. 0 \in S
      BY <1>8
    <2>2. ASSUME NEW i \in Nat, i \in S PROVE i + 1 \in S
      <3>1. CASE i + 1 \in 0 .. 8
        <4>1. i \in 0 .. 7 /\ i + 1 \in 1 .. 8 /\ Left(t)[i] \in Int /\ (i + 1) - 1 = i
          BY <2>2, <3>1
        <4>2. Left(t)[i + 1] = Next1(Left(t)[i], i + 1)
          BY <1>8, <4>1
        <4>3. Next1(Left(t)[i], i + 1) \in Int
          BY <1>1, <4>1
        <4> QED
          BY <4>2, <4>3
      <3> QED
        BY <3>1
    <2> HIDE DEF S
    <2>3. Nat \subseteq S
      BY <2>1, <2>2, SetInduction
    <2> QED
      BY <2>3 DEF S
  <1> QED
    BY <1>8, <1>9, <1>10

(* A decoded timestamp is what has been taken from the one that was encoded *)
LEMMA DecodeRuns ==
    ASSUME NEW array, NEW pointer \in Nat,
           \A i \in 1 .. 8 : UnsignedByteToShort(array[pointer + i - 1]) \in Int
    PROVE  \E r \in [0 .. 8 -> Int] :
               /\ r[0] = 0 /\ DecodeTimestamp(array, pointer) = r[8]
               /\ \A i \in 1 .. 8 :
                     r[i] = r[i - 1] + UnsignedByteToShort(array[pointer + i - 1]) * Power[8 - i]
  <1> DEFINE Added(x, i) == x + UnsignedByteToShort(array[pointer + i - 1]) * Power[8 - i]
             Step == [a \in Int \X Nat |-> IF a[2] \in 1 .. 8 THEN Added(a[1], a[2]) ELSE a[1]]
             Equation(f) == f = [i \in 0 .. 8 |-> IF i = 0 THEN 0 ELSE Added(f[i - 1], i)]
             R == CHOOSE f : Equation(f)
  <1>1. ASSUME NEW x \in Int, NEW i \in 1 .. 8 PROVE Added(x, i) \in Int
    <2>1. 8 - i \in 0 .. 8
      OBVIOUS
    <2>2. Power[8 - i] \in Int
      BY <2>1, Powers
    <2> QED
      BY <2>2
  <1>2. DecodeTimestamp(array, pointer) = R[8]
    BY DEF DecodeTimestamp
  <1>3. \A x, i : Added(x, i) = x + UnsignedByteToShort(array[pointer + i - 1]) * Power[8 - i]
    OBVIOUS
  <1> HIDE DEF Added
  <1>4. Step \in [Int \X Nat -> Int]
    BY <1>1
  <1>5. PICK g \in [0 .. 8 -> Int] : Computes(g, 0, Step, 8)
    <2>1. 0 \in Int /\ 8 \in Nat
      OBVIOUS
    <2> HIDE DEF Step
    <2> QED
      BY <1>4, <2>1, Recursion, Zenon
  <1>6. ASSUME NEW i \in 1 .. 8 PROVE g[i - 1] \in Int /\ g[i] = Added(g[i - 1], i)
    <2>1. i - 1 \in 0 .. 8 /\ g[i - 1] \in Int
      BY <1>5
    <2>2. g[i] = Step[<<g[i - 1], i>>]
      BY <1>5 DEF Computes
    <2> QED
      BY <2>1, <2>2
  <1>7. Equation(g)
    BY <1>5, <1>6 DEF Computes
  <1> HIDE DEF Equation
  <1>8. Equation(R)
    BY <1>7
  <1> HIDE DEF R
  <1>9. /\ DOMAIN R = 0 .. 8
        /\ \A i \in 0 .. 8 : R[i] = IF i = 0 THEN 0 ELSE Added(R[i - 1], i)
    BY <1>8 DEF Equation
  <1>10. \A i \in 0 .. 8 : R[i] \in Int
    <2> DEFINE S == {i \in Nat : i \in 0 .. 8 => R[i] \in Int}
    <2>1. 0 \in S
      BY <1>9
    <2>2. ASSUME NEW i \in Nat, i \in S PROVE i + 1 \in S
      <3>1. CASE i + 1 \in 0 .. 8
        <4>1. i \in 0 .. 7 /\ i + 1 \in 1 .. 8 /\ R[i] \in Int /\ (i + 1) - 1 = i
          BY <2>2, <3>1
        <4>2. R[i + 1] = Added(R[i], i + 1)
          BY <1>9, <4>1
        <4>3. Added(R[i], i + 1) \in Int
          BY <1>1, <4>1
        <4> QED
          BY <4>2, <4>3
      <3> QED
        BY <3>1
    <2> HIDE DEF S
    <2>3. Nat \subseteq S
      BY <2>1, <2>2, SetInduction
    <2> QED
      BY <2>3 DEF S
  <1>11. R \in [0 .. 8 -> Int]
    <2>1. R = [i \in 0 .. 8 |-> IF i = 0 THEN 0 ELSE Added(R[i - 1], i)]
      BY <1>8 DEF Equation
    <2> QED
      BY <1>9, <1>10, <2>1
  <1>12. R[0] = 0 /\ \A i \in 1 .. 8 : R[i] = Added(R[i - 1], i)
    BY <1>9
  <1> QED
    BY <1>2, <1>3, <1>11, <1>12

LEMMA Telescope ==
    ASSUME NEW t \in Int, NEW array, NEW pointer \in Nat,
           \A i \in 0 .. 7 : array[pointer + i] = Captured(Left(t)[i], i)
    PROVE  DecodeTimestamp(array, pointer) = t - Left(t)[8]
  <1>1. ASSUME NEW i \in 1 .. 8
        PROVE  /\ i - 1 \in 0 .. 7 /\ 7 - (i - 1) = 8 - i /\ (i - 1) + 1 = i
               /\ UnsignedByteToShort(array[pointer + i - 1]) = Taken(Left(t)[i - 1], i - 1)
    <2>1. i - 1 \in 0 .. 7 /\ pointer + i - 1 = pointer + (i - 1)
      OBVIOUS
    <2>2. array[pointer + i - 1] = Captured(Left(t)[i - 1], i - 1)
      BY <2>1
    <2> QED
      BY <2>1, <2>2 DEF Taken
  <1>2. ASSUME NEW i \in 1 .. 8
        PROVE  /\ Taken(Left(t)[i - 1], i - 1) \in Int
               /\ Left(t)[i] = Left(t)[i - 1] - Taken(Left(t)[i - 1], i - 1) * Power[8 - i]
    <2>1. i - 1 \in 0 .. 7 /\ i - 1 \in 0 .. 8 /\ 7 - (i - 1) = 8 - i /\ (i - 1) + 1 = i
      OBVIOUS
    <2>2. Left(t)[i - 1] \in Int
      BY <2>1, LeftRuns
    <2>3. Taken(Left(t)[i - 1], i - 1) \in Int
      BY <2>1, <2>2, TakenType
    <2> QED
      BY <2>1, <2>3, LeftRuns
  <1>3. PICK r \in [0 .. 8 -> Int] :
            /\ r[0] = 0 /\ DecodeTimestamp(array, pointer) = r[8]
            /\ \A i \in 1 .. 8 :
                  r[i] = r[i - 1] + UnsignedByteToShort(array[pointer + i - 1]) * Power[8 - i]
    BY <1>1, <1>2, DecodeRuns
  <1> DEFINE S == {i \in Nat : i \in 0 .. 8 => r[i] = t - Left(t)[i]}
  <1>4. 0 \in S
    BY <1>3, LeftRuns
  <1>5. ASSUME NEW k \in Nat, k \in S PROVE k + 1 \in S
    <2>1. CASE k + 1 \in 0 .. 8
      <3>1. k \in 0 .. 8 /\ k + 1 \in 1 .. 8 /\ (k + 1) - 1 = k /\ r[k] = t - Left(t)[k]
        BY <1>5, <2>1
      <3> DEFINE p == Taken(Left(t)[k], k) * Power[8 - (k + 1)]
      <3>2. p \in Int
        <4>1. 8 - (k + 1) \in 0 .. 8
          BY <3>1
        <4> QED
          BY <1>2, <3>1, <4>1, Powers
      <3>3. r[k + 1] = r[k] + p
        BY <1>1, <1>3, <3>1
      <3>4. Left(t)[k + 1] = Left(t)[k] - p
        BY <1>2, <3>1
      <3>5. Left(t)[k] \in Int
        BY <3>1, LeftRuns
      <3> HIDE DEF p
      <3> QED
        BY <3>1, <3>2, <3>3, <3>4, <3>5
    <2> QED
      BY <2>1
  <1> HIDE DEF S
  <1>6. Nat \subseteq S
    BY <1>4, <1>5, SetInduction
  <1> QED
    BY <1>3, <1>6 DEF S

-----------------------------------------------------------------------------
(* Sizes *)

(* A digit more *)
LEMMA Digits ==
    ASSUME NEW m \in Nat, NEW n \in Nat, NEW hi \in 0 .. m - 1, NEW lo \in 0 .. n - 1
    PROVE  n * hi + lo \in 0 .. n * m - 1
  <1>1. n \in Nat \ {0} /\ hi < m
    OBVIOUS
  <1>2. n * hi + n <= n * m
    BY <1>1, Multiples
  <1>3. n * hi \in Nat /\ n * m \in Nat
    OBVIOUS
  <1> QED
    BY <1>2, <1>3

LEMMA DigitOf ==
    ASSUME NEW m \in Nat, NEW n \in Nat \ {0}, NEW x \in 0 .. n * m - 1
    PROVE  x \div n \in 0 .. m - 1
  <1> DEFINE q == x \div n
             r == x % n
  <1>1. q \in Int /\ r \in 0 .. n - 1 /\ x = n * q + r
    BY Division
  <1> HIDE DEF q, r
  <1>2. n * m \in Nat /\ n * q \in Int /\ n * 0 = 0
    BY <1>1
  <1>3. ~(q < 0)
    BY <1>1, <1>2, Multiples
  <1>4. ~(m < q)
    BY <1>1, <1>2, Multiples
  <1>5. q # m
    BY <1>1, <1>2
  <1>6. q \in 0 .. m - 1
    BY <1>1, <1>3, <1>4, <1>5
  <1> QED
    BY <1>6 DEF q

LEMMA PowerSum ==
    ASSUME NEW a \in 0 .. 8, NEW b \in 0 .. 8, a + b <= 8
    PROVE  Power[a + b] = Power[a] * Power[b]
  <1> DEFINE S == {k \in Nat : k <= a => Power[k + b] = Power[k] * Power[b]}
  <1>1. 0 \in S
    <2>1. Power[b] \in Nat /\ 0 + b = b
      BY Powers
    <2> QED
      BY <2>1, Powers
  <1>2. ASSUME NEW k \in Nat, k \in S PROVE k + 1 \in S
    <2>1. CASE k + 1 <= a
      <3>1. k \in 0 .. 7 /\ k + b \in 0 .. 7 /\ Power[k + b] = Power[k] * Power[b]
        BY <1>2, <2>1
      <3>2. Power[k + 1] = BASE * Power[k] /\ Power[(k + b) + 1] = BASE * Power[k + b]
        BY <3>1, Powers
      <3>3. Power[k] \in Nat /\ Power[b] \in Nat
        BY <3>1, Powers
      <3>4. BASE * (Power[k] * Power[b]) = (BASE * Power[k]) * Power[b]
        BY <3>3, Base
      <3>5. (k + 1) + b = (k + b) + 1
        OBVIOUS
      <3> QED
        BY <3>1, <3>2, <3>4, <3>5
    <2> QED
      BY <2>1
  <1> HIDE DEF S
  <1>3. a \in S
    BY <1>1, <1>2, SetInduction
  <1> QED
    BY <1>3 DEF S

(* The largest int is large enough for a byte more than three bytes hold *)
LEMMA LargestInt ==
    /\ Power[4] \div 2 \in Nat /\ Power[4] = 2 * (Power[4] \div 2)
    /\ Power[4] \div 2 >= 2 * Power[3]
    /\ \A k \in 0 .. 3 : Power[k] <= Power[3]
    /\ BASE <= Power[3]
  <1>1. Power[4] \div 2 \in Nat /\ Power[4] = 2 * (Power[4] \div 2)
    BY HalfRange
  <1>2. ASSUME NEW k \in 0 .. 7 PROVE Power[k] <= Power[k + 1]
    <2>1. Power[k + 1] = BASE * Power[k] /\ Power[k] \in Nat
      BY Powers
    <2>2. BASE * Power[k] >= Power[k]
      BY <2>1, Base
    <2> QED
      BY <2>1, <2>2
  <1>3. /\ 0 + 1 = 1 /\ 1 + 1 = 2 /\ 2 + 1 = 3 /\ 3 + 1 = 4
    OBVIOUS
  <1>4. Power[0] <= Power[1] /\ Power[1] <= Power[2] /\ Power[2] <= Power[3]
    BY <1>2, <1>3
  <1>5. Power[0] \in Nat /\ Power[1] \in Nat /\ Power[2] \in Nat /\ Power[3] \in Nat
    BY Powers
  <1>6. \A k \in 0 .. 3 : Power[k] <= Power[3]
    <2>1. \A k \in 0 .. 3 : k = 0 \/ k = 1 \/ k = 2 \/ k = 3
      OBVIOUS
    <2> QED
      BY <1>4, <1>5, <2>1
  <1>7. Power[1] = BASE
    <2>1. Power[1] = BASE * Power[0] /\ Power[0] = 1
      BY <1>3, Powers
    <2> QED
      BY <2>1, Base
  <1>8. Power[4] >= 4 * Power[3]
    <2>1. Power[4] = BASE * Power[3]
      BY <1>3, Powers
    <2>2. BASE * Power[3] >= 4 * Power[3]
      BY <1>5, Base
    <2> QED
      BY <2>1, <2>2
  <1>9. Power[4] \div 2 >= 2 * Power[3]
    BY <1>1, <1>5, <1>8
  <1> QED
    BY <1>1, <1>4, <1>5, <1>6, <1>7, <1>9

LEMMA SmallInt ==
    ASSUME NEW x \in Int, x < Power[4] \div 2
    PROVE  ToInt(x) = x
  BY LargestInt DEF ToInt

-----------------------------------------------------------------------------
(* A timestamp is taken byte by byte until nothing is left *)

LEMMA TakenFits ==
    ASSUME NEW i \in 0 .. 7, NEW x \in 0 .. Power[8 - i] - 1
    PROVE  /\ Taken(x, i) = x \div Power[7 - i]
           /\ x - Taken(x, i) * Power[7 - i] = x % Power[7 - i]
           /\ x % Power[7 - i] \in 0 .. Power[7 - i] - 1
  <1> DEFINE w == Power[7 - i]
             q == x \div w
             r == x % w
  <1>1. w \in Nat \ {0} /\ Power[8 - i] = w * BASE
    <2>1. 7 - i \in 0 .. 7 /\ (7 - i) + 1 = 8 - i
      OBVIOUS
    <2>2. w \in Nat \ {0} /\ Power[8 - i] = BASE * w
      BY <2>1, Powers
    <2> QED
      BY <2>2, Base
  <1>2. x \in 0 .. w * BASE - 1 /\ x \in Int
    BY <1>1, Base
  <1>3. q \in 0 .. BASE - 1
    BY <1>1, <1>2, Base, DigitOf
  <1>4. r \in 0 .. w - 1 /\ x = w * q + r
    BY <1>1, <1>2, Division
  <1>5. ToInt(q) = q
    <2>1. q \in Int /\ q < Power[4] \div 2
      <3>1. Power[3] \in Nat
        BY Powers
      <3> QED
        BY <1>3, <3>1, Base, LargestInt
    <2> QED
      BY <2>1, SmallInt
  <1>6. q % BASE = q
    BY <1>3, SmallByte
  <1>7. Taken(x, i) = q
    BY <1>2, <1>5, <1>6, TakenIs
  <1> HIDE DEF w, q, r
  <1>8. x - q * w = r
    BY <1>1, <1>3, <1>4, Base
  <1> QED
    BY <1>4, <1>7, <1>8 DEF w, q, r

LEMMA LeftOver ==
    ASSUME NEW t \in Timestamps
    PROVE  \A i \in 0 .. 8 : /\ Left(t)[i] \in 0 .. Power[8 - i] - 1
                             /\ \E q \in Int : t - Left(t)[i] = Power[8 - i] * q
  <1> DEFINE Good(i) == /\ Left(t)[i] \in 0 .. Power[8 - i] - 1
                        /\ \E q \in Int : t - Left(t)[i] = Power[8 - i] * q
             S == {i \in Nat : i \in 0 .. 8 => Good(i)}
  <1>1. t \in Int /\ Power[8] \in Nat
    BY Powers DEF Timestamps
  <1>2. 0 \in S
    <2>1. Left(t)[0] = t /\ 8 - 0 = 8
      BY <1>1, LeftRuns
    <2>2. t - Left(t)[0] = Power[8] * 0
      BY <1>1, <2>1
    <2> QED
      BY <2>1, <2>2 DEF Timestamps
  <1>3. ASSUME NEW i \in Nat, i \in S PROVE i + 1 \in S
    <2>1. CASE i + 1 \in 0 .. 8
      <3> DEFINE x == Left(t)[i]
                 w == Power[7 - i]
      <3>1. i \in 0 .. 7 /\ i \in 0 .. 8 /\ 8 - (i + 1) = 7 - i
        BY <2>1
      <3>2. x \in 0 .. Power[8 - i] - 1
        BY <1>3, <3>1
      <3>3. PICK q \in Int : t - x = Power[8 - i] * q
        BY <1>3, <3>1
      <3>4. Left(t)[i + 1] = x - Taken(x, i) * w
        BY <1>1, <3>1, LeftRuns
      <3>5. Left(t)[i + 1] = x % w /\ x % w \in 0 .. w - 1
        BY <3>1, <3>2, <3>4, TakenFits
      <3>6. w \in Nat \ {0} /\ Power[8 - i] = BASE * w
        <4>1. 7 - i \in 0 .. 7 /\ (7 - i) + 1 = 8 - i
          BY <3>1
        <4> QED
          BY <4>1, Powers
      <3>7. x \in Int /\ Taken(x, i) \in Int
        <4>1. x \in Int
          BY <1>1, <3>1, LeftRuns
        <4> QED
          BY <3>1, <4>1, TakenType
      <3> HIDE DEF x, w
      <3>8. \E p \in Int : t - Left(t)[i + 1] = w * p
        <4> DEFINE a == Taken(x, i)
        <4>1. a \in Int
          BY <3>7
        <4>2. Left(t)[i + 1] = x - a * w
          BY <3>4
        <4> HIDE DEF a
        <4>3. t - Left(t)[i + 1] = (BASE * w) * q + a * w
          <5>1. t - x = (BASE * w) * q
            BY <3>3, <3>6
          <5> HIDE <3>3
          <5>2. (BASE * w) * q \in Int /\ a * w \in Int
            BY <3>6, <4>1, Base
          <5> QED
            BY <1>1, <3>7, <4>2, <5>1, <5>2
        <4>4. (BASE * w) * q + a * w = w * (BASE * q + a)
          BY <3>6, <4>1, Base
        <4>5. BASE * q + a \in Int
          BY <4>1, Base
        <4> QED
          BY <4>3, <4>4, <4>5
      <3> QED
        BY <3>1, <3>5, <3>8 DEF w
    <2> QED
      BY <2>1
  <1> HIDE DEF S
  <1>4. Nat \subseteq S
    BY <1>2, <1>3, SetInduction
  <1> QED
    BY <1>4 DEF S

LEMMA NothingLeft == ASSUME NEW t \in Timestamps PROVE Left(t)[8] = 0
  <1>1. 8 \in 0 .. 8 /\ 8 - 8 = 0 /\ Power[0] = 1
    BY Powers
  <1>2. Left(t)[8] \in 0 .. Power[0] - 1
    BY <1>1, LeftOver
  <1> QED
    BY <1>1, <1>2

-----------------------------------------------------------------------------
(* The other fields *)

LEMMA LowPowers == Power[0] = 1 /\ Power[1] = BASE /\ Power[2] = BASE * BASE
                   /\ Power[3] = BASE * Power[2] /\ Power[4] = BASE * Power[3]
  <1>1. /\ 0 + 1 = 1 /\ 1 + 1 = 2 /\ 2 + 1 = 3 /\ 3 + 1 = 4
    OBVIOUS
  <1>2. Power[0] = 1 /\ Power[1] = BASE * Power[0] /\ Power[2] = BASE * Power[1]
    BY <1>1, Powers
  <1>3. Power[1] = BASE
    BY <1>2, Base
  <1>4. Power[3] = BASE * Power[2] /\ Power[4] = BASE * Power[3]
    BY <1>1, Powers
  <1> QED
    BY <1>2, <1>3, <1>4

(* All but the low byte of a number of four bytes *)
LEMMA HighBytes ==
    ASSUME NEW x \in Int
    PROVE  /\ x \div Power[3] \in Int /\ x \div BASE \in Int
           /\ (x \div Power[3]) * Power[3] + ((x \div Power[2]) % BASE) * Power[2]
                  + ((x \div BASE) % BASE) * BASE = (x \div BASE) * BASE
  <1> DEFINE e == x \div BASE
             f == e \div BASE
             g == f \div BASE
             r == e % BASE
             s == f % BASE
  <1>1. BASE \in Nat \ {0} /\ Power[2] \in Nat \ {0}
    BY Base, Powers
  <1>2. x \div Power[2] = f /\ x \div Power[3] = g
    <2>1. x \div (BASE * BASE) = f
      BY <1>1, Divisions
    <2>2. x \div (BASE * Power[2]) = (x \div Power[2]) \div BASE
      BY <1>1, Divisions
    <2> QED
      BY <2>1, <2>2, LowPowers
  <1>3. e \in Int
    BY <1>1, Division
  <1> HIDE DEF e
  <1>4. f \in Int /\ r \in 0 .. BASE - 1 /\ e = BASE * f + r
    BY <1>1, <1>3, Division
  <1> HIDE DEF f, r
  <1>5. g \in Int /\ s \in 0 .. BASE - 1 /\ f = BASE * g + s
    BY <1>1, <1>4, Division
  <1> HIDE DEF g, s
  <1>6. g * Power[3] + s * Power[2] + r * BASE = e * BASE
    <2>1. Power[3] = BASE * (BASE * BASE) /\ Power[2] = BASE * BASE
      BY LowPowers
    <2>2. g * (BASE * (BASE * BASE)) + s * (BASE * BASE) = (BASE * g + s) * (BASE * BASE)
      BY <1>1, <1>5
    <2>3. f * (BASE * BASE) + r * BASE = (BASE * f + r) * BASE
      BY <1>1, <1>4
    <2> QED
      BY <1>4, <1>5, <2>1, <2>2, <2>3, Zenon
  <1> QED
    BY <1>2, <1>3, <1>5, <1>6 DEF e, f, r, s

LEMMA DelayHigh ==
    ASSUME NEW d \in Delays
    PROVE  d \in Int /\ Byte(d \div Power[3]) = d \div Power[3]
  <1> DEFINE h == BASE \div 2
             w == Power[3]
             y == d + w * h
             q == y \div w
             r == y % w
  <1>1. h \in Nat \ {0} /\ BASE = 2 * h
    BY Base
  <1>2. w \in Nat \ {0} /\ Power[4] = w * BASE
    BY Powers, LowPowers, Base
  <1>3. Power[4] \div 2 = w * h
    <2> HIDE DEF h, w
    <2>1. Power[4] = 2 * (w * h) /\ w * h \in Nat
      BY <1>1, <1>2
    <2> QED
      BY <2>1
  <1>4. d \in Int /\ y \in 0 .. w * BASE - 1
    <2>1. d \in -(w * h) .. w * h - 1
      BY <1>3 DEF Delays
    <2> HIDE DEF h, w
    <2>2. w * h \in Nat /\ w * BASE = 2 * (w * h)
      BY <1>1, <1>2
    <2> QED
      BY <2>1, <2>2
  <1>5. q \in 0 .. BASE - 1
    <2> HIDE DEF y, w
    <2> QED
      BY <1>2, <1>4, Base, DigitOf
  <1>6. r \in 0 .. w - 1 /\ y = w * q + r
    <2>1. y \in Int
      BY <1>4
    <2> HIDE DEF y, w
    <2> QED
      BY <1>2, <2>1, Division
  <1> HIDE DEF q, r
  <1>7. d = w * (q - h) + r
    <2>1. w * h \in Nat /\ w * q \in Int /\ w * (q - h) = w * q - w * h
      <3> HIDE DEF w, h
      <3> QED
        BY <1>1, <1>2, <1>5
    <2>2. d + w * h = w * q + r
      BY <1>6
    <2> HIDE DEF w, h
    <2> QED
      BY <1>4, <1>6, <2>1, <2>2
  <1>8. d \div w = q - h
    <2> HIDE DEF w, h, y
    <2> DEFINE p == q - h
    <2>1. p \in Int /\ d \in Int /\ w \in Nat \ {0} /\ r \in 0 .. w - 1
      BY <1>1, <1>2, <1>4, <1>5, <1>6
    <2>2. d = w * p + r
      BY <1>7
    <2> HIDE DEF p
    <2>3. d \div w = p
      BY <2>1, <2>2, Quotient
    <2> QED
      BY <2>3 DEF p
  <1>9. -h <= q - h /\ q - h < h /\ q - h \in Int
    BY <1>1, <1>5
  <1>10. Byte(q - h) = q - h
    BY <1>9, SignedByte
  <1> QED
    BY <1>4, <1>8, <1>10 DEF w

LEMMA DispersionBytes ==
    ASSUME NEW d \in Dispersions
    PROVE  /\ d \in Int /\ (d \div Power[3]) % BASE = d \div Power[3]
           /\ (d \div BASE) * BASE + (d % BASE) = d
  <1>1. Power[4] = Power[3] * BASE /\ Power[3] \in Nat \ {0} /\ BASE \in Nat \ {0}
    BY Powers, LowPowers, Base
  <1>2. d \in Int /\ d \in 0 .. Power[3] * BASE - 1
    BY <1>1 DEF Dispersions
  <1>3. d \div Power[3] \in 0 .. BASE - 1
    BY <1>1, <1>2, DigitOf
  <1>4. (d \div Power[3]) % BASE = d \div Power[3]
    BY <1>3, SmallByte
  <1> DEFINE q == d \div BASE
             r == d % BASE
  <1>5. q \in Int /\ r \in 0 .. BASE - 1 /\ d = BASE * q + r
    BY <1>1, <1>2, Division
  <1> HIDE DEF q, r
  <1>6. q * BASE + r = d
    BY <1>1, <1>5
  <1> QED
    BY <1>2, <1>4, <1>6 DEF q, r

(* The fields of byte 0 are whole, although its sign bit is one of them *)
LEMMA Flags ==
    ASSUME NEW l \in 0 .. 3, NEW v \in 0 .. 7, NEW k \in 0 .. 7,
           NEW m, m.leapIndicator = l, m.version = v, m.mode = k
    PROVE  DecodeFlags(EncodeFlags(m)) = [leapIndicator |-> l, version |-> v, mode |-> k]
  <1> DEFINE f == l * 64 + v * 8 + k
             c == IF l < 2 THEN 0 ELSE 1
             b == EncodeFlags(m)
  <1>1. f \in 0 .. 255 /\ (f < 128 <=> l < 2)
    OBVIOUS
  <1>2. b = f - 256 * c
    <2>1. (f + 128) % 256 = f + 128 - 256 * c
      BY <1>1
    <2> QED
      BY <2>1 DEF EncodeFlags, Signed
  <1>3. b = 64 * (l - 4 * c) + (v * 8 + k) /\ v * 8 + k \in 0 .. 63
    BY <1>2
  <1>4. b = 8 * (8 * (l - 4 * c) + v) + k /\ k \in 0 .. 7
    BY <1>2
  <1>5. c \in 0 .. 1
    OBVIOUS
  <1> HIDE DEF b, c, f
  <1>6. b \div 64 = l - 4 * c
    BY <1>3, <1>5
  <1>7. b \div 8 = 8 * (l - 4 * c) + v /\ b % 8 = k
    BY <1>4, <1>5
  <1>8. (l - 4 * c) % 4 = l /\ (8 * (l - 4 * c) + v) % 8 = v
    BY <1>5
  <1> QED
    BY <1>6, <1>7, <1>8 DEF DecodeFlags, b

-----------------------------------------------------------------------------
(* Messages *)

Bytes == -(BASE \div 2) .. BASE \div 2 - 1

(* What a message can hold *)
NtpMessages ==
    [leapIndicator : 0 .. 3, version : 0 .. 7, mode : 0 .. 7, stratum : 0 .. BASE - 1,
     pollInterval : Bytes, precision : Bytes, rootDelay : Delays, rootDispersion : Dispersions,
     referenceIdentifier : [0 .. 3 -> Bytes],
     referenceTimestamp : Timestamps, originateTimestamp : Timestamps,
     receiveTimestamp : Timestamps, transmitTimestamp : Timestamps]

(* Where each field of a message is in its bytes *)
LEMMA Layout ==
    ASSUME NEW m, NEW noise
    PROVE  LET a == ToByteArray(m, noise)
           IN  /\ a[0] = EncodeFlags(m) /\ a[1] = Byte(m.stratum)
               /\ a[2] = m.pollInterval /\ a[3] = m.precision
               /\ \A k \in 0 .. 2 : a[4 + k] = Shifted(m.rootDelay, k)
               /\ a[7] = noise
               /\ \A k \in 0 .. 3 : a[8 + k] = Shifted(m.rootDispersion, k)
               /\ \A k \in 0 .. 3 : a[12 + k] = m.referenceIdentifier[k]
               /\ \A i \in 0 .. 7 :
                     /\ a[16 + i] = Captured(Left(m.referenceTimestamp)[i], i)
                     /\ a[24 + i] = Captured(Left(m.originateTimestamp)[i], i)
                     /\ a[32 + i] = Captured(Left(m.receiveTimestamp)[i], i)
                     /\ a[40 + i] = Captured(Left(m.transmitTimestamp)[i], i)
  <1> DEFINE p == [j \in 0 .. 47 |->
                      CASE j = 0 -> EncodeFlags(m)
                        [] j = 1 -> Byte(m.stratum)
                        [] j = 2 -> m.pollInterval
                        [] j = 3 -> m.precision
                        [] j \in 4 .. 7 -> Shifted(m.rootDelay, j - 4)
                        [] j \in 8 .. 11 -> Shifted(m.rootDispersion, j - 8)
                        [] j \in 12 .. 15 -> m.referenceIdentifier[j - 12]
                        [] OTHER -> 0]
             p16 == EncodeTimestamp(p, 16, m.referenceTimestamp, noise)
             p24 == EncodeTimestamp(p16, 24, m.originateTimestamp, noise)
             p32 == EncodeTimestamp(p24, 32, m.receiveTimestamp, noise)
             a == EncodeTimestamp(p32, 40, m.transmitTimestamp, noise)
  <1>1. ToByteArray(m, noise) = a
    BY DEF ToByteArray
  <1>2. /\ p[0] = EncodeFlags(m) /\ p[1] = Byte(m.stratum)
        /\ p[2] = m.pollInterval /\ p[3] = m.precision
    OBVIOUS
  <1>3. /\ \A j \in 4 .. 7 : p[j] = Shifted(m.rootDelay, j - 4)
        /\ \A j \in 8 .. 11 : p[j] = Shifted(m.rootDispersion, j - 8)
        /\ \A j \in 12 .. 15 : p[j] = m.referenceIdentifier[j - 12]
    OBVIOUS
  <1> HIDE DEF p
  <1>4. ASSUME NEW j \in 0 .. 47
        PROVE  /\ j = 7 => a[j] = noise
               /\ j \in 40 .. 47 => a[j] = Captured(Left(m.transmitTimestamp)[j - 40], j - 40)
               /\ j # 7 /\ j \notin 40 .. 47 => a[j] = p32[j]
    <2> HIDE DEF p32
    <2> QED
      BY DEF EncodeTimestamp
  <1> HIDE DEF a
  <1>5. ASSUME NEW j \in 0 .. 47
        PROVE  /\ j \in 32 .. 39 => p32[j] = Captured(Left(m.receiveTimestamp)[j - 32], j - 32)
               /\ j # 7 /\ j \notin 32 .. 39 => p32[j] = p24[j]
    <2> HIDE DEF p24
    <2> QED
      BY DEF EncodeTimestamp
  <1> HIDE DEF p32
  <1>6. ASSUME NEW j \in 0 .. 47
        PROVE  /\ j \in 24 .. 31 => p24[j] = Captured(Left(m.originateTimestamp)[j - 24], j - 24)
               /\ j # 7 /\ j \notin 24 .. 31 => p24[j] = p16[j]
    <2> HIDE DEF p16
    <2> QED
      BY DEF EncodeTimestamp
  <1> HIDE DEF p24
  <1>7. ASSUME NEW j \in 0 .. 47
        PROVE  /\ j \in 16 .. 23 => p16[j] = Captured(Left(m.referenceTimestamp)[j - 16], j - 16)
               /\ j # 7 /\ j \notin 16 .. 23 => p16[j] = p[j]
    BY DEF EncodeTimestamp
  <1> HIDE DEF p16
  <1>8. \A j \in 0 .. 15 : j # 7 => a[j] = p[j]
    BY <1>4, <1>5, <1>6, <1>7
  <1>9. ASSUME NEW i \in 0 .. 7
        PROVE  /\ a[16 + i] = Captured(Left(m.referenceTimestamp)[i], i)
               /\ a[24 + i] = Captured(Left(m.originateTimestamp)[i], i)
               /\ a[32 + i] = Captured(Left(m.receiveTimestamp)[i], i)
               /\ a[40 + i] = Captured(Left(m.transmitTimestamp)[i], i)
    <2>1. /\ 16 + i \in 16 .. 23 /\ 24 + i \in 24 .. 31 /\ 32 + i \in 32 .. 39 /\ 40 + i \in 40 .. 47
          /\ (16 + i) - 16 = i /\ (24 + i) - 24 = i /\ (32 + i) - 32 = i /\ (40 + i) - 40 = i
      OBVIOUS
    <2>2. a[40 + i] = Captured(Left(m.transmitTimestamp)[i], i)
      BY <1>4, <2>1
    <2>3. a[32 + i] = Captured(Left(m.receiveTimestamp)[i], i)
      BY <1>4, <1>5, <2>1
    <2>4. a[24 + i] = Captured(Left(m.originateTimestamp)[i], i)
      BY <1>4, <1>5, <1>6, <2>1
    <2>5. a[16 + i] = Captured(Left(m.referenceTimestamp)[i], i)
      BY <1>4, <1>5, <1>6, <1>7, <2>1
    <2> QED
      BY <2>2, <2>3, <2>4, <2>5
  <1>10. a[7] = noise
    BY <1>4
  <1>11. /\ a[0] = EncodeFlags(m) /\ a[1] = Byte(m.stratum)
         /\ a[2] = m.pollInterval /\ a[3] = m.precision
    BY <1>2, <1>8
  <1>12. /\ \A k \in 0 .. 2 : a[4 + k] = Shifted(m.rootDelay, k)
         /\ \A k \in 0 .. 3 : a[8 + k] = Shifted(m.rootDispersion, k)
         /\ \A k \in 0 .. 3 : a[12 + k] = m.referenceIdentifier[k]
    <2>1. /\ \A k \in 0 .. 2 : 4 + k \in 4 .. 7 /\ 4 + k # 7 /\ (4 + k) - 4 = k
          /\ \A k \in 0 .. 3 : /\ 8 + k \in 8 .. 11 /\ 8 + k # 7 /\ (8 + k) - 8 = k
                               /\ 12 + k \in 12 .. 15 /\ 12 + k # 7 /\ (12 + k) - 12 = k
      OBVIOUS
    <2>2. \A j \in 4 .. 15 : j # 7 => a[j] = p[j]
      BY <1>8
    <2> QED
      BY <1>3, <2>1, <2>2
  <1> QED
    BY <1>1, <1>9, <1>10, <1>11, <1>12

LEMMA Shifts ==
    ASSUME NEW x \in Int
    PROVE  /\ Shifted(x, 0) = Byte(x \div Power[3])
           /\ UnsignedByteToShort(Shifted(x, 0)) = (x \div Power[3]) % BASE
           /\ UnsignedByteToShort(Shifted(x, 1)) = (x \div Power[2]) % BASE
           /\ UnsignedByteToShort(Shifted(x, 2)) = (x \div BASE) % BASE
           /\ UnsignedByteToShort(Shifted(x, 3)) = x % BASE
  <1>1. x \div Power[3] \in Int /\ x \div Power[2] \in Int /\ x \div BASE \in Int
    <2>1. Power[3] \in Nat \ {0} /\ Power[2] \in Nat \ {0} /\ BASE \in Nat \ {0}
      BY Powers, Base
    <2> QED
      BY <2>1, Division
  <1>2. /\ Shifted(x, 0) = Byte(x \div Power[3]) /\ Shifted(x, 1) = Byte(x \div Power[2])
        /\ Shifted(x, 2) = Byte(x \div BASE) /\ Shifted(x, 3) = Byte(x)
    <2>1. 3 - 0 = 3 /\ 3 - 1 = 2 /\ 3 - 2 = 1 /\ 3 - 3 = 0 /\ x \div 1 = x
      OBVIOUS
    <2> QED
      BY <2>1, LowPowers DEF Shifted
  <1> QED
    BY <1>1, <1>2, UnsignedByte

LEMMA DelayDecoded ==
    ASSUME NEW d \in Delays
    PROVE  Shifted(d, 0) * Power[3] + UnsignedByteToShort(Shifted(d, 1)) * Power[2]
               + UnsignedByteToShort(Shifted(d, 2)) * BASE = (d \div BASE) * BASE
  <1>1. d \in Int /\ Byte(d \div Power[3]) = d \div Power[3]
    BY DelayHigh
  <1> QED
    BY <1>1, HighBytes, Shifts, Zenon

LEMMA DispersionDecoded ==
    ASSUME NEW d \in Dispersions
    PROVE  UnsignedByteToShort(Shifted(d, 0)) * Power[3]
               + UnsignedByteToShort(Shifted(d, 1)) * Power[2]
               + UnsignedByteToShort(Shifted(d, 2)) * BASE
               + UnsignedByteToShort(Shifted(d, 3)) = d
  <1>1. /\ d \in Int /\ (d \div Power[3]) % BASE = d \div Power[3]
        /\ (d \div BASE) * BASE + (d % BASE) = d
    BY DispersionBytes
  <1>2. /\ UnsignedByteToShort(Shifted(d, 0)) = d \div Power[3]
        /\ UnsignedByteToShort(Shifted(d, 1)) = (d \div Power[2]) % BASE
        /\ UnsignedByteToShort(Shifted(d, 2)) = (d \div BASE) % BASE
        /\ UnsignedByteToShort(Shifted(d, 3)) = d % BASE
    BY <1>1, Shifts
  <1>3. (d \div Power[3]) * Power[3] + ((d \div Power[2]) % BASE) * Power[2]
            + ((d \div BASE) % BASE) * BASE = (d \div BASE) * BASE
    BY <1>1, HighBytes
  <1> QED
    BY <1>1, <1>2, <1>3, Zenon

LEMMA TimestampDecoded ==
    ASSUME NEW t \in Timestamps, NEW array, NEW pointer \in Nat,
           \A i \in 0 .. 7 : array[pointer + i] = Captured(Left(t)[i], i)
    PROVE  DecodeTimestamp(array, pointer) = t
  <1>1. t \in Int /\ Left(t)[8] = 0
    BY NothingLeft, Powers DEF Timestamps
  <1>2. DecodeTimestamp(array, pointer) = t - Left(t)[8]
    BY <1>1, Telescope
  <1> QED
    BY <1>1, <1>2

LEMMA FieldTypes ==
    ASSUME NEW m \in NtpMessages
    PROVE  /\ m.leapIndicator \in 0 .. 3 /\ m.version \in 0 .. 7 /\ m.mode \in 0 .. 7
           /\ m.stratum \in 0 .. BASE - 1
           /\ m.rootDelay \in Delays /\ m.rootDispersion \in Dispersions
           /\ m.referenceIdentifier \in [0 .. 3 -> Bytes]
           /\ m.referenceTimestamp \in Timestamps /\ m.originateTimestamp \in Timestamps
           /\ m.receiveTimestamp \in Timestamps /\ m.transmitTimestamp \in Timestamps
  BY DEF NtpMessages

(* What the code makes of a message: the noise ends in its root delay *)
Expected(m, noise) ==
    [m EXCEPT !.rootDelay = (@ \div BASE) * BASE + UnsignedByteToShort(noise)]

LEMMA ExpectedIs ==
    ASSUME NEW m \in NtpMessages, NEW noise
    PROVE  Expected(m, noise) =
             [leapIndicator |-> m.leapIndicator, version |-> m.version, mode |-> m.mode,
              stratum |-> m.stratum, pollInterval |-> m.pollInterval, precision |-> m.precision,
              rootDelay |-> (m.rootDelay \div BASE) * BASE + UnsignedByteToShort(noise),
              rootDispersion |-> m.rootDispersion,
              referenceIdentifier |-> m.referenceIdentifier,
              referenceTimestamp |-> m.referenceTimestamp,
              originateTimestamp |-> m.originateTimestamp,
              receiveTimestamp |-> m.receiveTimestamp,
              transmitTimestamp |-> m.transmitTimestamp]
  BY DEF Expected, NtpMessages

LEMMA EveryMessageDecoded ==
    ASSUME NEW m \in NtpMessages, NEW noise \in Bytes
    PROVE  Decoded(ToByteArray(m, noise)) = Expected(m, noise)
  <1> DEFINE a == ToByteArray(m, noise)
             U(j) == UnsignedByteToShort(a[j])
  <1>1. /\ a[0] = EncodeFlags(m) /\ a[1] = Byte(m.stratum)
        /\ a[2] = m.pollInterval /\ a[3] = m.precision
        /\ \A k \in 0 .. 2 : a[4 + k] = Shifted(m.rootDelay, k)
        /\ a[7] = noise
        /\ \A k \in 0 .. 3 : a[8 + k] = Shifted(m.rootDispersion, k)
        /\ \A k \in 0 .. 3 : a[12 + k] = m.referenceIdentifier[k]
        /\ \A i \in 0 .. 7 :
              /\ a[16 + i] = Captured(Left(m.referenceTimestamp)[i], i)
              /\ a[24 + i] = Captured(Left(m.originateTimestamp)[i], i)
              /\ a[32 + i] = Captured(Left(m.receiveTimestamp)[i], i)
              /\ a[40 + i] = Captured(Left(m.transmitTimestamp)[i], i)
    BY Layout
  <1>2. /\ m.leapIndicator \in 0 .. 3 /\ m.version \in 0 .. 7 /\ m.mode \in 0 .. 7
        /\ m.stratum \in 0 .. BASE - 1
        /\ m.rootDelay \in Delays /\ m.rootDispersion \in Dispersions
        /\ m.referenceIdentifier \in [0 .. 3 -> Bytes]
        /\ m.referenceTimestamp \in Timestamps /\ m.originateTimestamp \in Timestamps
        /\ m.receiveTimestamp \in Timestamps /\ m.transmitTimestamp \in Timestamps
    BY FieldTypes
  <1>3. Decoded(a) =
          [leapIndicator |-> DecodeFlags(a[0]).leapIndicator,
           version |-> DecodeFlags(a[0]).version, mode |-> DecodeFlags(a[0]).mode,
           stratum |-> U(1), pollInterval |-> a[2], precision |-> a[3],
           rootDelay |-> a[4] * Power[3] + U(5) * Power[2] + U(6) * BASE + U(7),
           rootDispersion |-> U(8) * Power[3] + U(9) * Power[2] + U(10) * BASE + U(11),
           referenceIdentifier |-> [j \in 0 .. 3 |-> a[12 + j]],
           referenceTimestamp |-> DecodeTimestamp(a, 16),
           originateTimestamp |-> DecodeTimestamp(a, 24),
           receiveTimestamp |-> DecodeTimestamp(a, 32),
           transmitTimestamp |-> DecodeTimestamp(a, 40)]
    BY DEF Decoded
  <1> HIDE DEF a
  <1>4. DecodeFlags(a[0])
          = [leapIndicator |-> m.leapIndicator, version |-> m.version, mode |-> m.mode]
    <2>1. DecodeFlags(EncodeFlags(m))
            = [leapIndicator |-> m.leapIndicator, version |-> m.version, mode |-> m.mode]
      BY <1>2, Flags
    <2> QED
      BY <1>1, <2>1
  <1>5. U(1) = m.stratum
    <2>1. m.stratum \in Int /\ m.stratum % BASE = m.stratum
      BY <1>2, Base, SmallByte
    <2> QED
      BY <1>1, <2>1, UnsignedByte
  <1>6. a[4] * Power[3] + U(5) * Power[2] + U(6) * BASE = (m.rootDelay \div BASE) * BASE
    <2>1. 4 + 0 = 4 /\ 4 + 1 = 5 /\ 4 + 2 = 6 /\ 0 \in 0 .. 2 /\ 1 \in 0 .. 2 /\ 2 \in 0 .. 2
      OBVIOUS
    <2>2. /\ a[4] = Shifted(m.rootDelay, 0) /\ a[5] = Shifted(m.rootDelay, 1)
          /\ a[6] = Shifted(m.rootDelay, 2)
      BY <1>1, <2>1
    <2> QED
      BY <1>2, <2>2, DelayDecoded, Zenon
  <1>7. U(8) * Power[3] + U(9) * Power[2] + U(10) * BASE + U(11) = m.rootDispersion
    <2>1. /\ 8 + 0 = 8 /\ 8 + 1 = 9 /\ 8 + 2 = 10 /\ 8 + 3 = 11
          /\ 0 \in 0 .. 3 /\ 1 \in 0 .. 3 /\ 2 \in 0 .. 3 /\ 3 \in 0 .. 3
      OBVIOUS
    <2>2. /\ a[8] = Shifted(m.rootDispersion, 0) /\ a[9] = Shifted(m.rootDispersion, 1)
          /\ a[10] = Shifted(m.rootDispersion, 2) /\ a[11] = Shifted(m.rootDispersion, 3)
      BY <1>1, <2>1
    <2> QED
      BY <1>2, <2>2, DispersionDecoded, Zenon
  <1>8. [j \in 0 .. 3 |-> a[12 + j]] = m.referenceIdentifier
    BY <1>1, <1>2
  <1>9. /\ DecodeTimestamp(a, 16) = m.referenceTimestamp
        /\ DecodeTimestamp(a, 24) = m.originateTimestamp
        /\ DecodeTimestamp(a, 32) = m.receiveTimestamp
        /\ DecodeTimestamp(a, 40) = m.transmitTimestamp
    <2>1. 16 \in Nat /\ 24 \in Nat /\ 32 \in Nat /\ 40 \in Nat
      OBVIOUS
    <2>2. DecodeTimestamp(a, 16) = m.referenceTimestamp
      BY <1>1, <1>2, <2>1, TimestampDecoded
    <2>3. DecodeTimestamp(a, 24) = m.originateTimestamp
      BY <1>1, <1>2, <2>1, TimestampDecoded
    <2>4. DecodeTimestamp(a, 32) = m.receiveTimestamp
      BY <1>1, <1>2, <2>1, TimestampDecoded
    <2>5. DecodeTimestamp(a, 40) = m.transmitTimestamp
      BY <1>1, <1>2, <2>1, TimestampDecoded
    <2> QED
      BY <2>2, <2>3, <2>4, <2>5
  <1>10. U(7) = UnsignedByteToShort(noise)
    BY <1>1
  <1>11. Decoded(a) = Expected(m, noise)
    <2>1. /\ DecodeFlags(a[0]).leapIndicator = m.leapIndicator
          /\ DecodeFlags(a[0]).version = m.version /\ DecodeFlags(a[0]).mode = m.mode
      BY <1>4
    <2>2. /\ a[2] = m.pollInterval /\ a[3] = m.precision
      BY <1>1
    <2>3. a[4] * Power[3] + U(5) * Power[2] + U(6) * BASE + U(7)
            = (m.rootDelay \div BASE) * BASE + UnsignedByteToShort(noise)
      BY <1>6, <1>10, Zenon
    <2> HIDE DEF U
    <2> QED
      BY <1>3, <1>5, <2>3, <1>7, <1>8, <1>9, <2>1, <2>2, ExpectedIs
  <1> QED
    BY <1>11 DEF a

(* The noise that is meant for the timestamps ends in the low byte of the   *)
(* root delay, whatever is encoded (encodeTimestamp of NtpMessage.java).    *)
THEOREM NoiseInRootDelay ==
    ASSUME NEW m \in NtpMessages, NEW noise \in Bytes
    PROVE  Decoded(ToByteArray(m, noise)).rootDelay
               = (m.rootDelay \div BASE) * BASE + UnsignedByteToShort(noise)
  BY EveryMessageDecoded, ExpectedIs

(* The bytes of the noise *)
LEMMA NoiseRange ==
    ASSUME NEW noise \in Bytes
    PROVE  UnsignedByteToShort(noise) \in 0 .. BASE - 1
  <1> DEFINE h == BASE \div 2
  <1>1. h \in Nat \ {0} /\ BASE = 2 * h /\ BASE \in Nat \ {0}
    BY Base
  <1>2. noise \in -h .. h - 1
    BY DEF Bytes
  <1> HIDE DEF h
  <1> QED
    BY <1>1, <1>2 DEF UnsignedByteToShort

(* Every message of the NTP, and not only the ones that are tried, comes    *)
(* back from its bytes whatever the noise is, but for the lowest bytes of   *)
(* its timestamps and of its root delay (toByteArray and the constructor of *)
(* NtpMessage.java).                                                        *)
THEOREM EveryMessageSurvives ==
    ASSUME NEW m \in NtpMessages, NEW noise \in Bytes
    PROVE  Coarse(Decoded(ToByteArray(m, noise))) = Coarse(m)
  <1> DEFINE d == m.rootDelay
             u == UnsignedByteToShort(noise)
             e == Expected(m, noise)
  <1>1. Decoded(ToByteArray(m, noise)) = e
    BY EveryMessageDecoded
  <1>2. e.rootDelay \div BASE = d \div BASE
    <2>1. e.rootDelay = (d \div BASE) * BASE + u
      BY ExpectedIs
    <2>2. d \in Int
      <3>1. Power[4] \div 2 \in Nat
        BY HalfRange
      <3> QED
        BY <3>1, FieldTypes DEF Delays
    <2> DEFINE q == d \div BASE
    <2>3. q \in Int /\ u \in 0 .. BASE - 1 /\ BASE \in Nat \ {0}
      BY <2>2, Base, Division, NoiseRange
    <2> HIDE DEF q, u, e, d
    <2>4. e.rootDelay = BASE * q + u /\ e.rootDelay \in Int
      BY <2>1, <2>3 DEF q
    <2>5. e.rootDelay \div BASE = q
      BY <2>3, <2>4, Quotients
    <2> QED
      BY <2>5 DEF q
  <1>3. Coarse(e) = Coarse(m)
    <2>1. e = [m EXCEPT !.rootDelay = e.rootDelay]
      BY ExpectedIs DEF Expected, NtpMessages
    <2> HIDE DEF e
    <2> QED
      BY <1>2, <2>1 DEF Coarse, NtpMessages
  <1> QED
    BY <1>1, <1>3

-----------------------------------------------------------------------------
(* The messages that are tried are messages *)

LEMMA ByteType == \A x \in Int : Byte(x) \in Bytes
  <1>1. ASSUME NEW x \in Int PROVE Byte(x) \in Bytes
    <2> DEFINE h == BASE \div 2
               r == (x + h) % BASE
    <2>1. h \in Nat \ {0} /\ BASE = 2 * h /\ BASE \in Nat \ {0}
      BY Base
    <2>2. r \in 0 .. BASE - 1
      BY <2>1, Division
    <2>3. Byte(x) = r - h
      BY DEF Byte, Signed
    <2>4. Bytes = -h .. h - 1
      BY DEF Bytes
    <2> HIDE DEF h, r
    <2> QED
      BY <2>1, <2>2, <2>3, <2>4
  <1> QED
    BY <1>1

LEMMA HighPowers ==
    /\ \A k \in 0 .. 8 : Power[8] = Power[k] * Power[8 - k]
    /\ Power[8] = BASE * Power[7] /\ Power[4] = BASE * Power[3]
    /\ Power[7] >= 4 /\ Power[4] >= 4 /\ Power[8] >= 4 * Power[7] /\ Power[8] >= 4 * Power[4]
  <1>1. \A k \in 0 .. 8 : Power[8] = Power[k] * Power[8 - k]
    <2>1. \A k \in 0 .. 8 : 8 - k \in 0 .. 8 /\ k + (8 - k) = 8 /\ 8 <= 8
      OBVIOUS
    <2> QED
      BY <2>1, PowerSum
  <1>2. ASSUME NEW k \in 0 .. 7
        PROVE  Power[k + 1] = BASE * Power[k] /\ Power[k + 1] >= 4 * Power[k]
               /\ Power[k + 1] >= 4
    <2>1. Power[k + 1] = BASE * Power[k] /\ Power[k] \in Nat \ {0}
      BY Powers
    <2>2. BASE * Power[k] >= 4 * Power[k] /\ Power[k] >= 1
      BY <2>1, Base
    <2> DEFINE w == Power[k]
               v == BASE * w
    <2>3. v >= 4 * w /\ w \in Nat /\ w >= 1 /\ v \in Nat /\ Power[k + 1] = v
      BY <2>1, <2>2, Base
    <2> HIDE DEF v
    <2>4. Power[k + 1] >= 4 * w /\ Power[k + 1] >= 4
      BY <2>3
    <2> QED
      BY <2>1, <2>4
  <1>3. 3 + 1 = 4 /\ 4 + 1 = 5 /\ 5 + 1 = 6 /\ 6 + 1 = 7 /\ 7 + 1 = 8
    OBVIOUS
  <1>4. /\ Power[8] = BASE * Power[7] /\ Power[4] = BASE * Power[3]
        /\ Power[7] >= 4 /\ Power[4] >= 4
        /\ Power[5] >= 4 * Power[4] /\ Power[6] >= 4 * Power[5]
        /\ Power[7] >= 4 * Power[6] /\ Power[8] >= 4 * Power[7]
    BY <1>2, <1>3
  <1>5. /\ Power[4] \in Nat /\ Power[5] \in Nat /\ Power[6] \in Nat
        /\ Power[7] \in Nat /\ Power[8] \in Nat
    BY Powers
  <1>6. Power[8] >= 4 * Power[4]
    BY <1>4, <1>5
  <1> QED
    BY <1>1, <1>4, <1>6

LEMMA SampleType == Sample \in NtpMessages
  <1>1. /\ Power[8] \in Nat /\ Power[7] \in Nat /\ Power[4] \in Nat
        /\ Power[3] \in Nat /\ Power[2] \in Nat
    BY Powers
  <1>2. /\ Power[7] >= 4 /\ Power[4] >= 4
        /\ Power[8] >= 4 * Power[7] /\ Power[8] >= 4 * Power[4]
    BY HighPowers
  <1>3. /\ Power[8] - 2 \in Timestamps /\ Power[7] + 5 \in Timestamps
        /\ Power[4] - 1 \in Timestamps /\ Power[4] + 3 \in Timestamps
    BY <1>1, <1>2 DEF Timestamps
  <1>4. -Power[2] - 1 \in Delays
    <2>1. Power[4] \div 2 \in Nat /\ Power[4] \div 2 >= 2 * Power[3] /\ Power[2] <= Power[3]
          /\ Power[2] >= 1
      BY LargestInt, Powers
    <2> DEFINE h == Power[4] \div 2
    <2>2. h \in Nat /\ h >= 2 * Power[3] /\ Delays = -h .. h - 1
          /\ Power[2] <= Power[3] /\ Power[2] >= 1
      BY <2>1 DEF Delays
    <2> HIDE DEF h
    <2> DEFINE a == Power[2]
               b == Power[3]
    <2>3. h \in Nat /\ a \in Nat /\ b \in Nat /\ h >= 2 * b /\ a <= b /\ a >= 1
      BY <1>1, <2>2
    <2> HIDE DEF a, b
    <2>4. -a - 1 \in Int /\ -h <= -a - 1 /\ -a - 1 <= h - 1
      BY <2>3
    <2>5. -a - 1 \in -h .. h - 1
      BY <2>3, <2>4
    <2> QED
      BY <2>2, <2>5 DEF a
  <1>5. Power[4] - 2 \in Dispersions
    BY <1>1, <1>2 DEF Dispersions
  <1>6. Byte(1) \in Bytes /\ Byte(BASE - 1) \in Bytes
    BY Base, ByteType
  <1>7. [j \in 0 .. 3 |-> Byte(j)] \in [0 .. 3 -> Bytes]
    <2>1. \A j \in 0 .. 3 : Byte(j) \in Bytes
      BY ByteType
    <2> QED
      BY <2>1
  <1>8. BASE - 1 \in 0 .. BASE - 1
    BY Base
  <1> QED
    BY <1>3, <1>4, <1>5, <1>6, <1>7, <1>8 DEF Sample, NtpMessages

LEMMA TriedTimestamps == MCTimestamps \subseteq Timestamps
  <1>1. ASSUME NEW k \in 0 .. 6, NEW hi \in {0, Power[6 - k] - 1},
               NEW x \in 0 .. Power[2] - 1, NEW lo \in {0, Power[k] - 1}
        PROVE  (hi * Power[2] + x) * Power[k] + lo \in Timestamps
    <2> DEFINE a == Power[2]
               b == Power[6 - k]
               c == Power[k]
               d == Power[8 - k]
               y == a * hi + x
    <2>1. 6 - k \in 0 .. 8 /\ 8 - k \in 0 .. 8 /\ 2 + (6 - k) = 8 - k /\ k + (8 - k) = 8
      OBVIOUS
    <2>2. a \in Nat \ {0} /\ b \in Nat \ {0} /\ c \in Nat \ {0} /\ d \in Nat \ {0}
      BY <2>1, Powers
    <2>3. d = a * b /\ Power[8] = c * d
      BY <2>1, PowerSum
    <2>4. hi \in {0, b - 1} /\ x \in 0 .. a - 1 /\ lo \in {0, c - 1}
      OBVIOUS
    <2> HIDE DEF a, b, c, d
    <2>5. hi \in 0 .. b - 1 /\ lo \in 0 .. c - 1
      BY <2>2, <2>4
    <2>6. y \in 0 .. d - 1
      BY <2>2, <2>3, <2>4, <2>5, Digits
    <2>7. y = hi * a + x
      BY <2>2, <2>4, <2>5
    <2> HIDE DEF y
    <2>8. c * y + lo \in 0 .. c * d - 1
      BY <2>2, <2>5, <2>6, Digits
    <2>9. c * y + lo = y * c + lo
      BY <2>2, <2>5, <2>6
    <2>10. y * c + lo \in Timestamps
      BY <2>3, <2>8, <2>9 DEF Timestamps
    <2>11. (hi * a + x) * c + lo \in Timestamps
      BY <2>7, <2>10, Zenon
    <2> QED
      BY <2>11 DEF a, c
  <1> QED
    BY <1>1 DEF MCTimestamps

LEMMA DerivedTimestamps ==
    ASSUME NEW t \in Timestamps
    PROVE  /\ Power[8] - 1 - t \in Timestamps /\ t \div BASE \in Timestamps
           /\ (t * BASE) % Power[8] \in Timestamps
  <1>1. Power[8] \in Nat \ {0} /\ Power[7] \in Nat /\ BASE \in Nat \ {0}
        /\ Power[8] = BASE * Power[7] /\ Power[8] >= 4 * Power[7]
    BY Powers, Base, HighPowers
  <1>2. t \in 0 .. Power[8] - 1 /\ t \in 0 .. BASE * Power[7] - 1
    BY <1>1 DEF Timestamps
  <1>3. Power[8] - 1 - t \in Timestamps
    BY <1>1, <1>2 DEF Timestamps
  <1>4. t \div BASE \in Timestamps
    <2>1. t \div BASE \in 0 .. Power[7] - 1
      BY <1>1, <1>2, DigitOf
    <2> QED
      BY <1>1, <2>1 DEF Timestamps
  <1>5. (t * BASE) % Power[8] \in Timestamps
    <2>1. t * BASE \in Int
      BY <1>1, <1>2
    <2>2. (t * BASE) % Power[8] \in 0 .. Power[8] - 1
      BY <1>1, <2>1, Division
    <2> QED
      BY <2>2 DEF Timestamps
  <1> QED
    BY <1>3, <1>4, <1>5

LEMMA Survival == \A m \in NtpMessages : Survives(m)
  <1>1. \A noise \in Noises : noise \in Bytes
    BY Base, ByteType DEF Noises
  <1> QED
    BY <1>1, EveryMessageSurvives, Zenon DEF Survives

(* The messages that the run of the activity tries come back whatever the   *)
(* noise and the size of a byte are (toByteArray and the constructor of     *)
(* NtpMessage.java).                                                        *)
THEOREM MessagesSurviveAlways == Spec => []MessagesSurvive
  <1>1. ASSUME NEW t \in MCTimestamps
        PROVE  Survives([Sample EXCEPT !.referenceTimestamp = t,
                                       !.originateTimestamp = Power[8] - 1 - t,
                                       !.receiveTimestamp = t \div BASE,
                                       !.transmitTimestamp = (t * BASE) % Power[8]])
    <2>1. t \in Timestamps
      BY TriedTimestamps
    <2>2. /\ Power[8] - 1 - t \in Timestamps /\ t \div BASE \in Timestamps
          /\ (t * BASE) % Power[8] \in Timestamps
      BY <2>1, DerivedTimestamps
    <2>3. [Sample EXCEPT !.referenceTimestamp = t,
                         !.originateTimestamp = Power[8] - 1 - t,
                         !.receiveTimestamp = t \div BASE,
                         !.transmitTimestamp = (t * BASE) % Power[8]] \in NtpMessages
      BY <2>1, <2>2, SampleType DEF NtpMessages
    <2> QED
      BY <2>3, Survival
  <1>2. \A d \in Delays : Survives([Sample EXCEPT !.rootDelay = d])
    <2>1. \A d \in Delays : [Sample EXCEPT !.rootDelay = d] \in NtpMessages
      BY SampleType DEF NtpMessages
    <2> QED
      BY <2>1, Survival
  <1>3. \A d \in Dispersions : Survives([Sample EXCEPT !.rootDispersion = d])
    <2>1. \A d \in Dispersions : [Sample EXCEPT !.rootDispersion = d] \in NtpMessages
      BY SampleType DEF NtpMessages
    <2> QED
      BY <2>1, Survival
  <1>4. \A l \in 0 .. 3, v \in 0 .. 7, k \in 0 .. 7 :
           Survives([Sample EXCEPT !.leapIndicator = l, !.version = v, !.mode = k])
    <2>1. \A l \in 0 .. 3, v \in 0 .. 7, k \in 0 .. 7 :
             [Sample EXCEPT !.leapIndicator = l, !.version = v, !.mode = k] \in NtpMessages
      BY SampleType DEF NtpMessages
    <2> QED
      BY <2>1, Survival
  <1>5. MessagesSurvive
    BY <1>1, <1>2, <1>3, <1>4 DEF MessagesSurvive
  <1> QED
    BY <1>5, PTL

-----------------------------------------------------------------------------
(* A time after the wrap of 2036 *)

(* A quotient is at least what its divisor goes into *)
LEMMA LargeQuotient ==
    ASSUME NEW w \in Nat \ {0}, NEW h \in Int, NEW y \in Int, y >= w * h
    PROVE  y \div w >= h
  <1> DEFINE q == y \div w
             r == y % w
  <1>1. q \in Int /\ r \in 0 .. w - 1 /\ y = w * q + r
    BY Division
  <1> HIDE DEF q, r
  <1>2. w * q \in Int /\ w * h \in Int
    BY <1>1
  <1>3. ~(q < h)
    BY <1>1, <1>2, Multiples
  <1>4. q >= h
    BY <1>1, <1>3
  <1> QED
    BY <1>4 DEF q

(* The byte of a double that no int can hold is all ones *)
LEMMA Ones ==
    ASSUME NEW y \in Int, NEW i \in 0 .. 7, y >= Power[7 - i] * (Power[4] \div 2)
    PROVE  Taken(y, i) = BASE - 1
  <1> DEFINE w == Power[7 - i]
             h == Power[4] \div 2
             q == y \div w
             p == (BASE \div 2) * Power[2]
  <1>1. w \in Nat \ {0} /\ h \in Nat
    <2>1. 7 - i \in 0 .. 8
      OBVIOUS
    <2> QED
      BY <2>1, Powers, HalfRange
  <1>2. p \in Int /\ h = BASE * p
    BY HalfRange, Base, Powers
  <1>3. q >= h /\ q \in Int
    <2>1. y >= w * h
      OBVIOUS
    <2>2. y \div w \in Int
      BY <1>1, Division
    <2> HIDE DEF w, h
    <2>3. y \div w >= h
      BY <1>1, <2>1, LargeQuotient
    <2> QED
      BY <2>2, <2>3
  <1>4. ToInt(q) = h - 1
    BY <1>3 DEF ToInt
  <1>5. (h - 1) % BASE = BASE - 1
    <2> HIDE DEF h, p
    <2> DEFINE k == p - 1
    <2>1. BASE * p - BASE = BASE * k /\ BASE * k \in Int /\ k \in Int
      BY <1>2, Base
    <2>2. h - 1 = BASE * k + (BASE - 1) /\ h - 1 \in Int
      BY <1>1, <1>2, <2>1, Base
    <2> HIDE DEF k
    <2>3. BASE - 1 \in 0 .. BASE - 1 /\ BASE \in Nat \ {0}
      BY Base
    <2>4. \A j, x \in Int : \A r \in 0 .. BASE - 1 : x = BASE * j + r => x % BASE = r
      BY <2>3, Quotients
    <2> QED
      BY <2>1, <2>2, <2>3, <2>4
  <1>6. Taken(y, i) = ToInt(q) % BASE
    BY TakenIs
  <1> QED
    BY <1>4, <1>5, <1>6, Zenon

(* Up to the second byte of the seconds, the wrap does no harm *)
LEMMA TakenAfterWrap ==
    ASSUME NEW i \in 0 .. 2, NEW x \in 0 .. Power[8 - i] - 1
    PROVE  Taken(Power[8] + x, i) = Taken(x, i)
  <1> DEFINE w == Power[7 - i]
             v == Power[i + 1]
             q == x \div w
  <1>1. i \in 0 .. 7 /\ 7 - i \in 0 .. 7 /\ 7 - i \in 0 .. 8 /\ i + 1 \in 0 .. 3 /\ i + 1 \in 0 .. 8
        /\ i + 1 + (7 - i) = 8 /\ (7 - i) + 1 = 8 - i /\ 8 - (i + 1) = 7 - i
    OBVIOUS
  <1>2. w \in Nat \ {0} /\ v \in Nat \ {0} /\ Power[i] \in Nat /\ v = BASE * Power[i]
        /\ Power[8] = v * w /\ Power[8 - i] = BASE * w /\ v <= Power[3]
    <2>1. Power[8] = Power[i + 1] * Power[8 - (i + 1)]
      BY <1>1, HighPowers
    <2>2. w \in Nat \ {0} /\ v \in Nat \ {0} /\ Power[i] \in Nat /\ v = BASE * Power[i]
          /\ Power[8 - i] = BASE * w
      BY <1>1, Powers
    <2>3. v <= Power[3]
      BY <1>1, LargestInt
    <2> QED
      BY <1>1, <2>1, <2>2, <2>3
  <1>3. x \in Int /\ x \in 0 .. w * BASE - 1
    BY <1>2, Base
  <1>4. q \in 0 .. BASE - 1 /\ x % w \in 0 .. w - 1 /\ x = w * q + (x % w)
    BY <1>2, <1>3, Base, DigitOf, Division
  <1>5. Taken(x, i) = q
    BY <1>1, TakenFits
  <1> DEFINE r == x % w
  <1> HIDE DEF w, v, q, r
  <1>6. r \in 0 .. w - 1 /\ x = w * q + r
    BY <1>4 DEF r
  <1>7. Power[8] + x \in Int /\ v + q \in Int /\ Power[8] + x = w * (v + q) + r
    <2>1. w * (v + q) = v * w + w * q /\ v * w \in Int /\ w * q \in Int
      BY <1>2, <1>4, Base
    <2> QED
      BY <1>2, <1>3, <1>4, <1>6, <2>1, Base
  <1>8. (Power[8] + x) \div w = v + q
    <2>1. \A j, y \in Int : \A k \in 0 .. w - 1 : y = w * j + k => y \div w = j
      BY <1>2, Quotients
    <2> QED
      BY <1>6, <1>7, <2>1
  <1>9. ToInt(v + q) = v + q
    <2>1. v + q < Power[4] \div 2
      <3>1. Power[3] \in Nat /\ BASE <= Power[3] /\ Power[4] \div 2 >= 2 * Power[3]
            /\ Power[4] \div 2 \in Nat
        BY Powers, LargestInt
      <3> DEFINE h == Power[4] \div 2
      <3>2. h \in Nat /\ h >= 2 * Power[3]
        BY <3>1
      <3> HIDE DEF h
      <3>3. v + q < h
        BY <1>2, <1>4, <3>1, <3>2, Base
      <3> QED
        BY <3>3 DEF h
    <2> QED
      BY <1>7, <2>1, SmallInt
  <1>10. (v + q) % BASE = q
    <2> DEFINE u == Power[i]
    <2>1. u \in Int /\ v + q = BASE * u + q
      BY <1>2
    <2> HIDE DEF u
    <2>2. \A j, y \in Int : \A k \in 0 .. BASE - 1 : y = BASE * j + k => y % BASE = k
      BY Base, Quotients
    <2> QED
      BY <1>4, <1>7, <2>1, <2>2
  <1>11. Taken(Power[8] + x, i) = ToInt((Power[8] + x) \div w) % BASE
    BY <1>1, <1>7, TakenIs DEF w
  <1> QED
    BY <1>5, <1>8, <1>9, <1>10, <1>11, Zenon

LEMMA LeftAfterWrap ==
    ASSUME NEW t \in Timestamps
    PROVE  \A i \in 0 .. 3 : Left(Power[8] + t)[i] = Power[8] + Left(t)[i]
  <1> DEFINE T == Power[8] + t
             S == {i \in Nat : i \in 0 .. 3 => Left(T)[i] = Power[8] + Left(t)[i]}
  <1>1. t \in Int /\ Power[8] \in Int /\ T \in Int
    BY Powers DEF Timestamps
  <1> HIDE DEF T
  <1>2. 0 \in S
    <2>1. Left(T)[0] = T /\ Left(t)[0] = t
      BY <1>1, LeftRuns
    <2> QED
      BY <2>1 DEF T
  <1>3. ASSUME NEW i \in Nat, i \in S PROVE i + 1 \in S
    <2>1. CASE i + 1 \in 0 .. 3
      <3>1. i \in 0 .. 2 /\ i \in 0 .. 7 /\ i \in 0 .. 8 /\ i \in 0 .. 3 /\ 7 - i \in 0 .. 8
        BY <2>1
      <3> DEFINE x == Left(t)[i]
                 a == Taken(x, i) * Power[7 - i]
      <3>2. Left(T)[i] = Power[8] + x
        BY <1>3, <3>1
      <3>3. x \in 0 .. Power[8 - i] - 1 /\ x \in Int
        BY <1>1, <3>1, LeftOver, LeftRuns
      <3>4. Taken(Power[8] + x, i) = Taken(x, i)
        BY <3>1, <3>3, TakenAfterWrap
      <3>5. Left(T)[i + 1] = Left(T)[i] - Taken(Left(T)[i], i) * Power[7 - i]
        BY <1>1, <3>1, LeftRuns
      <3>6. Left(t)[i + 1] = x - a
        BY <1>1, <3>1, LeftRuns
      <3>7. a \in Int
        <4>1. Taken(x, i) \in Int
          BY <3>1, <3>3, TakenType
        <4>2. Power[7 - i] \in Int
          BY <3>1, Powers
        <4> QED
          BY <4>1, <4>2
      <3>8. Left(T)[i + 1] = (Power[8] + x) - a
        BY <3>2, <3>4, <3>5
      <3> HIDE DEF x, a
      <3>9. Left(T)[i + 1] = Power[8] + Left(t)[i + 1]
        BY <1>1, <3>3, <3>6, <3>7, <3>8
      <3> QED
        BY <3>9
    <2> QED
      BY <2>1
  <1> HIDE DEF S
  <1>4. Nat \subseteq S
    BY <1>2, <1>3, SetInduction
  <1> QED
    BY <1>4 DEF S, T

(* Powers up to 4, and the largest *)
LEMMA SmallPowers ==
    /\ \A k \in 0 .. 4 : Power[k] <= Power[4]
    /\ Power[8] = Power[4] * Power[4] /\ Power[8] >= 2 * Power[5]
  <1>1. Power[4] = BASE * Power[3] /\ Power[3] \in Nat /\ Power[4] \in Nat
        /\ Power[4] >= Power[3]
    <2>1. Power[4] = BASE * Power[3] /\ Power[3] \in Nat /\ Power[4] \in Nat
      BY HighPowers, Powers
    <2>2. BASE * Power[3] >= Power[3]
      BY <2>1, Base
    <2> QED
      BY <2>1, <2>2
  <1>2. \A k \in 0 .. 4 : Power[k] <= Power[4]
    <2>1. ASSUME NEW k \in 0 .. 4 PROVE Power[k] <= Power[4]
      <3>1. CASE k = 4
        BY <1>1, <3>1
      <3>2. CASE k \in 0 .. 3
        <4>1. Power[k] <= Power[3] /\ Power[k] \in Nat
          BY <3>2, LargestInt, Powers
        <4> QED
          BY <1>1, <4>1
      <3> QED
        BY <3>1, <3>2
    <2> QED
      BY <2>1
  <1>3. Power[8] = Power[4] * Power[4]
    <2>1. 4 \in 0 .. 8 /\ 8 - 4 = 4
      OBVIOUS
    <2> QED
      BY <2>1, HighPowers
  <1>4. Power[8] >= 2 * Power[5]
    <2>1. 5 \in 0 .. 7 /\ 6 \in 0 .. 7 /\ 7 \in 0 .. 7 /\ 5 + 1 = 6 /\ 6 + 1 = 7 /\ 7 + 1 = 8
      OBVIOUS
    <2>2. ASSUME NEW k \in 0 .. 7 PROVE Power[k + 1] >= 2 * Power[k] /\ Power[k] \in Nat
      <3>1. Power[k + 1] = BASE * Power[k] /\ Power[k] \in Nat
        BY Powers
      <3>2. BASE * Power[k] >= 2 * Power[k]
        BY <3>1, Base
      <3> QED
        BY <3>1, <3>2
    <2>3. Power[6] >= 2 * Power[5] /\ Power[7] >= 2 * Power[6] /\ Power[8] >= 2 * Power[7]
          /\ Power[5] \in Nat /\ Power[6] \in Nat /\ Power[7] \in Nat /\ Power[8] \in Nat
      BY <2>1, <2>2, Powers
    <2> QED
      BY <2>3
  <1> QED
    BY <1>2, <1>3, <1>4

(* From the low byte of the seconds on, all bytes are ones *)
LEMMA LeftOfOnes ==
    ASSUME NEW t \in Timestamps
    PROVE  \A i \in 3 .. 8 :
              Left(Power[8] + t)[i] = Power[8] + Left(t)[3] - Power[5] + Power[8 - i]
  <1> DEFINE T == Power[8] + t
             x == Left(t)[3]
             S == {i \in Nat : i \in 3 .. 8 =>
                                 Left(T)[i] = Power[8] + x - Power[5] + Power[8 - i]}
  <1>1. t \in Int /\ Power[8] \in Nat /\ Power[5] \in Nat /\ T \in Int
    BY Powers DEF Timestamps
  <1>2. x \in 0 .. Power[5] - 1
    <2>1. 3 \in 0 .. 8 /\ 8 - 3 = 5
      OBVIOUS
    <2> QED
      BY <2>1, LeftOver
  <1>3. Left(T)[3] = Power[8] + x
    <2>1. 3 \in 0 .. 3
      OBVIOUS
    <2> QED
      BY <2>1, LeftAfterWrap
  <1> HIDE DEF T, x
  <1>4. ASSUME NEW i \in 3 .. 7, Left(T)[i] = Power[8] + x - Power[5] + Power[8 - i]
        PROVE  Left(T)[i + 1] = Power[8] + x - Power[5] + Power[8 - (i + 1)]
    <2> DEFINE w == Power[7 - i]
               y == Left(T)[i]
               h == Power[4] \div 2
    <2>1. i \in 0 .. 7 /\ 7 - i \in 0 .. 4 /\ 7 - i \in 0 .. 7 /\ 7 - i \in 0 .. 8
          /\ (7 - i) + 1 = 8 - i /\ 8 - (i + 1) = 7 - i
      OBVIOUS
    <2>2. w \in Nat \ {0} /\ Power[8 - i] = BASE * w
      BY <2>1, Powers
    <2>3. y = Power[8] + x - Power[5] + BASE * w /\ BASE * w \in Nat /\ y \in Int
      <3>1. BASE * w \in Nat
        BY <2>2, Base
      <3> QED
        BY <1>1, <1>2, <1>4, <2>2, <3>1
    <2>4. h \in Nat /\ y >= w * h
      <3>1. h \in Nat /\ Power[4] = 2 * h
        BY LargestInt
      <3>2. w <= Power[4]
        BY <2>1, SmallPowers
      <3>3. Power[8] = Power[4] * Power[4] /\ Power[8] >= 2 * Power[5]
        BY SmallPowers
      <3> HIDE DEF h, w, y
      <3>4. Power[4] * h >= w * h
        <4>1. PICK d \in Nat : Power[4] = w + d
          <5>1. Power[4] - w \in Nat /\ Power[4] = w + (Power[4] - w)
            BY <2>2, <3>1, <3>2
          <5> QED
            BY <5>1
        <4>2. (w + d) * h = w * h + d * h /\ d * h \in Nat /\ w * h \in Nat
          BY <2>2, <3>1
        <4> QED
          BY <4>1, <4>2
      <3>5. Power[8] = 2 * (Power[4] * h) /\ Power[4] * h \in Nat
        <4>1. (2 * h) * (2 * h) = 2 * ((2 * h) * h) /\ (2 * h) * h \in Nat
          BY <3>1
        <4> QED
          BY <3>1, <3>3, <4>1
      <3>6. w * h \in Nat
        BY <2>2, <3>1
      <3> QED
        BY <1>1, <1>2, <2>3, <3>1, <3>3, <3>4, <3>5, <3>6
    <2>5. Taken(y, i) = BASE - 1
      BY <2>1, <2>3, <2>4, Ones
    <2>6. Left(T)[i + 1] = y - Taken(y, i) * w
      BY <1>1, <2>1, LeftRuns
    <2> HIDE DEF y, w
    <2>7. (BASE - 1) * w = BASE * w - w /\ (BASE - 1) * w \in Int
      BY <2>2, Base
    <2>8. Left(T)[i + 1] = y - (BASE - 1) * w
      BY <2>5, <2>6
    <2>9. Left(T)[i + 1] = Power[8] + x - Power[5] + w
      BY <1>1, <1>2, <2>2, <2>3, <2>7, <2>8
    <2> QED
      BY <2>1, <2>9 DEF w
  <1>5. 3 \in S
    <2>1. 8 - 3 = 5 /\ Power[8] + x = Power[8] + x - Power[5] + Power[5]
      BY <1>1, <1>2
    <2> QED
      BY <1>3, <2>1
  <1>6. 0 \in S
    OBVIOUS
  <1>7. ASSUME NEW i \in Nat, i \in S PROVE i + 1 \in S
    <2>1. CASE i + 1 \in 4 .. 8
      <3>1. i \in 3 .. 7 /\ i \in 3 .. 8
        BY <2>1
      <3> QED
        BY <1>4, <1>7, <3>1
    <2>2. CASE i + 1 = 3
      BY <1>5, <2>2
    <2>3. CASE i + 1 \notin 3 .. 8
      BY <2>3
    <2> QED
      BY <2>1, <2>2, <2>3
  <1> HIDE DEF S
  <1>8. Nat \subseteq S
    BY <1>6, <1>7, SetInduction
  <1> QED
    BY <1>8 DEF S, T, x

LEMMA OnesBelow ==
    ASSUME NEW t \in Timestamps, NEW noise
    PROVE  Sent(Power[8] + t, noise) = (t \div Power[5]) * Power[5] + Power[5] - 1
  <1> DEFINE T == Power[8] + t
             x == Left(t)[3]
             q == t \div Power[5]
             a == ToByteArray(Request(T), noise)
  <1>1. t \in Int /\ T \in Int /\ Power[8] \in Nat \ {0} /\ Power[5] \in Nat \ {0}
        /\ t \in 0 .. Power[8] - 1
    BY Powers DEF Timestamps
  <1>3. x \in 0 .. Power[5] - 1 /\ q \in Int /\ t = Power[5] * q + x
    <2>1. 3 \in 0 .. 8 /\ 8 - 3 = 5
      OBVIOUS
    <2>2. x \in 0 .. Power[5] - 1
      BY <2>1, LeftOver
    <2>3. PICK p \in Int : t - x = Power[5] * p
      BY <2>1, LeftOver
    <2>4. x \in Int
      BY <1>1, <2>2
    <2> HIDE DEF x
    <2>5. t = Power[5] * p + x
      <3>1. Power[5] * p \in Int
        BY <1>1
      <3> QED
        BY <1>1, <2>3, <2>4, <3>1
    <2>6. t \div Power[5] = p
      <3>1. \A j, y \in Int : \A k \in 0 .. Power[5] - 1 :
               y = Power[5] * j + k => y \div Power[5] = j
        BY <1>1, Quotients
      <3> QED
        BY <1>1, <2>2, <2>5, <3>1
    <2> QED
      BY <2>2, <2>5, <2>6
  <1>4. Left(T)[8] = Power[8] + x - Power[5] + 1
    <2>1. 8 \in 3 .. 8 /\ 8 - 8 = 0 /\ Power[0] = 1
      BY Powers
    <2> QED
      BY <2>1, LeftOfOnes
  <1>5. Request(T).transmitTimestamp = T
    BY DEF Request
  <1>6. DecodeTimestamp(a, 40) = T - Left(T)[8]
    <2>1. \A i \in 0 .. 7 : a[40 + i] = Captured(Left(T)[i], i)
      <3> DEFINE m == Request(T)
      <3>1. m.transmitTimestamp = T
        BY <1>5
      <3> HIDE DEF m, T
      <3>2. \A i \in 0 .. 7 : ToByteArray(m, noise)[40 + i] = Captured(Left(m.transmitTimestamp)[i], i)
        BY Layout
      <3> QED
        BY <3>1, <3>2 DEF m
    <2>2. 40 \in Nat
      OBVIOUS
    <2> HIDE DEF a, T
    <2> QED
      BY <1>1, <2>1, <2>2, Telescope
  <1>7. Decoded(a).transmitTimestamp = DecodeTimestamp(a, 40)
    BY DEF Decoded
  <1> HIDE DEF a, x, q
  <1>8. T - Left(T)[8] = q * Power[5] + Power[5] - 1
    <2>1. Power[5] * q = q * Power[5] /\ q * Power[5] \in Int
      BY <1>1, <1>3
    <2> QED
      BY <1>1, <1>3, <1>4, <2>1
  <1>9. Decoded(a).transmitTimestamp = q * Power[5] + Power[5] - 1
    BY <1>6, <1>7, <1>8, Zenon
  <1> QED
    BY <1>9, Zenon DEF Sent, T, a, q

(* From 2036 on the time in a request is off by up to BASE seconds, and not *)
(* by more, whatever it is and however many values a byte has: all of it    *)
(* below BASE seconds is ones (encodeTimestamp of NtpMessage.java).         *)
THEOREM WrappedTimesAreOff ==
    ASSUME NEW t \in Timestamps, NEW noise
    PROVE  /\ Sent(Power[8] + t, noise) % Power[5] = Power[5] - 1
           /\ Sent(Power[8] + t, noise) - t \in 0 .. Power[5] - 1
  <1> DEFINE P == Power[5]
             q == t \div P
             r == t % P
             s == Sent(Power[8] + t, noise)
  <1>1. P \in Nat \ {0} /\ t \in Int
    BY Powers DEF Timestamps
  <1>2. q \in Int /\ r \in 0 .. P - 1 /\ t = P * q + r
    BY <1>1, Division
  <1>3. s = q * P + P - 1
    BY OnesBelow
  <1> HIDE DEF P, q, r, s
  <1>4. s = P * q + (P - 1) /\ P * q \in Int /\ s \in Int /\ P - 1 \in 0 .. P - 1
    BY <1>1, <1>2, <1>3
  <1>5. s % P = P - 1
    BY <1>1, <1>2, <1>4, Quotients
  <1>6. s - t \in 0 .. P - 1
    BY <1>1, <1>2, <1>4
  <1> QED
    BY <1>5, <1>6 DEF P, s

===============================================================================
