----------------------------- MODULE DetectorProofs -----------------------------
(***************************************************************************)
(* Proofs about the noise detector, for every back-off, number of samples, *)
(* noise, and division of the samples into blocks.                         *)
(***************************************************************************)
EXTENDS Detector, Induction

(* What audio_handle goes through: its back-off and the samples reported *)
State == [backoff : 0 .. BACKOFF - 1, booms : SUBSET Nat]

After(a, i, louds) ==
    LET boom == Reports(a.backoff, i \in louds)
    IN  [backoff |-> NextBackoff(a.backoff, boom),
         booms |-> a.booms \cup {j \in {i} : boom}]

LEMMA AfterType ==
    ASSUME NEW a \in State, NEW i \in Nat, NEW louds
    PROVE  After(a, i, louds) \in State
  BY DetectorAssumption DEF State, After, Reports, NextBackoff, CountedDown

(* One sample, case by case *)
LEMMA AfterCases ==
    ASSUME NEW a \in State, NEW i \in Nat, NEW louds
    PROVE  LET b == After(a, i, louds)
           IN  \/ /\ a.backoff = 0 /\ i \in louds
                  /\ b.backoff = BACKOFF - 1 /\ b.booms = a.booms \cup {i}
               \/ /\ a.backoff = 0 /\ i \notin louds /\ b.backoff = 0 /\ b.booms = a.booms
               \/ /\ a.backoff > 0 /\ b.backoff = a.backoff - 1 /\ b.booms = a.booms
  BY DetectorAssumption DEF State, After, Reports, NextBackoff, CountedDown

(* audio_handle does what its loop does, sample by sample *)
Run(at, backoff, samples, louds) ==
    /\ at[0] = [backoff |-> backoff, booms |-> {}]
    /\ \A i \in 1 .. samples : at[i] = After(at[i - 1], i, louds)

LEMMA HandledRuns ==
    ASSUME NEW backoff \in 0 .. BACKOFF - 1, NEW samples \in Nat, NEW louds
    PROVE  \E at \in [0 .. samples -> State] :
              /\ Run(at, backoff, samples, louds)
              /\ Handled(backoff, samples, louds) = at[samples]
  <1> DEFINE v0 == [backoff |-> backoff, booms |-> {}]
             Value(f, i) ==
                IF i = 0 THEN [backoff |-> backoff, booms |-> {}]
                ELSE LET boom == Reports(f[i - 1].backoff, i \in louds)
                     IN  [backoff |-> NextBackoff(f[i - 1].backoff, boom),
                          booms |-> f[i - 1].booms \cup {j \in {i} : boom}]
             Equation(f) == f = [i \in 0 .. samples |-> Value(f, i)]
             Step == [x \in State \X Nat |-> After(x[1], x[2], louds)]
             at == CHOOSE f : Equation(f)
  <1>1. v0 \in State
    BY DetectorAssumption DEF State
  <1>2. Step \in [State \X Nat -> State]
    BY AfterType
  <1>3. \A a \in State, i \in Nat : Step[<<a, i>>] = After(a, i, louds)
    OBVIOUS
  <1>4. \A f, i : Value(f, i) = IF i = 0 THEN v0 ELSE After(f[i - 1], i, louds)
    BY DEF After
  <1> HIDE DEF Step, v0, Value
  <1>5. PICK g \in [0 .. samples -> State] :
            Computes(g, v0, Step, samples)
    BY <1>1, <1>2, Recursion
  <1>6. \A i \in 1 .. samples : g[i] = After(g[i - 1], i, louds)
    <2> SUFFICES ASSUME NEW i \in 1 .. samples PROVE g[i] = After(g[i - 1], i, louds)
      OBVIOUS
    <2>1. i \in Nat /\ i - 1 \in 0 .. samples
      OBVIOUS
    <2> QED
      BY <1>3, <1>5, <2>1, Zenon DEF Computes
  <1>7. Equation(g)
    <2>1. \A i \in 0 .. samples : g[i] = Value(g, i)
      BY <1>4, <1>5, <1>6 DEF Computes
    <2> QED
      BY <2>1
  <1>8. Equation(at)
    BY <1>7
  <1>9. Handled(backoff, samples, louds) = at[samples]
    BY DEF Handled, Value
  <1> HIDE DEF at
  <1>10. at[0] = v0 /\ \A i \in 1 .. samples : at[i] = After(at[i - 1], i, louds)
    BY <1>4, <1>8
  <1>11. \A i \in Nat : i \in 0 .. samples => at[i] \in State
    <2> DEFINE S == {i \in Nat : i \in 0 .. samples => at[i] \in State}
    <2>1. 0 \in S
      BY <1>1, <1>10
    <2>2. ASSUME NEW i \in Nat, i \in S PROVE i + 1 \in S
      BY <1>10, <2>2, AfterType
    <2> HIDE DEF S
    <2>3. Nat \subseteq S
      BY <2>1, <2>2, SetInduction
    <2> QED
      BY <2>3 DEF S
  <1>12. at \in [0 .. samples -> State]
    BY <1>8, <1>11
  <1> QED
    BY <1>9, <1>10, <1>12 DEF Run, v0

-----------------------------------------------------------------------------
(* What holds after i samples of a block that begins with back-off b0: no   *)
(* report before the back-off is over or within BACKOFF of another one, the *)
(* back-off that is left, why there is any, and that no loud sample was     *)
(* missed but for it.                                                       *)
RunOK(b0, i, louds, a) ==
    /\ a.booms \subseteq louds /\ a.booms \subseteq 1 .. i
    /\ \A j \in a.booms : j > b0 /\ i - j + a.backoff >= BACKOFF - 1
    /\ b0 - i <= a.backoff
    /\ \A j, k \in a.booms : j < k => k - j >= BACKOFF
    /\ a.backoff > 0 => a.backoff = b0 - i \/ \E j \in a.booms : i - j + a.backoff = BACKOFF - 1
    /\ \A l \in louds : l \in 1 .. i => l <= b0 \/ \E b \in a.booms : b <= l /\ l < b + BACKOFF

LEMMA RunStep ==
    ASSUME NEW b0 \in 0 .. BACKOFF - 1, NEW i \in Nat, NEW louds \in SUBSET Nat,
           NEW a \in State, NEW c \in State, c = After(a, i + 1, louds), RunOK(b0, i, louds, a)
    PROVE  RunOK(b0, i + 1, louds, c)
  <1> USE DetectorAssumption
  <1>1. a.backoff \in 0 .. BACKOFF - 1 /\ a.booms \in SUBSET Nat
    BY DEF State
  <1>2. CASE /\ a.backoff = 0 /\ i + 1 \in louds
             /\ c.backoff = BACKOFF - 1 /\ c.booms = a.booms \cup {i + 1}
    BY <1>1, <1>2 DEF RunOK
  <1>3. CASE a.backoff = 0 /\ i + 1 \notin louds /\ c.backoff = 0 /\ c.booms = a.booms
    BY <1>1, <1>3 DEF RunOK
  <1>4. CASE a.backoff > 0 /\ c.backoff = a.backoff - 1 /\ c.booms = a.booms
    BY <1>1, <1>4 DEF RunOK
  <1> QED
    BY <1>2, <1>3, <1>4, AfterCases

LEMMA HandledOK ==
    ASSUME NEW backoff \in 0 .. BACKOFF - 1, NEW samples \in Nat, NEW louds \in SUBSET Nat
    PROVE  /\ Handled(backoff, samples, louds) \in State
           /\ RunOK(backoff, samples, louds, Handled(backoff, samples, louds))
  <1>1. PICK at \in [0 .. samples -> State] :
            Run(at, backoff, samples, louds) /\ Handled(backoff, samples, louds) = at[samples]
    BY HandledRuns
  <1> DEFINE S == {i \in Nat : i \in 0 .. samples => RunOK(backoff, i, louds, at[i])}
  <1>2. 0 \in S
    BY <1>1 DEF Run, RunOK
  <1>3. ASSUME NEW i \in Nat, i \in S PROVE i + 1 \in S
    <2> SUFFICES ASSUME i + 1 \in 0 .. samples PROVE RunOK(backoff, i + 1, louds, at[i + 1])
      OBVIOUS
    <2>1. i \in 0 .. samples /\ i + 1 \in 1 .. samples /\ i + 1 - 1 = i
      OBVIOUS
    <2>2. at[i + 1] = After(at[i], i + 1, louds) /\ at[i] \in State /\ at[i + 1] \in State
      BY <1>1, <2>1 DEF Run
    <2> QED
      BY <1>3, <2>1, <2>2, RunStep
  <1> HIDE DEF S
  <1>4. Nat \subseteq S
    BY <1>2, <1>3, SetInduction
  <1> QED
    BY <1>1, <1>4 DEF S

(* The samples of noise are reported once per back-off wherever blocks of   *)
(* them begin and end: only loud ones, no two within BACKOFF of each other, *)
(* and every loud one unless it comes within BACKOFF of one that was.       *)
THEOREM OncePerBackoffAlways == \A n \in Nat : OncePerBackoff(n)
  <1> SUFFICES ASSUME NEW n \in Nat, NEW louds \in SUBSET (1 .. n), NEW k \in 0 .. n,
                      NEW booms, booms = Reported(n, k, louds)
               PROVE  /\ booms \subseteq louds
                      /\ \A i, j \in booms : i < j => j - i >= BACKOFF
                      /\ \A i \in louds : \E b \in booms : b <= i /\ i < b + BACKOFF
    BY DEF OncePerBackoff
  <1> USE DetectorAssumption
  <1> DEFINE late == {i - k : i \in {j \in louds : j > k}}
             one == Handled(0, k, louds)
             two == Handled(one.backoff, n - k, late)
  <1>1. one \in State /\ RunOK(0, k, louds, one)
    BY HandledOK
  <1>2. late \in SUBSET Nat /\ n - k \in Nat
    OBVIOUS
  <1>3. two \in State /\ RunOK(one.backoff, n - k, late, two)
    BY <1>1, <1>2, HandledOK DEF State
  <1>4. booms = one.booms \cup {i + k : i \in two.booms}
    BY DEF Reported
  <1> HIDE DEF one, two
  <1>5. /\ one.backoff \in 0 .. BACKOFF - 1 /\ one.booms \in SUBSET Nat
        /\ two.backoff \in 0 .. BACKOFF - 1 /\ two.booms \in SUBSET Nat
    BY <1>1, <1>3 DEF State
  <1>6. \A i \in booms : i \in one.booms \/ i - k \in two.booms
    BY <1>4, <1>5
  <1>7. \A i \in late : i + k \in louds
    OBVIOUS
  <1>8. \A i \in louds : i > k => i - k \in late
    OBVIOUS
  <1> HIDE DEF late
  <1>9. booms \subseteq louds
    BY <1>1, <1>3, <1>4, <1>5, <1>7 DEF RunOK
  <1>10. ASSUME NEW i \in booms, NEW j \in booms, i < j
         PROVE  j - i >= BACKOFF
    <2>1. i \in Nat /\ j \in Nat
      BY <1>9
    <2>2. CASE i \in one.booms /\ j \in one.booms
      BY <1>1, <1>10, <2>2 DEF RunOK
    <2>3. CASE i \in one.booms /\ j - k \in two.booms
      <3>1. j - k > one.backoff
        BY <1>3, <2>3 DEF RunOK
      <3>2. k - i + one.backoff >= BACKOFF - 1
        BY <1>1, <2>3 DEF RunOK
      <3> QED
        BY <1>5, <2>1, <3>1, <3>2
    <2>4. CASE i - k \in two.booms /\ j \in one.booms
      <3>1. i - k > 0 /\ j <= k
        BY <1>1, <1>3, <1>5, <2>4 DEF RunOK
      <3> QED
        BY <1>10, <2>1, <3>1
    <2>5. CASE i - k \in two.booms /\ j - k \in two.booms
      <3>1. (j - k) - (i - k) >= BACKOFF
        BY <1>3, <1>10, <2>1, <2>5 DEF RunOK
      <3> QED
        BY <2>1, <3>1
    <2> QED
      BY <1>6, <2>2, <2>3, <2>4, <2>5
  <1>11. ASSUME NEW i \in louds
         PROVE  \E b \in booms : b <= i /\ i < b + BACKOFF
    <2>1. i \in 1 .. n
      OBVIOUS
    <2>2. CASE i <= k
      <3>1. PICK b \in one.booms : b <= i /\ i < b + BACKOFF
        BY <1>1, <2>1, <2>2 DEF RunOK
      <3> QED
        BY <1>4, <3>1
    <2>3. CASE i > k
      <3>1. i - k \in late /\ i - k \in 1 .. n - k
        BY <1>8, <2>1, <2>3
      <3>2. CASE i - k <= one.backoff
        <4>1. PICK b \in one.booms : k - b + one.backoff = BACKOFF - 1
          BY <1>1, <1>5, <2>3, <3>2 DEF RunOK
        <4>2. b <= k /\ b \in Nat
          BY <1>1, <1>5, <4>1 DEF RunOK
        <4>3. b <= i /\ i < b + BACKOFF
          BY <1>5, <2>1, <2>3, <3>2, <4>1, <4>2
        <4> QED
          BY <1>4, <4>1, <4>3
      <3>3. CASE \E b \in two.booms : b <= i - k /\ i - k < b + BACKOFF
        <4>1. PICK b \in two.booms : b <= i - k /\ i - k < b + BACKOFF
          BY <3>3
        <4>2. b + k \in booms /\ b \in Nat
          BY <1>4, <1>5, <4>1
        <4>3. b + k <= i /\ i < b + k + BACKOFF
          BY <2>1, <4>1, <4>2
        <4> QED
          BY <4>2, <4>3
      <3> QED
        BY <1>3, <3>1, <3>2, <3>3 DEF RunOK
    <2> QED
      BY <2>1, <2>2, <2>3
  <1> QED
    BY <1>9, <1>10, <1>11

-----------------------------------------------------------------------------
(* Long runs of samples of one level *)

(* The running average stays between what it was and the level. *)
LEMMA AverageType ==
    ASSUME NEW vavg \in Nat, NEW v \in Levels
    PROVE  Average(vavg, v) \in Nat
  BY DEF Average, Levels, SCALE

LEMMA HeardType == ASSUME NEW e \in Ear PROVE Heard(e) \in Ear
  <1>1. /\ e.vavg \in Nat /\ e.backoff \in Nat /\ e.booms \in Nat /\ e.v \in Levels
    BY DEF Ear
  <1>2. Average(e.vavg, e.v) \in Nat
    BY <1>1, AverageType
  <1>3. CountedDown(BACKOFF) \in Nat /\ CountedDown(e.backoff) \in Nat
    BY <1>1, DetectorAssumption DEF CountedDown
  <1>4. e.booms + 1 \in Nat
    BY <1>1
  <1> QED
    BY <1>1, <1>2, <1>3, <1>4 DEF Heard, NextBackoff, Ear

(* Listen, which halves n, hears n samples one after the other. *)
Hears(g) == \A e \in Ear : g[0][e] = e /\ \A n \in Nat : g[n + 1][e] = Heard(g[n][e])

LEMMA Hearing == \E g \in [Nat -> [Ear -> Ear]] : Hears(g)
  <1> DEFINE V == [Ear -> Ear]
             v0 == [e \in Ear |-> e]
             Next1(F) == [e \in Ear |-> Heard(F[e])]
             Step == [x \in V \X Nat |-> Next1(x[1])]
  <1>1. v0 \in V
    OBVIOUS
  <1>2. \A F \in V : Next1(F) \in V
    BY HeardType
  <1>3. Step \in [V \X Nat -> V] /\ \A F \in V, n \in Nat : Step[<<F, n>>] = Next1(F)
    <2> HIDE DEF V, Next1
    <2> QED
      BY <1>2
  <1> HIDE DEF V, v0, Step
  <1>4. PICK g \in [Nat -> V] : ComputesAll(g, v0, Step)
    BY <1>1, <1>3, RecursionOnNat
  <1>5. \A e \in Ear : g[0][e] = e
    BY <1>4 DEF ComputesAll, v0
  <1>6. ASSUME NEW e \in Ear, NEW n \in Nat PROVE g[n + 1][e] = Heard(g[n][e])
    <2>1. n + 1 \in Nat \ {0} /\ (n + 1) - 1 = n
      OBVIOUS
    <2>2. g[n + 1] = Step[<<g[n], n + 1>>]
      BY <1>4, <2>1 DEF ComputesAll
    <2>3. g[n + 1] = Next1(g[n])
      BY <1>3, <2>2
    <2> QED
      BY <2>3
  <1> QED
    BY <1>4, <1>5, <1>6 DEF V, Hears

LEMMA HearMore ==
    ASSUME NEW g \in [Nat -> [Ear -> Ear]], Hears(g), NEW m \in Nat
    PROVE  \A n \in Nat, e \in Ear : g[n][g[m][e]] = g[m + n][e]
  <1> DEFINE S == {n \in Nat : \A e \in Ear : g[n][g[m][e]] = g[m + n][e]}
  <1>1. 0 \in S
    BY DEF Hears
  <1>2. ASSUME NEW n \in Nat, n \in S PROVE n + 1 \in S
    <2> SUFFICES ASSUME NEW e \in Ear PROVE g[n + 1][g[m][e]] = g[m + (n + 1)][e]
      OBVIOUS
    <2>1. g[m][e] \in Ear
      OBVIOUS
    <2>2. g[n + 1][g[m][e]] = Heard(g[n][g[m][e]])
      BY <2>1 DEF Hears
    <2>3. g[n][g[m][e]] = g[m + n][e]
      BY <1>2
    <2>4. g[(m + n) + 1][e] = Heard(g[m + n][e]) /\ (m + n) + 1 = m + (n + 1)
      BY DEF Hears
    <2> QED
      BY <2>2, <2>3, <2>4
  <1> HIDE DEF S
  <1>3. Nat \subseteq S
    BY <1>1, <1>2, SetInduction
  <1> QED
    BY <1>3 DEF S

LEMMA ListenHears == Listen \in [Nat -> [Ear -> Ear]] /\ Hears(Listen)
  <1> DEFINE Value(f, n) == [e \in Ear |-> IF n = 0 THEN e
                                           ELSE IF n = 1 THEN Heard(e)
                                           ELSE f[n - n \div 2][f[n \div 2][e]]]
             Equation(f) == f = [n \in Nat |-> Value(f, n)]
  <1>1. PICK g \in [Nat -> [Ear -> Ear]] : Hears(g)
    BY Hearing
  <1>2. \A n \in Nat : n # 0 /\ n # 1 =>
            /\ n \div 2 \in Nat /\ n - n \div 2 \in Nat
            /\ n \div 2 < n /\ n - n \div 2 < n
            /\ n \div 2 + (n - n \div 2) = n
    OBVIOUS
  <1>3. \A e \in Ear : g[1][e] = Heard(e)
    <2>1. \A e \in Ear : g[0][e] = e /\ g[0 + 1][e] = Heard(g[0][e])
      BY <1>1 DEF Hears
    <2> QED
      BY <2>1
  <1>4. /\ \A f : Value(f, 0) = [e \in Ear |-> e]
        /\ \A f : Value(f, 1) = [e \in Ear |-> Heard(e)]
        /\ \A f, n : n # 0 /\ n # 1 =>
              Value(f, n) = [e \in Ear |-> f[n - n \div 2][f[n \div 2][e]]]
    OBVIOUS
  <1>5. ASSUME NEW n \in Nat PROVE g[n] = Value(g, n)
    <2> HIDE DEF Value
    <2>0. g[n] \in [Ear -> Ear]
      BY <1>1
    <2>1. CASE n = 0
      <3>1. \A e \in Ear : g[n][e] = e
        BY <1>1, <2>1 DEF Hears
      <3>2. Value(g, n) = [e \in Ear |-> e]
        BY <1>4, <2>1
      <3> QED
        BY <2>0, <3>1, <3>2
    <2>2. CASE n = 1
      <3>1. \A e \in Ear : g[n][e] = Heard(e)
        BY <1>3, <2>2
      <3>2. Value(g, n) = [e \in Ear |-> Heard(e)]
        BY <1>4, <2>2
      <3> QED
        BY <2>0, <3>1, <3>2
    <2>3. CASE n # 0 /\ n # 1
      <3>1. n \div 2 \in Nat /\ n - n \div 2 \in Nat /\ n \div 2 + (n - n \div 2) = n
        BY <1>2, <2>3
      <3>2. \A e \in Ear : g[n - n \div 2][g[n \div 2][e]] = g[n \div 2 + (n - n \div 2)][e]
        BY <1>1, <3>1, HearMore
      <3>3. \A e \in Ear : g[n][e] = g[n - n \div 2][g[n \div 2][e]]
        BY <3>1, <3>2
      <3>4. Value(g, n) = [e \in Ear |-> g[n - n \div 2][g[n \div 2][e]]]
        BY <2>3 DEF Value
      <3> QED
        BY <2>0, <3>3, <3>4
    <2> QED
      BY <2>1, <2>2, <2>3
  <1>6. Listen = CHOOSE f : Equation(f)
    BY DEF Listen
  <1> HIDE DEF Value
  <1>7. Equation(g)
    BY <1>1, <1>5
  <1>8. Equation(Listen)
    BY <1>6, <1>7
  <1>9. \A n \in Nat : Listen[n] = Value(Listen, n)
    BY <1>8
  <1> DEFINE S == {k \in Nat : \A n \in 0 .. k : Listen[n] = g[n]}
  <1>10. Listen[0] = g[0] /\ Listen[1] = g[1]
    <2>1. Listen[0] = [e \in Ear |-> e] /\ g[0] = [e \in Ear |-> e]
      BY <1>4, <1>5, <1>9
    <2>2. Listen[1] = [e \in Ear |-> Heard(e)] /\ g[1] = [e \in Ear |-> Heard(e)]
      BY <1>4, <1>5, <1>9
    <2> QED
      BY <2>1, <2>2
  <1>11. 0 \in S
    BY <1>10
  <1>12. ASSUME NEW k \in Nat, k \in S PROVE k + 1 \in S
    <2> SUFFICES ASSUME NEW n \in 0 .. k + 1 PROVE Listen[n] = g[n]
      OBVIOUS
    <2>1. CASE n = 0 \/ n = 1
      BY <1>10, <2>1
    <2>2. CASE n # 0 /\ n # 1
      <3>1. n \div 2 \in 0 .. k /\ n - n \div 2 \in 0 .. k
        BY <1>2, <2>2
      <3>2. Listen[n \div 2] = g[n \div 2] /\ Listen[n - n \div 2] = g[n - n \div 2]
        BY <1>12, <3>1
      <3>3. Listen[n] = [e \in Ear |-> Listen[n - n \div 2][Listen[n \div 2][e]]]
        BY <1>4, <1>9, <2>2
      <3>4. g[n] = [e \in Ear |-> g[n - n \div 2][g[n \div 2][e]]]
        <4>1. n \in Nat
          OBVIOUS
        <4>2. g[n] = Value(g, n)
          BY <1>5, <4>1
        <4>3. Value(g, n) = [e \in Ear |-> g[n - n \div 2][g[n \div 2][e]]]
          BY <2>2 DEF Value
        <4> QED
          BY <4>2, <4>3
      <3> QED
        BY <3>2, <3>3, <3>4
    <2> QED
      BY <2>1, <2>2
  <1> HIDE DEF S
  <1>13. Nat \subseteq S
    BY <1>11, <1>12, SetInduction
  <1>14. ASSUME NEW n \in Nat PROVE Listen[n] = g[n]
    <2>1. n \in S /\ n \in 0 .. n
      BY <1>13
    <2> QED
      BY <2>1 DEF S
  <1>15. Listen = g
    <2>1. Listen = [n \in Nat |-> Value(Listen, n)]
      BY <1>8
    <2> QED
      BY <1>1, <1>14, <2>1
  <1> QED
    BY <1>1, <1>15

-----------------------------------------------------------------------------
(* How the average catches up *)

(* How far the level is above the average *)
Gap(e) == e.v * SCALE - e.vavg

(* Once within the threshold, it stays there; above it, it shrinks by a     *)
(* thousandth of the threshold at least.                                    *)
LEMMA GapShrinks ==
    ASSUME NEW e \in Ear
    PROVE  /\ Heard(e).v = e.v
           /\ Gap(Heard(e)) = Gap(e) - Gap(e) \div 1000
           /\ Gap(e) \in Int
           /\ Gap(e) <= THRESHOLD * SCALE => Gap(Heard(e)) <= THRESHOLD * SCALE
           /\ Gap(e) > THRESHOLD * SCALE => Gap(Heard(e)) <= Gap(e) - 83886
  <1>1. e.vavg \in Nat /\ e.v * SCALE \in Int
    BY DEF Ear, Levels, SCALE
  <1>2. Heard(e).v = e.v /\ Heard(e).vavg = e.vavg + (e.v * SCALE - e.vavg) \div 1000
    BY DEF Heard, Average
  <1>3. Gap(e) \in Int /\ Gap(Heard(e)) = Gap(e) - Gap(e) \div 1000
    <2> DEFINE x == e.v * SCALE
               y == e.vavg
    <2>1. x \in Int /\ y \in Int
      BY <1>1
    <2>2. Gap(e) = x - y /\ Gap(Heard(e)) = x - (y + (x - y) \div 1000)
      BY <1>2 DEF Gap
    <2> HIDE DEF x, y
    <2> QED
      BY <2>1, <2>2
  <1>4. \A n \in Int : n <= THRESHOLD * SCALE => n - n \div 1000 <= THRESHOLD * SCALE
    BY DEF THRESHOLD, SCALE
  <1>5. \A n \in Int : n > THRESHOLD * SCALE => n - n \div 1000 <= n - 83886
    BY DEF THRESHOLD, SCALE
  <1> QED
    BY <1>2, <1>3, <1>4, <1>5

(* One sample, case by case *)
LEMMA HeardCases ==
    ASSUME NEW e \in Ear
    PROVE  LET f == Heard(e)
           IN  \/ /\ e.backoff = 0 /\ Gap(f) > THRESHOLD * SCALE
                  /\ f.backoff = BACKOFF - 1 /\ f.booms = e.booms + 1
               \/ /\ e.backoff = 0 /\ Gap(f) <= THRESHOLD * SCALE
                  /\ f.backoff = 0 /\ f.booms = e.booms
               \/ e.backoff > 0 /\ f.backoff = e.backoff - 1 /\ f.booms = e.booms
  <1>1. e.backoff \in Nat /\ e.booms \in Nat
    BY DEF Ear
  <1>2. Gap(Heard(e)) \in Int /\ THRESHOLD * SCALE \in Int
    BY HeardType, GapShrinks DEF THRESHOLD, SCALE
  <1>3. Exceeds(Average(e.vavg, e.v), e.v) <=> Gap(Heard(e)) > THRESHOLD * SCALE
    BY DEF Exceeds, Gap, Heard
  <1> DEFINE loud == Exceeds(Average(e.vavg, e.v), e.v)
             boom == Reports(e.backoff, loud)
  <1>4. /\ Heard(e).backoff = CountedDown(IF boom THEN BACKOFF ELSE e.backoff)
        /\ Heard(e).booms = IF boom THEN e.booms + 1 ELSE e.booms
        /\ boom <=> e.backoff = 0 /\ loud
    BY DEF Heard, Reports, NextBackoff
  <1> HIDE DEF loud, boom
  <1>5. loud <=> Gap(Heard(e)) > THRESHOLD * SCALE
    BY <1>3 DEF loud
  <1> QED
    BY <1>1, <1>2, <1>4, <1>5, DetectorAssumption DEF CountedDown

(* What n samples leave of a change by less than the threshold, and by more *)
QuietAfter(e) == e.booms = 0 /\ e.backoff = 0 /\ Gap(e) <= THRESHOLD * SCALE
LoudAfter(e, n) ==
    /\ e.booms = 1
    /\ e.backoff = IF n < BACKOFF THEN BACKOFF - n ELSE 0
    /\ Gap(e) <= THRESHOLD * SCALE \/ Gap(e) <= 255 * SCALE - 83886 * n

LEMMA QuietStays ==
    ASSUME NEW e \in Ear, QuietAfter(e)
    PROVE  QuietAfter(Heard(e))
  <1>1. Gap(Heard(e)) <= THRESHOLD * SCALE /\ Gap(Heard(e)) \in Int
    BY HeardType, GapShrinks DEF QuietAfter
  <1> QED
    BY <1>1, HeardCases DEF QuietAfter, THRESHOLD, SCALE

LEMMA LoudStays ==
    ASSUME BACKOFF >= 2188, NEW e \in Ear, NEW n \in Nat \ {0}, LoudAfter(e, n)
    PROVE  LoudAfter(Heard(e), n + 1)
  <1>1. Gap(e) \in Int /\ Gap(Heard(e)) \in Int
    BY HeardType, GapShrinks
  <1>2. Gap(Heard(e)) <= THRESHOLD * SCALE \/ Gap(Heard(e)) <= 255 * SCALE - 83886 * (n + 1)
    <2>1. CASE Gap(e) <= THRESHOLD * SCALE
      BY <2>1, GapShrinks
    <2>2. CASE Gap(e) > THRESHOLD * SCALE
      <3>1. Gap(Heard(e)) <= Gap(e) - 83886 /\ Gap(e) <= 255 * SCALE - 83886 * n
        BY <1>1, <2>2, GapShrinks DEF LoudAfter, THRESHOLD, SCALE
      <3> QED
        BY <1>1, <3>1 DEF SCALE
    <2> QED
      BY <1>1, <2>1, <2>2 DEF THRESHOLD, SCALE
  <1>3. CASE n < BACKOFF
    <2>1. e.backoff = BACKOFF - n /\ e.backoff > 0
      BY <1>3, DetectorAssumption DEF LoudAfter
    <2>2. Heard(e).backoff = BACKOFF - n - 1 /\ Heard(e).booms = 1
      BY <2>1, HeardCases DEF LoudAfter
    <2>3. BACKOFF - n - 1 = IF n + 1 < BACKOFF THEN BACKOFF - (n + 1) ELSE 0
      BY <1>3, DetectorAssumption
    <2> QED
      BY <1>2, <2>2, <2>3 DEF LoudAfter
  <1>4. CASE n >= BACKOFF
    <2>1. e.backoff = 0 /\ ~(n + 1 < BACKOFF)
      BY <1>4, DetectorAssumption DEF LoudAfter
    <2>2. Gap(e) <= THRESHOLD * SCALE
      BY <1>1, <1>4, DetectorAssumption DEF LoudAfter, THRESHOLD, SCALE
    <2>3. Gap(Heard(e)) <= THRESHOLD * SCALE
      BY <2>2, GapShrinks
    <2>4. Heard(e).backoff = 0 /\ Heard(e).booms = 1
      BY <1>1, <2>1, <2>3, HeardCases DEF LoudAfter, THRESHOLD, SCALE
    <2> QED
      BY <1>2, <2>1, <2>4 DEF LoudAfter
  <1> QED
    BY <1>3, <1>4, DetectorAssumption

(* A lasting change of the level, from any level to any other, is reported  *)
(* once if it exceeds the threshold and never otherwise, for every back-off *)
(* long enough for the average to catch up: the 4000 samples of the code    *)
(* are almost twice that.                                                   *)
THEOREM LastingNoiseOnce ==
    BACKOFF >= 2188 => \A v0, v \in Levels : ReportedOnce(v0, v)
  <1> SUFFICES ASSUME BACKOFF >= 2188, NEW v0 \in Levels, NEW v \in Levels
               PROVE  ReportedOnce(v0, v)
    OBVIOUS
  <1> DEFINE e0 == [vavg |-> v0 * SCALE, backoff |-> 0, booms |-> 0, v |-> v]
  <1>1. /\ e0 \in Ear /\ Gap(e0) = (v - v0) * SCALE
        /\ e0.backoff = 0 /\ e0.booms = 0
    BY DEF Ear, Levels, SCALE, Gap
  <1> HIDE DEF e0
  <1>2. \A n \in Nat : Listen[n][e0] \in Ear /\ Listen[n + 1][e0] = Heard(Listen[n][e0])
    BY <1>1, ListenHears DEF Hears
  <1>3. Listen[0][e0] = e0
    BY <1>1, ListenHears DEF Hears
  <1>4. 2 * BACKOFF \in Nat /\ 2 * BACKOFF - 1 \in Nat
    BY DetectorAssumption
  <1>5. CASE v - v0 <= THRESHOLD
    <2> DEFINE S == {n \in Nat : QuietAfter(Listen[n][e0])}
    <2>1. 0 \in S
      <3>1. (v - v0) * SCALE <= THRESHOLD * SCALE
        BY <1>5 DEF Levels, THRESHOLD, SCALE
      <3> QED
        BY <1>1, <1>3, <3>1 DEF QuietAfter
    <2>2. \A n \in Nat : n \in S => n + 1 \in S
      BY <1>2, QuietStays
    <2> HIDE DEF S
    <2>3. 2 * BACKOFF \in S
      BY <1>4, <2>1, <2>2, SetInduction
    <2>4. Listen[2 * BACKOFF][e0].booms = 0
      BY <1>1, <1>2, <1>4, <2>3 DEF S, QuietAfter
    <2>5. ~(v - v0 > THRESHOLD)
      BY <1>5 DEF Levels, THRESHOLD
    <2> QED
      BY <2>4, <2>5 DEF ReportedOnce, e0
  <1>6. CASE v - v0 > THRESHOLD
    <2> DEFINE S == {n \in Nat : LoudAfter(Listen[n + 1][e0], n + 1)}
    <2>1. 0 \in S
      <3>1. Listen[1][e0] = Heard(e0)
        <4>1. Listen[0 + 1][e0] = Heard(Listen[0][e0])
          BY <1>2
        <4> QED
          BY <1>3, <4>1
      <3>2. Gap(e0) >= 81 * SCALE /\ Gap(e0) <= 255 * SCALE /\ Gap(e0) \in Int
        BY <1>1, <1>6 DEF Levels, THRESHOLD, SCALE
      <3>3. Gap(Heard(e0)) > THRESHOLD * SCALE /\ Gap(Heard(e0)) \in Int
        <4>1. \A n \in Int : n >= 81 * SCALE => n - n \div 1000 > THRESHOLD * SCALE
          BY DEF THRESHOLD, SCALE
        <4>2. Gap(Heard(e0)) = Gap(e0) - Gap(e0) \div 1000 /\ Gap(Heard(e0)) \in Int
          BY <1>1, HeardType, GapShrinks
        <4> QED
          BY <3>2, <4>1, <4>2
      <3>4. Gap(Heard(e0)) <= 255 * SCALE - 83886 * 1
        <4>1. Gap(e0) > THRESHOLD * SCALE
          BY <3>2 DEF THRESHOLD, SCALE
        <4>2. Gap(Heard(e0)) <= Gap(e0) - 83886
          BY <1>1, <4>1, GapShrinks
        <4> QED
          BY <3>2, <3>3, <4>2 DEF SCALE
      <3>5. Heard(e0).backoff = BACKOFF - 1 /\ Heard(e0).booms = 1
        BY <1>1, <3>3, HeardCases DEF THRESHOLD, SCALE
      <3>6. BACKOFF - 1 = IF 1 < BACKOFF THEN BACKOFF - 1 ELSE 0
        BY DetectorAssumption
      <3>7. LoudAfter(Heard(e0), 1)
        BY <3>4, <3>5, <3>6 DEF LoudAfter
      <3> QED
        BY <3>1, <3>7
    <2>2. ASSUME NEW n \in Nat, n \in S PROVE n + 1 \in S
      <3>1. n + 1 \in Nat \ {0} /\ Listen[n + 1][e0] \in Ear
        BY <1>2
      <3>2. LoudAfter(Heard(Listen[n + 1][e0]), (n + 1) + 1)
        BY <2>2, <3>1, LoudStays
      <3>3. Listen[(n + 1) + 1][e0] = Heard(Listen[n + 1][e0])
        BY <1>2, <3>1
      <3> QED
        BY <3>2, <3>3
    <2> HIDE DEF S
    <2>3. 2 * BACKOFF - 1 \in S
      BY <1>4, <2>1, <2>2, SetInduction
    <2>4. (2 * BACKOFF - 1) + 1 = 2 * BACKOFF
      BY DetectorAssumption
    <2>5. Listen[2 * BACKOFF][e0].booms = 1
      BY <1>1, <1>2, <1>4, <2>3, <2>4 DEF S, LoudAfter
    <2> QED
      BY <1>6, <2>5 DEF ReportedOnce, e0
  <1> QED
    BY <1>5, <1>6 DEF Levels, THRESHOLD
===============================================================================
