------------------------------- MODULE NtpProofs -------------------------------
(***************************************************************************)
(* Proofs about Ntp, for every interval, pool size, trip time and clock.   *)
(***************************************************************************)
EXTENDS Ntp, Induction

(* TypeOK, but for what AverageOK adds *)
Typed ==
    /\ pc \in {"loop", "stamp", "timer_stamp", "reschedule"}
    /\ req \in Nat /\ n \in 0 .. 2 /\ t_send \in Int
    /\ offset_pool \in [Slots -> Int] /\ offset_head \in Slots
    /\ due \in Int
    /\ net \subseteq Datagram /\ dups \in Nat
    /\ now \in Nat /\ skew \in Int /\ steps \in Nat
    /\ steady \in BOOLEAN /\ good \in 0 .. POOL_SIZE

(* No datagram is older than MaxTrip, and the server stamps it in order *)
InTime(m) ==
    /\ m.sent <= now /\ now <= m.sent + MaxTrip
    /\ m.at # "request" => m.sent <= m.t2 /\ m.t2 <= now
    /\ m.at = "response" => m.t2 <= m.t3 /\ m.t3 <= now
NetInTime == \A m \in net : InTime(m)

(* When no call of ntp_sync is on its way, the latest T1 was taken after all *)
(* requests that are still under way were sent, which is what bounds it      *)
(* whatever request a response answers.                                      *)
StampedLast ==
    steady /\ pc \in {"loop", "reschedule"} =>
        /\ t_send <= wall
        /\ \A m \in net : m.sent + skew <= t_send

(* How long the rest of the burst takes from the request of one exchange on *)
RestOfBurst == IF n = 2 THEN 3 * MaxTrip ELSE IF n = 1 THEN 2 * MaxTrip ELSE MaxTrip

(* Every burst is over before the timer is due again *)
BurstFits ==
    Undisturbed =>
        /\ pc \in {"loop", "stamp"} => \A m \in net : m.sent + RestOfBurst <= due - skew
        /\ pc \in {"timer_stamp", "reschedule"} => n = 2

Inv == Typed /\ NetInTime /\ StampedLast /\ BurstFits /\ PoolRecovers

(* The next slot of the ring, without the modulus *)
LEMMA NextSlot ==
    ASSUME NEW P \in Nat \ {0}, NEW h \in 0 .. P - 1
    PROVE  /\ h + 1 < P => (h + 1) % P = h + 1
           /\ h + 1 = P => (h + 1) % P = 0
  BY Z3

LEMMA Capped ==
    ASSUME NEW a \in Int, NEW b \in Int
    PROVE  Min({a, b}) = IF a <= b THEN a ELSE b
  BY DEF Min

LEMMA InitInv == Init => Inv
  <1> SUFFICES ASSUME Init PROVE Inv
    OBVIOUS
  <1> USE NtpAssumption
  <1>1. Typed
    BY SMT DEF Init, Typed, Slots, wall, Request, Datagram
  <1>2. NetInTime
    BY SMT DEF Init, NetInTime, InTime, Request
  <1>3. StampedLast
    <2>1. ~(pc \in {"loop", "reschedule"})
      BY DEF Init
    <2> QED
      BY <2>1, Zenon DEF StampedLast
  <1>4. BurstFits
    <2>1. pc = "stamp" /\ n = 2
      BY DEF Init
    <2>2. \A m \in net : m.sent = 0
      BY DEF Init, Request
    <2>3. due - skew = Interval
      BY DEF Init, wall
    <2>4. ASSUME 3 * MaxTrip <= Interval, NEW m \in net
          PROVE  m.sent + RestOfBurst <= due - skew
      BY <2>1, <2>2, <2>3, <2>4 DEF RestOfBurst
    <2>5. ~(pc \in {"timer_stamp", "reschedule"})
      BY <2>1
    <2> QED
      BY <2>1, <2>4, <2>5, Zenon DEF BurstFits, Undisturbed
  <1>5. PoolRecovers
    BY SMT DEF Init, PoolRecovers
  <1> QED
    BY <1>1, <1>2, <1>3, <1>4, <1>5 DEF Inv

-----------------------------------------------------------------------------
(* What the actions do to the network, stated once *)

LEMMA RequestFacts ==
    ASSUME Typed, NEW id \in Nat
    PROVE  /\ Request(id) \in Datagram
           /\ Request(id).at = "request" /\ Request(id).id = id /\ Request(id).sent = now
  BY DEF Request, Datagram, Typed

LEMMA TakeFacts ==
    ASSUME Typed, NEW m, NEW rest, Take(m, rest)
    PROVE  rest \subseteq net /\ dups' \in Nat
  <1>1. rest \subseteq net /\ (dups' = dups \/ (steps + dups < MaxFaults /\ dups' = dups + 1))
    BY DEF Take
  <1>2. dups \in Nat
    BY NtpAssumption DEF Typed
  <1> QED
    BY <1>1, <1>2

(* A datagram the server has stamped, and one it sends *)
LEMMA ServerFacts ==
    ASSUME Typed, NEW m \in net
    PROVE  LET r == [m EXCEPT !.at = "server", !.t2 = now]
               s == [m EXCEPT !.at = "response", !.t3 = now]
           IN  /\ r \in Datagram /\ r.at = "server" /\ r.sent = m.sent /\ r.t2 = now
               /\ r.id = m.id
               /\ s \in Datagram /\ s.at = "response" /\ s.sent = m.sent /\ s.t2 = m.t2
               /\ s.t3 = now /\ s.id = m.id
  BY DEF Typed, Datagram

LEMMA OffsetIsInt ==
    ASSUME Typed, NEW m \in net
    PROVE  Offset(m) \in Int
  BY DEF Typed, Datagram, Offset, wall

LEMMA TypedStep == Inv /\ [Next]_vars => Typed'
  <1> SUFFICES ASSUME Inv, [Next]_vars PROVE Typed'
    OBVIOUS
  <1> USE NtpAssumption
  <1>0. Typed
    BY DEF Inv
  <1>1. CASE Stamp
    <2>1. t_send' \in Int /\ steady' \in BOOLEAN /\ pc' \in {"loop", "reschedule"}
      BY <1>0, <1>1 DEF Stamp, Typed, wall
    <2>2. UNCHANGED <<req, n, offset_pool, offset_head, due, net, dups, now, skew, steps, good>>
      BY <1>1 DEF Stamp, network, clock
    <2> QED
      BY <1>0, <2>1, <2>2 DEF Typed, Slots
  <1>2. CASE OnTimer
    <2>1. net' \subseteq Datagram /\ req' \in Nat
      <3>1. Request(req + 1) \in Datagram /\ req + 1 \in Nat
        BY <1>0, RequestFacts DEF Typed
      <3> QED
        BY <1>0, <1>2, <3>1 DEF OnTimer, SendRequest, Typed
    <2> QED
      BY <1>0, <1>2, <2>1 DEF OnTimer, Typed, clock, ghosts, Slots
  <1>3. CASE Reschedule
    BY <1>0, <1>3 DEF Reschedule, Typed, wall, network, clock, ghosts, Slots
  <1>4. ASSUME NEW m \in net, OnWarmUp(m)
        PROVE  Typed'
    <2>1. net' \subseteq Datagram /\ req' \in Nat /\ dups' \in Nat
      <3>1. Request(req + 1) \in Datagram /\ req + 1 \in Nat
        BY <1>0, RequestFacts DEF Typed
      <3>2. PICK rest : Take(m, rest) /\ SendRequest(rest)
        BY <1>4 DEF OnWarmUp
      <3>3. rest \subseteq net /\ dups' \in Nat
        BY <1>0, <3>2, TakeFacts
      <3> QED
        BY <1>0, <3>1, <3>2, <3>3 DEF SendRequest, Typed
    <2> QED
      BY <1>0, <1>4, <2>1 DEF OnWarmUp, Remaining, Typed, clock, ghosts, Slots
  <1>5. ASSUME NEW m \in net, OnMeasurement(m)
        PROVE  Typed'
    <2>1. Offset(m) \in Int
      BY <1>0, OffsetIsInt
    <2>2. offset_pool' \in [Slots -> Int]
      BY <1>0, <1>5, <2>1 DEF OnMeasurement, Typed
    <2>3. offset_head' \in Slots
      <3>1. offset_head' = (offset_head + 1) % POOL_SIZE
        BY <1>5 DEF OnMeasurement, NextHead
      <3> QED
        BY <1>0, <3>1, NextSlot DEF Typed, Slots
    <2>4. good' \in 0 .. POOL_SIZE
      <3>1. good' = Min({good + 1, POOL_SIZE}) \/ good' = 0
        BY <1>5 DEF OnMeasurement
      <3> QED
        <4>1. good \in 0 .. POOL_SIZE /\ POOL_SIZE \in Nat
          BY <1>0 DEF Typed
        <4> QED
          BY <3>1, <4>1, Capped
    <2>5. net' \subseteq Datagram /\ dups' \in Nat
      <3>1. Take(m, net')
        BY <1>5 DEF OnMeasurement
      <3>2. net' \subseteq net /\ dups' \in Nat
        BY <1>0, <3>1, TakeFacts
      <3> QED
        BY <1>0, <3>2 DEF Typed
    <2> QED
      BY <1>0, <1>5, <2>2, <2>3, <2>4, <2>5 DEF OnMeasurement, Typed, clock
  <1>6. ASSUME NEW m \in net, ServerReceive(m) \/ ServerSend(m)
        PROVE  Typed'
    <2>1. net' \subseteq Datagram /\ dups' \in Nat
      <3>1. CASE ServerReceive(m)
        <4>1. PICK rest :
                 Take(m, rest) /\ net' = rest \cup {[m EXCEPT !.at = "server", !.t2 = now]}
          BY <3>1 DEF ServerReceive
        <4>2. rest \subseteq net /\ dups' \in Nat
          BY <1>0, <4>1, TakeFacts
        <4>3. [m EXCEPT !.at = "server", !.t2 = now] \in Datagram
          BY <1>0, ServerFacts
        <4> QED
          BY <1>0, <4>1, <4>2, <4>3 DEF Typed
      <3>2. CASE ServerSend(m)
        BY <1>0, <3>2, ServerFacts DEF ServerSend, Typed
      <3> QED
        BY <1>6, <3>1, <3>2
    <2>2. UNCHANGED <<client, clock, ghosts>>
      BY <1>6 DEF ServerReceive, ServerSend
    <2> QED
      BY <1>0, <2>1, <2>2 DEF Typed, client, clock, ghosts, Slots
  <1>7. CASE Tick
    BY <1>0, <1>7 DEF Tick, Typed, client, ghosts, Slots
  <1>8. CASE StepClock
    <2>1. skew' \in Int /\ steps' \in Nat /\ good' \in 0 .. POOL_SIZE
      BY <1>0, <1>8 DEF StepClock, Typed
    <2>3. steady' \in BOOLEAN
      BY <1>8 DEF StepClock
    <2>2. UNCHANGED <<client, network, now>>
      BY <1>8 DEF StepClock
    <2> QED
      BY <1>0, <2>1, <2>2, <2>3 DEF Typed, client, network, Slots
  <1>9. CASE UNCHANGED vars
    BY <1>0, <1>9 DEF vars, client, network, clock, ghosts, Typed, Slots
  <1> QED
    BY <1>1, <1>2, <1>3, <1>4, <1>5, <1>6, <1>7, <1>8, <1>9
    DEF Next, Receive, Server, TimeUp

LEMMA NetInTimeStep == Inv /\ [Next]_vars => NetInTime'
  <1> SUFFICES ASSUME Inv, [Next]_vars PROVE NetInTime'
    OBVIOUS
  <1> USE NtpAssumption
  <1>0. Typed /\ NetInTime
    BY DEF Inv
  <1>a. ASSUME net' \subseteq net, now' = now
        PROVE  NetInTime'
    BY <1>0, <1>a DEF NetInTime, InTime
  <1>b. ASSUME NEW rest \in SUBSET net, SendRequest(rest), now' = now
        PROVE  NetInTime'
    <2>1. Request(req + 1).at = "request" /\ Request(req + 1).sent = now
      BY DEF Request
    <2>2. \A m \in net' : m \in net \/ (m.at = "request" /\ m.sent = now)
      BY <1>b, <2>1 DEF SendRequest
    <2>3. ASSUME NEW m \in net'
          PROVE  InTime(m)'
      <3>1. CASE m \in net
        BY <1>0, <1>b, <3>1 DEF NetInTime, InTime
      <3>2. CASE m.at = "request" /\ m.sent = now
        BY <1>0, <1>b, <3>2 DEF InTime, Typed
      <3> QED
        BY <2>2, <3>1, <3>2
    <2> QED
      BY <2>3 DEF NetInTime
  <1>1. CASE Stamp
    BY <1>1, <1>a DEF Stamp, network, clock
  <1>2. CASE OnTimer
    BY <1>2, <1>b DEF OnTimer, clock
  <1>3. CASE Reschedule
    BY <1>3, <1>a DEF Reschedule, network, clock
  <1>4. ASSUME NEW m \in net, OnWarmUp(m)
        PROVE  NetInTime'
    <2>1. PICK rest : Take(m, rest) /\ SendRequest(rest)
      BY <1>4 DEF OnWarmUp
    <2>2. rest \in SUBSET net
      BY <1>0, <2>1, TakeFacts
    <2> QED
      BY <1>4, <1>b, <2>1, <2>2 DEF OnWarmUp, clock
  <1>5. ASSUME NEW m \in net, OnMeasurement(m)
        PROVE  NetInTime'
    <2>1. Take(m, net')
      BY <1>5 DEF OnMeasurement
    <2> QED
      BY <1>5, <1>a, <2>1, TakeFacts DEF OnMeasurement, clock
  <1>6. ASSUME NEW m \in net, ServerReceive(m) \/ ServerSend(m)
        PROVE  NetInTime'
    <2>1. now' = now
      BY <1>6 DEF ServerReceive, ServerSend, clock
    <2>2. InTime(m) /\ m \in Datagram
      BY <1>0 DEF NetInTime, Typed
    <2>3. PICK r : /\ net' \subseteq net \cup {r}
                   /\ r.sent = m.sent
                   /\ \/ r.at = "server" /\ r.t2 = now
                      \/ m.at = "server" /\ r.at = "response" /\ r.t2 = m.t2 /\ r.t3 = now
      <3> DEFINE r1 == [m EXCEPT !.at = "server", !.t2 = now]
                 r2 == [m EXCEPT !.at = "response", !.t3 = now]
      <3>1. CASE ServerReceive(m)
        <4>1. net' \subseteq net \cup {r1}
          BY <3>1, TakeFacts DEF ServerReceive
        <4>2. r1.sent = m.sent /\ r1.at = "server" /\ r1.t2 = now
          BY <1>0, ServerFacts
        <4> QED
          BY <4>1, <4>2
      <3>2. CASE ServerSend(m)
        <4>1. net' \subseteq net \cup {r2} /\ m.at = "server"
          BY <3>2 DEF ServerSend
        <4>2. r2.sent = m.sent /\ r2.at = "response" /\ r2.t2 = m.t2 /\ r2.t3 = now
          BY <1>0, ServerFacts
        <4> QED
          BY <4>1, <4>2
      <3> QED
        BY <1>6, <3>1, <3>2
    <2>4. InTime(r)'
      BY <1>0, <2>1, <2>2, <2>3 DEF InTime, Typed, Datagram
    <2>5. \A s \in net : InTime(s)'
      BY <1>0, <2>1 DEF NetInTime, InTime
    <2> QED
      BY <2>3, <2>4, <2>5 DEF NetInTime
  <1>7. CASE Tick
    <2>1. now' = now + 1 /\ net' = {m \in net : now' - m.sent <= MaxTrip}
      BY <1>7 DEF Tick
    <2>2. ASSUME NEW m \in net' PROVE InTime(m)'
      <3>1. m \in net /\ now' - m.sent <= MaxTrip
        BY <2>1
      <3>2. m \in Datagram /\ InTime(m)
        BY <1>0, <3>1 DEF Typed, NetInTime
      <3> QED
        BY <1>0, <2>1, <3>1, <3>2 DEF InTime, Typed, Datagram
    <2> QED
      BY <2>2 DEF NetInTime
  <1>8. CASE StepClock
    BY <1>8, <1>a DEF StepClock, network
  <1>9. CASE UNCHANGED vars
    BY <1>9, <1>a DEF vars, network, clock
  <1> QED
    BY <1>1, <1>2, <1>3, <1>4, <1>5, <1>6, <1>7, <1>8, <1>9
    DEF Next, Receive, Server, TimeUp

(* A datagram that the server has changed keeps the time of its request *)
LEMMA SameRequests ==
    ASSUME Typed, NEW m \in net, ServerReceive(m) \/ ServerSend(m), NEW s \in net'
    PROVE  \E t \in net : s.sent = t.sent
  <1> DEFINE r1 == [m EXCEPT !.at = "server", !.t2 = now]
             r2 == [m EXCEPT !.at = "response", !.t3 = now]
  <1>1. r1.sent = m.sent /\ r2.sent = m.sent
    BY ServerFacts
  <1> HIDE DEF r1, r2
  <1>2. CASE ServerReceive(m)
    <2>1. s \in net \/ s = r1
      BY <1>2, TakeFacts DEF ServerReceive, r1
    <2> QED
      BY <1>1, <2>1
  <1>3. CASE ServerSend(m)
    <2>1. s \in net \/ s = r2
      BY <1>3 DEF ServerSend, r2
    <2> QED
      BY <1>1, <2>1
  <1> QED
    BY <1>2, <1>3

LEMMA StampedLastStep == Inv /\ [Next]_vars => StampedLast'
  <1> SUFFICES ASSUME Inv, [Next]_vars, steady', pc' \in {"loop", "reschedule"}
               PROVE  /\ t_send' <= wall'
                      /\ \A m \in net' : m.sent + skew' <= t_send'
    BY Zenon DEF StampedLast
  <1> USE NtpAssumption
  <1>0. Typed /\ NetInTime /\ StampedLast
    BY DEF Inv
  <1>a. ASSUME steady, pc \in {"loop", "reschedule"}
        PROVE  t_send <= wall /\ \A m \in net : m.sent + skew <= t_send
    BY <1>0, <1>a DEF StampedLast
  <1>1. CASE Stamp
    <2>1. net' = net /\ t_send' = wall /\ skew' = skew /\ now' = now
      BY <1>1 DEF Stamp, network, clock
    <2>2. \A m \in net : m.sent + skew <= wall
      BY <1>0 DEF NetInTime, InTime, Typed, Datagram, wall
    <2>3. wall' = wall /\ wall \in Int
      BY <1>0, <2>1 DEF wall, Typed
    <2> QED
      BY <2>1, <2>2, <2>3
  <1>2. CASE OnTimer
    BY <1>2 DEF OnTimer
  <1>3. CASE Reschedule
    <2>1. net' = net /\ t_send' = t_send /\ skew' = skew /\ now' = now /\ pc = "reschedule"
          /\ steady' = steady
      BY <1>3 DEF Reschedule, network, clock, ghosts
    <2> QED
      BY <1>a, <2>1 DEF wall
  <1>4. ASSUME NEW m \in net, OnWarmUp(m)
        PROVE  FALSE
    BY <1>4 DEF OnWarmUp
  <1>5. ASSUME NEW m \in net, OnMeasurement(m)
        PROVE  t_send' <= wall' /\ \A s \in net' : s.sent + skew' <= t_send'
    <2>1. UNCHANGED <<t_send, now, skew, steady>> /\ pc = "loop" /\ net' \subseteq net
      BY <1>5, TakeFacts DEF OnMeasurement, clock
    <2> QED
      BY <1>a, <2>1 DEF wall
  <1>6. ASSUME NEW m \in net, ServerReceive(m) \/ ServerSend(m)
        PROVE  t_send' <= wall' /\ \A s \in net' : s.sent + skew' <= t_send'
    <2>1. UNCHANGED <<t_send, now, skew, steady, pc>>
      BY <1>6 DEF ServerReceive, ServerSend, clock, client, ghosts
    <2>2. \A s \in net' : \E t \in net : s.sent = t.sent
      BY <1>0, <1>6, SameRequests
    <2> QED
      BY <1>a, <2>1, <2>2 DEF wall
  <1>7. CASE Tick
    <2>1. net' \subseteq net /\ UNCHANGED <<t_send, skew, pc, steady>>
      BY <1>7 DEF Tick, client, ghosts
    <2>2. wall \in Int /\ t_send \in Int /\ wall' = wall + 1
      BY <1>0, <1>7 DEF Tick, Typed, wall
    <2> QED
      BY <1>a, <2>1, <2>2
  <1>8. CASE StepClock
    BY <1>8 DEF StepClock
  <1>9. CASE UNCHANGED vars
    BY <1>9, <1>a DEF vars, client, network, clock, ghosts, wall
  <1> QED
    BY <1>1, <1>2, <1>3, <1>4, <1>5, <1>6, <1>7, <1>8, <1>9
    DEF Next, Receive, Server, TimeUp

(* The next request of a burst, or what is left of the old one *)
LEMMA NextExchange ==
    ASSUME NEW M \in Nat, NEW r \in Nat, NEW r1 \in Nat, NEW s \in Nat, NEW t \in Nat,
           NEW d \in Int, r1 + M = r, s + r <= d, t <= s + M
    PROVE  t + r1 <= d /\ s + r1 <= d
  OBVIOUS

(* When the timer is due the network is empty *)
LEMMA NetEmpty ==
    ASSUME Inv, Undisturbed, pc = "loop", due < wall
    PROVE  net = {}
  <1> USE NtpAssumption
  <1>0. Typed /\ NetInTime /\ BurstFits
    BY DEF Inv
  <1>1. ASSUME NEW m \in net PROVE FALSE
    <2>1. m.sent + RestOfBurst <= due - skew
      BY <1>0 DEF BurstFits
    <2>2. now <= m.sent + MaxTrip /\ m.sent \in Nat
      BY <1>0 DEF NetInTime, InTime, Typed, Datagram
    <2>3. RestOfBurst \in Nat /\ MaxTrip <= RestOfBurst
      BY DEF RestOfBurst
    <2> QED
      BY <1>0, <2>1, <2>2, <2>3 DEF Typed, wall
  <1> QED
    BY <1>1

LEMMA BurstFitsStep == Inv /\ [Next]_vars => BurstFits'
  <1> SUFFICES ASSUME Inv, [Next]_vars, steps' = 0, 3 * MaxTrip <= Interval
               PROVE  /\ pc' \in {"loop", "stamp"} =>
                            \A m \in net' : m.sent + RestOfBurst' <= due' - skew'
                      /\ pc' \in {"timer_stamp", "reschedule"} => n' = 2
    BY Zenon DEF BurstFits, Undisturbed
  <1> USE NtpAssumption
  <1>0. Typed /\ NetInTime /\ BurstFits
    BY DEF Inv
  <1>a. ASSUME steps = 0
        PROVE  /\ pc \in {"loop", "stamp"} => \A m \in net : m.sent + RestOfBurst <= due - skew
               /\ pc \in {"timer_stamp", "reschedule"} => n = 2
    BY <1>0, <1>a, Zenon DEF BurstFits, Undisturbed
  <1>1. CASE Stamp
    <2>1. steps = 0 /\ UNCHANGED <<net, n, due, skew>>
      BY <1>1 DEF Stamp, network, clock
    <2>2. \/ pc = "stamp" /\ pc' = "loop"
          \/ pc = "timer_stamp" /\ pc' = "reschedule"
      BY <1>1 DEF Stamp
    <2> QED
      BY <1>a, <2>1, <2>2 DEF RestOfBurst
  <1>2. CASE OnTimer
    <2>1. pc' = "timer_stamp" /\ n' = 2
      BY <1>2 DEF OnTimer
    <2> QED
      BY <2>1
  <1>3. CASE Reschedule
    <2>1. steps = 0 /\ UNCHANGED <<net, n, skew, now>> /\ pc = "reschedule"
      BY <1>3 DEF Reschedule, network, clock
    <2>2. due' = wall + Interval /\ pc' = "loop"
      BY <1>3 DEF Reschedule
    <2>3. ASSUME NEW m \in net PROVE m.sent + 3 * MaxTrip <= due' - skew
      <3>1. m.sent <= now /\ m.sent \in Nat
        BY <1>0 DEF NetInTime, InTime, Typed, Datagram
      <3> QED
        BY <1>0, <2>2, <3>1 DEF Typed, wall
    <2>4. n' = 2
      BY <1>a, <2>1
    <2> QED
      BY <1>a, <2>1, <2>2, <2>3, <2>4 DEF RestOfBurst
  <1>4. ASSUME NEW m \in net, OnWarmUp(m)
        PROVE  /\ pc' = "stamp"
               /\ \A s \in net' : s.sent + RestOfBurst' <= due' - skew'
    <2>1. steps = 0 /\ UNCHANGED <<due, skew>> /\ pc = "loop" /\ pc' = "stamp"
      BY <1>4 DEF OnWarmUp, clock, ghosts
    <2>2. n > 0 /\ n' = n - 1
      BY <1>4 DEF OnWarmUp, Remaining
    <2>3. PICK rest : Take(m, rest) /\ SendRequest(rest)
      BY <1>4 DEF OnWarmUp
    <2>4. rest \subseteq net
      BY <1>0, <2>3, TakeFacts
    <2>5. RestOfBurst' + MaxTrip = RestOfBurst /\ RestOfBurst' \in Nat /\ RestOfBurst \in Nat
      BY <1>0, <2>2 DEF RestOfBurst, Typed
    <2>6. now + RestOfBurst' <= due - skew
      <3>1. m.sent + RestOfBurst <= due - skew
        BY <1>a, <2>1
      <3>2. now <= m.sent + MaxTrip /\ m.sent \in Nat
        BY <1>0 DEF NetInTime, InTime, Typed, Datagram
      <3>3. due - skew \in Int /\ now \in Nat /\ MaxTrip \in Nat
        BY <1>0 DEF Typed
      <3> QED
        BY <2>5, <3>1, <3>2, <3>3, NextExchange
    <2>7. ASSUME NEW s \in net' PROVE s.sent + RestOfBurst' <= due - skew
      <3>1. CASE s \in net
        <4>1. s.sent + RestOfBurst <= due - skew /\ s.sent \in Nat
          BY <1>0, <1>a, <2>1, <3>1 DEF Typed, Datagram
        <4>2. due - skew \in Int /\ MaxTrip \in Nat /\ s.sent <= s.sent + MaxTrip
          BY <1>0, <4>1 DEF Typed
        <4> QED
          BY <2>5, <4>1, <4>2, NextExchange
      <3>2. CASE s = Request(req + 1)
        BY <2>6, <3>2 DEF Request
      <3> QED
        BY <2>3, <2>4, <3>1, <3>2 DEF SendRequest
    <2> QED
      BY <1>a, <2>1, <2>7
  <1>5. ASSUME NEW m \in net, OnMeasurement(m)
        PROVE  /\ pc' = "loop"
               /\ \A s \in net' : s.sent + RestOfBurst' <= due' - skew'
    <2>1. steps = 0 /\ UNCHANGED <<n, due, skew, pc>> /\ pc = "loop"
      BY <1>5 DEF OnMeasurement, clock
    <2>2. net' \subseteq net
      BY <1>5, TakeFacts DEF OnMeasurement
    <2> QED
      BY <1>a, <2>1, <2>2 DEF RestOfBurst
  <1>6. ASSUME NEW m \in net, ServerReceive(m) \/ ServerSend(m)
        PROVE  /\ UNCHANGED <<pc, n>>
               /\ pc \in {"loop", "stamp"} =>
                     \A s \in net' : s.sent + RestOfBurst' <= due' - skew'
    <2>1. steps = 0 /\ UNCHANGED <<n, due, skew, pc>>
      BY <1>6 DEF ServerReceive, ServerSend, clock, client, ghosts
    <2>2. \A s \in net' : \E t \in net : s.sent = t.sent
      BY <1>0, <1>6, SameRequests
    <2> QED
      BY <1>a, <2>1, <2>2 DEF RestOfBurst
  <1>7. CASE Tick
    <2>1. steps = 0 /\ UNCHANGED <<n, due, skew, pc>> /\ net' \subseteq net
      BY <1>7 DEF Tick, client, ghosts
    <2> QED
      BY <1>a, <2>1 DEF RestOfBurst
  <1>8. CASE StepClock
    BY <1>0, <1>8 DEF StepClock, Typed
  <1>9. CASE UNCHANGED vars
    <2>1. steps = 0 /\ UNCHANGED <<n, due, skew, pc, net>>
      BY <1>9 DEF vars, client, network, clock
    <2> QED
      BY <1>a, <2>1 DEF RestOfBurst
  <1> QED
    <2>1. CASE Receive
      BY <2>1, <1>4, <1>5, Zenon DEF Receive
    <2>2. CASE Server
      BY <2>2, <1>a, <1>6 DEF Server, ServerReceive, ServerSend, clock
    <2> QED
      BY <1>1, <1>2, <1>3, <2>1, <2>2, <1>7, <1>8, <1>9 DEF Next, TimeUp

(* The slots of the latest measurements when one more has been stored *)
LEMMA LatestShifts ==
    ASSUME Typed, offset_head' = NextHead
    PROVE  /\ (Latest(1))' = offset_head
           /\ \A k \in 2 .. POOL_SIZE :
                 /\ (Latest(k))' = Latest(k - 1)
                 /\ Latest(k - 1) # offset_head
                 /\ Latest(k - 1) \in Slots
  <1> USE NtpAssumption
  <1>1. /\ offset_head + 1 < POOL_SIZE => offset_head' = offset_head + 1
        /\ offset_head + 1 = POOL_SIZE => offset_head' = 0
    BY NextSlot DEF NextHead, Typed, Slots
  <1>2. offset_head \in 0 .. POOL_SIZE - 1 /\ POOL_SIZE \in Nat \ {0}
    BY DEF Typed, Slots
  <1>3. Latest(1)' = offset_head
    BY <1>1, <1>2 DEF Latest
  <1>4. ASSUME NEW k \in 2 .. POOL_SIZE
        PROVE  Latest(k)' = Latest(k - 1) /\ Latest(k - 1) # offset_head /\ Latest(k - 1) \in Slots
    BY <1>1, <1>2 DEF Latest, Slots
  <1> QED
    BY <1>3, <1>4

LEMMA PoolRecoversStep == Inv /\ [Next]_vars => PoolRecovers'
  <1> SUFFICES ASSUME Inv, [Next]_vars PROVE PoolRecovers'
    OBVIOUS
  <1> USE NtpAssumption
  <1>0. Typed /\ NetInTime /\ StampedLast /\ PoolRecovers
    BY DEF Inv
  <1>1. ASSUME UNCHANGED <<offset_pool, offset_head, good, skew>>
        PROVE  PoolRecovers'
    BY <1>0, <1>1 DEF PoolRecovers, Accurate, Latest
  <1>2. CASE StepClock
    BY <1>2 DEF StepClock, PoolRecovers
  <1>3. ASSUME NEW m \in net, OnMeasurement(m)
        PROVE  PoolRecovers'
    <2>1. /\ offset_pool' = [offset_pool EXCEPT ![offset_head] = Offset(m)]
          /\ offset_head' = NextHead
          /\ good' = IF steady THEN Min({good + 1, POOL_SIZE}) ELSE 0
          /\ skew' = skew /\ pc = "loop" /\ m.at = "response"
      BY <1>3 DEF OnMeasurement, clock
    <2>2. CASE ~steady
      BY <2>1, <2>2 DEF PoolRecovers
    <2>3. CASE steady
      <3>1. good' \in Nat /\ good' <= good + 1 /\ good' <= POOL_SIZE
        BY <1>0, <2>1, <2>3 DEF Min, Typed
      <3>2. Accurate(Offset(m))
        <4>1. t_send <= wall /\ m.sent + skew <= t_send
          BY <1>0, <2>1, <2>3 DEF StampedLast
        <4>2. /\ m.sent <= m.t2 /\ m.t2 <= m.t3 /\ m.t3 <= now
              /\ now <= m.sent + MaxTrip
          BY <1>0, <2>1 DEF NetInTime, InTime
        <4>3. m.sent \in Nat /\ m.t2 \in Nat /\ m.t3 \in Nat
          BY <1>0 DEF Typed, Datagram
        <4> QED
          BY <1>0, <4>1, <4>2, <4>3 DEF Accurate, Offset, wall, Typed
      <3>3. ASSUME NEW k \in 1 .. good' PROVE Accurate(offset_pool[Latest(k)])'
        <4>1. CASE k = 1
          <5>1. Latest(k)' = offset_head
            BY <1>0, <2>1, <4>1, LatestShifts
          <5>2. offset_pool'[offset_head] = Offset(m)
            BY <1>0, <2>1 DEF Typed
          <5> QED
            BY <2>1, <3>2, <5>1, <5>2 DEF Accurate
        <4>2. CASE k > 1
          <5>1. k \in 2 .. POOL_SIZE /\ k - 1 \in 1 .. good
            BY <1>0, <3>1, <4>2 DEF Typed
          <5>2. /\ Latest(k)' = Latest(k - 1)
                /\ Latest(k - 1) # offset_head
                /\ Latest(k - 1) \in Slots
            BY <1>0, <2>1, <5>1, LatestShifts
          <5>3. offset_pool'[Latest(k)'] = offset_pool[Latest(k - 1)]
            BY <1>0, <2>1, <5>2 DEF Typed
          <5>4. Accurate(offset_pool[Latest(k - 1)])
            BY <1>0, <5>1 DEF PoolRecovers
          <5> QED
            BY <2>1, <5>3, <5>4 DEF Accurate
        <4> QED
          BY <3>1, <4>1, <4>2
      <3> QED
        BY <3>3 DEF PoolRecovers, Latest, Accurate
    <2> QED
      BY <2>2, <2>3
  <1>4. ASSUME NEW m \in net, OnWarmUp(m) \/ ServerReceive(m) \/ ServerSend(m)
        PROVE  PoolRecovers'
    BY <1>1, <1>4 DEF OnWarmUp, ServerReceive, ServerSend, client, clock, ghosts
  <1>5. CASE Stamp \/ OnTimer \/ Reschedule \/ Tick \/ UNCHANGED vars
    BY <1>1, <1>5 DEF Stamp, OnTimer, Reschedule, Tick, vars, client, clock, ghosts
  <1> QED
    BY <1>2, <1>3, <1>4, <1>5 DEF Next, Receive, Server, TimeUp

-----------------------------------------------------------------------------
LEMMA InvHolds == Spec => []Inv
  <1>1. Inv /\ [Next]_vars => Inv'
    BY TypedStep, NetInTimeStep, StampedLastStep, BurstFitsStep, PoolRecoversStep DEF Inv
  <1> QED
    BY InitInv, <1>1, PTL DEF Spec

(* As long as the clock is not stepped and three round trips fit into the   *)
(* interval, bursts do not overlap, however long the pool and the interval,  *)
(* and however many datagrams are duplicated.                                *)
THEOREM NtpBurstsDoNotOverlap == Spec => BurstsDoNotOverlap
  <1>1. Inv /\ [Next]_vars
            => [Undisturbed /\ pc' = "timer_stamp" /\ pc # "timer_stamp" => net = {}]_vars
    <2> SUFFICES ASSUME Inv, Next, Undisturbed, pc' = "timer_stamp", pc # "timer_stamp"
                 PROVE  net = {}
      OBVIOUS
    <2>1. OnTimer
      BY DEF Next, Stamp, Reschedule, Receive, OnWarmUp, OnMeasurement, Server, ServerReceive,
             ServerSend, Tick, StepClock, TimeUp, client, vars
    <2> QED
      BY <2>1, NetEmpty DEF OnTimer
  <1> QED
    BY InvHolds, <1>1, PTL DEF Spec, BurstsDoNotOverlap

(* The offset pool is right as far back as the clock was not stepped: for    *)
(* every pool size, it recovers from a step in POOL_SIZE measurements.       *)
THEOREM NtpPoolRecovers == Spec => []PoolRecovers
  <1>1. Inv => PoolRecovers
    BY DEF Inv
  <1> QED
    BY InvHolds, <1>1, PTL

-----------------------------------------------------------------------------
(* The average *)

(* The pool is filled slot by slot; what it has not reached counts as empty. *)
(* From the first measurement on clock_offset is the average of the pool.    *)
AverageOK ==
    /\ filled \in 0 .. POOL_SIZE /\ good <= filled
    /\ filled < POOL_SIZE => /\ offset_head = filled
                             /\ \A i \in Slots : i >= filled => offset_pool[i] = 0
    /\ filled = 0 => clock_offset = [sum |-> 0, count |-> 1]
    /\ filled > 0 => clock_offset = Average(offset_pool)
    /\ armed \in BOOLEAN /\ skew \in Skews

LEMMA AverageStep == Inv /\ AverageOK /\ [Next]_vars => AverageOK'
  <1> SUFFICES ASSUME Inv, AverageOK, [Next]_vars PROVE AverageOK'
    OBVIOUS
  <1> USE NtpAssumption
  <1>0. Typed
    BY DEF Inv
  <1>1. ASSUME NEW m \in net, OnMeasurement(m) PROVE AverageOK'
    <2>1. /\ offset_pool' = [offset_pool EXCEPT ![offset_head] = Offset(m)]
          /\ offset_head' = NextHead
          /\ clock_offset' = Average(offset_pool')
          /\ filled' = Min({filled + 1, POOL_SIZE})
          /\ UNCHANGED <<armed, skew>>
      BY <1>1 DEF OnMeasurement, clock
    <2>2. good' = Min({good + 1, POOL_SIZE}) \/ good' = 0
      BY <1>1 DEF OnMeasurement
    <2>3. filled' = IF filled < POOL_SIZE THEN filled + 1 ELSE POOL_SIZE
      BY <2>1 DEF Min, AverageOK
    <2>4. good' <= filled' /\ filled' \in 1 .. POOL_SIZE
      <3>1. good \in 0 .. POOL_SIZE /\ POOL_SIZE \in Nat \ {0} /\ filled \in 0 .. POOL_SIZE
            /\ good <= filled
        BY <1>0 DEF AverageOK, Typed
      <3>2. Min({good + 1, POOL_SIZE}) = IF good + 1 <= POOL_SIZE THEN good + 1 ELSE POOL_SIZE
        BY <3>1, Capped
      <3> QED
        BY <2>2, <2>3, <3>1, <3>2
    <2>5. ASSUME filled' < POOL_SIZE
          PROVE  offset_head' = filled' /\ \A i \in Slots : i >= filled' => offset_pool'[i] = 0
      <3>1. filled < POOL_SIZE /\ filled' = filled + 1 /\ offset_head = filled
        BY <2>3, <2>5 DEF AverageOK
      <3>2. offset_head' = filled'
        BY <1>0, <2>1, <2>5, <3>1, NextSlot DEF NextHead, Typed, Slots
      <3>3. ASSUME NEW i \in Slots, i >= filled' PROVE offset_pool'[i] = 0
        <4>1. i # offset_head /\ i >= filled
          BY <3>1, <3>3 DEF Slots, AverageOK
        <4> QED
          BY <1>0, <2>1, <3>1, <4>1 DEF Typed, AverageOK
      <3> QED
        BY <3>2, <3>3
    <2>6. armed' \in BOOLEAN /\ skew' \in Skews
      BY <2>1 DEF AverageOK
    <2>7. filled' # 0 /\ filled' > 0 /\ filled' \in 0 .. POOL_SIZE
      BY <2>4
    <2> QED
      BY <2>1, <2>4, <2>5, <2>6, <2>7 DEF AverageOK, Slots
  <1>2. ASSUME UNCHANGED <<offset_pool, offset_head, clock_offset, filled>>,
               good' = good \/ good' = 0, armed' \in BOOLEAN, skew' \in Skews
        PROVE  AverageOK'
    <2>1. Average(offset_pool') = Average(offset_pool)
      BY <1>2
    <2>2. good' <= filled'
      BY <1>2 DEF AverageOK
    <2> QED
      BY <1>2, <2>1, <2>2 DEF AverageOK, Slots
  <1>3. ASSUME NEW m \in net, OnWarmUp(m) \/ ServerReceive(m) \/ ServerSend(m)
        PROVE  AverageOK'
    <2>1. UNCHANGED <<offset_pool, offset_head, clock_offset, filled, good, armed, skew>>
      BY <1>3 DEF OnWarmUp, ServerReceive, ServerSend, client, clock, ghosts
    <2> QED
      BY <1>2, <2>1 DEF AverageOK
  <1>4. CASE Stamp \/ OnTimer \/ Tick \/ UNCHANGED vars
    <2>1. UNCHANGED <<offset_pool, offset_head, clock_offset, filled, good, armed, skew>>
      BY <1>4 DEF Stamp, OnTimer, Tick, vars, client, clock, ghosts
    <2> QED
      BY <1>2, <2>1 DEF AverageOK
  <1>5. CASE Reschedule
    <2>1. UNCHANGED <<offset_pool, offset_head, clock_offset, filled, good, skew>>
      BY <1>5 DEF Reschedule, clock, ghosts
    <2>2. armed' \in BOOLEAN
      BY <1>5 DEF Reschedule, StillArmed
    <2> QED
      BY <1>2, <2>1, <2>2 DEF AverageOK
  <1>6. CASE StepClock
    <2>1. UNCHANGED <<offset_pool, offset_head, clock_offset, filled, armed>> /\ good' = 0
          /\ skew' \in Skews
      BY <1>6 DEF StepClock, client
    <2> QED
      BY <1>2, <2>1 DEF AverageOK
  <1> QED
    BY <1>1, <1>3, <1>4, <1>5, <1>6 DEF Next, Receive, Server, TimeUp

LEMMA AverageInit == Init => AverageOK
  <1> SUFFICES ASSUME Init PROVE AverageOK
    OBVIOUS
  <1>1. /\ filled = 0 /\ good = 0 /\ offset_head = 0 /\ offset_pool = [i \in Slots |-> 0]
        /\ clock_offset = [sum |-> 0, count |-> 1] /\ armed = TRUE /\ skew \in Skews
    BY DEF Init
  <1> QED
    BY <1>1, NtpAssumption DEF AverageOK

LEMMA AverageType ==
    ASSUME NEW pool \in [Slots -> Int]
    PROVE  Average(pool) \in [sum : Int, count : 0 .. POOL_SIZE]
  <1> USE NtpAssumption
  <1>1. IsFiniteSet(Slots) /\ Cardinality(Slots) = POOL_SIZE
    BY FS_Interval DEF Slots
  <1>2. Average(pool).sum \in Int
    <2>1. PICK sum : /\ Sums(sum, pool, Slots)
                     /\ FoldFunction(LAMBDA a, b : a + b, 0, pool) = sum[Slots]
      BY <1>1, FoldSums
    <2>2. sum[Slots] \in Int
      BY <1>1, <2>1, SumType
    <2> QED
      BY <2>1, <2>2 DEF Average
  <1>3. Average(pool).count \in 0 .. POOL_SIZE
    <2>1. Used(pool) \in SUBSET Slots
      BY DEF Used
    <2>2. Cardinality(Used(pool)) \in Nat /\ Cardinality(Used(pool)) <= POOL_SIZE
      BY <1>1, <2>1, FS_Subset, FS_CardinalityType
    <2>3. Average(pool).count = Cardinality(Used(pool))
      BY Zenon DEF Average
    <2> QED
      BY <2>2, <2>3, NtpAssumption
  <1> QED
    BY <1>2, <1>3 DEF Average

(* An average lies between the bounds of the offsets that it is about *)
LEMMA AverageBounds ==
    ASSUME NEW pool \in [Slots -> Int], NEW lo \in Int, NEW hi \in Int,
           \A i \in Slots : pool[i] # 0 => lo <= pool[i] /\ pool[i] <= hi
    PROVE  /\ lo * Average(pool).count <= Average(pool).sum
           /\ Average(pool).sum <= hi * Average(pool).count
  <1>1. IsFiniteSet(Slots)
    BY NtpAssumption, FS_Interval DEF Slots
  <1>2. PICK sum : /\ Sums(sum, pool, Slots)
                   /\ FoldFunction(LAMBDA a, b : a + b, 0, pool) = sum[Slots]
    BY <1>1, FoldSums
  <1>3. Average(pool).sum = sum[Slots] /\ Average(pool).count = Cardinality(NotZero(pool, Slots))
    BY <1>2 DEF Average, Used, NotZero
  <1>4. /\ lo * Cardinality(NotZero(pool, Slots)) <= sum[Slots]
        /\ sum[Slots] <= hi * Cardinality(NotZero(pool, Slots))
    BY <1>1, <1>2, SumBounds
  <1> QED
    BY <1>3, <1>4

(* When all the offsets that were measured are of a steady clock, all that is *)
(* not empty in the pool is accurate: the latest `good' slots are those     *)
(* that were filled.                                                        *)
LEMMA AllAccurate ==
    ASSUME Typed, AverageOK, PoolRecovers, good = filled,
           NEW i \in Slots, offset_pool[i] # 0
    PROVE  Accurate(offset_pool[i])
  <1> USE NtpAssumption
  <1>1. offset_head \in 0 .. POOL_SIZE - 1 /\ i \in 0 .. POOL_SIZE - 1 /\ filled \in 0 .. POOL_SIZE
    BY DEF Typed, Slots, AverageOK
  <1>2. \E k \in 1 .. good : Latest(k) = i
    <2>1. CASE i < offset_head
      <3>1. offset_head <= filled
        BY <1>1 DEF AverageOK
      <3>2. offset_head - i \in 1 .. good /\ Latest(offset_head - i) = i
        BY <1>1, <2>1, <3>1 DEF Latest
      <3> QED
        BY <3>2
    <2>2. CASE i >= offset_head
      <3>1. filled = POOL_SIZE
        BY <1>1, <2>2 DEF AverageOK
      <3>2. offset_head - i + POOL_SIZE \in 1 .. good /\ Latest(offset_head - i + POOL_SIZE) = i
        BY <1>1, <2>2, <3>1 DEF Latest
      <3> QED
        BY <3>2
    <2> QED
      BY <1>1, <2>1, <2>2
  <1> QED
    BY <1>2 DEF PoolRecovers

LEMMA Distribute ==
    ASSUME NEW a \in Int, NEW b \in Int, NEW c \in Int
    PROVE  (a - 2 * b) * c = a * c - 2 * b * c /\ a * c \in Int /\ 2 * b * c \in Int
  OBVIOUS

LEMMA AverageAccurate == Inv /\ AverageOK => ClockOffsetAccurate
  <1> SUFFICES ASSUME Inv, AverageOK, good = filled, filled > 0
               PROVE  /\ -2 * MaxTrip * clock_offset.count
                            <= clock_offset.sum + 2 * skew * clock_offset.count
                      /\ clock_offset.sum + 2 * skew * clock_offset.count
                            <= MaxTrip * clock_offset.count
    BY DEF ClockOffsetAccurate
  <1>0. Typed /\ PoolRecovers /\ MaxTrip \in Nat
    BY NtpAssumption DEF Inv
  <1> DEFINE lo == -2 * MaxTrip - 2 * skew
             hi == MaxTrip - 2 * skew
             c  == clock_offset.count
             e  == clock_offset.sum
  <1>1. clock_offset = Average(offset_pool) /\ offset_pool \in [Slots -> Int] /\ skew \in Int
    BY <1>0 DEF AverageOK, Typed
  <1>2. c \in Int /\ e \in Int
    BY <1>1, AverageType
  <1>3. lo \in Int /\ hi \in Int
    BY <1>0, <1>1
  <1>4. ASSUME NEW i \in Slots, offset_pool[i] # 0
        PROVE  lo <= offset_pool[i] /\ offset_pool[i] <= hi
    <2>1. Accurate(offset_pool[i]) /\ offset_pool[i] \in Int
      BY <1>0, <1>1, <1>4, AllAccurate
    <2> QED
      BY <1>0, <1>1, <2>1 DEF Accurate
  <1> HIDE DEF lo, hi
  <1>5. lo * c <= e /\ e <= hi * c
    BY <1>1, <1>3, <1>4, AverageBounds
  <1> HIDE DEF c, e
  <1>6. lo * c = -2 * MaxTrip * c - 2 * skew * c /\ -2 * MaxTrip * c \in Int /\ 2 * skew * c \in Int
    BY <1>0, <1>1, <1>2, Distribute DEF lo
  <1>7. hi * c = MaxTrip * c - 2 * skew * c /\ MaxTrip * c \in Int
    BY <1>0, <1>1, <1>2, Distribute DEF hi
  <1>8. -2 * MaxTrip * c <= e + 2 * skew * c /\ e + 2 * skew * c <= MaxTrip * c
    BY <1>2, <1>5, <1>6, <1>7
  <1> QED
    BY <1>8 DEF c, e

LEMMA AverageHolds == Spec => []AverageOK
  BY InvHolds, AverageInit, AverageStep, PTL DEF Spec

(* Every variable keeps its type: the ring buffer is never written outside, *)
(* whatever its size.                                                       *)
THEOREM NtpTypeCorrect == Spec => []TypeOK
  <1>1. Inv /\ AverageOK => TypeOK
    <2> SUFFICES ASSUME Inv, AverageOK PROVE TypeOK
      OBVIOUS
    <2>1. clock_offset \in [sum : Int, count : 0 .. POOL_SIZE]
      <3>1. CASE filled = 0
        BY <3>1, NtpAssumption DEF AverageOK
      <3>2. CASE filled > 0
        <4>1. offset_pool \in [Slots -> Int]
          BY DEF Inv, Typed
        <4> QED
          BY <3>2, <4>1, AverageType DEF AverageOK
      <3> QED
        BY <3>1, <3>2 DEF AverageOK
    <2>2. good \in 0 .. filled
      BY DEF Inv, Typed, AverageOK
    <2> QED
      BY <2>1, <2>2 DEF TypeOK, Inv, Typed, AverageOK
  <1> QED
    BY <1>1, InvHolds, AverageHolds, PTL

(* The average by which main.c corrects the time of its events is right up  *)
(* to the longest round trip once all of the measurements in the pool are   *)
(* with a steady clock, however large the pool.                                 *)
THEOREM NtpClockOffsetAccurate == Spec => []ClockOffsetAccurate
  BY InvHolds, AverageHolds, AverageAccurate, PTL
===============================================================================
