---------------------------------- MODULE Ntp ----------------------------------
(***************************************************************************)
(* Time synchronisation of the client (client/ntp.c, its offset callback   *)
(* in client/main.c), the network and the server it asks.                  *)
(*                                                                         *)
(* now is the server's clock.  The client's wall clock is now + skew, so   *)
(* that the offset the client should find is -skew; it may be stepped.     *)
(* Every timestamp is in ticks, and offsets are kept DOUBLED, before the   *)
(* division by 2 of ntp.c:195, so that they are whole numbers.  A datagram *)
(* that nobody takes within MaxTrip ticks of its request is lost.          *)
(*                                                                         *)
(* A definition whose name starts with Mut is the one that follows it with *)
(* a bug in it; the specification does not use them.                       *)
(***************************************************************************)
EXTENDS Integers, FiniteSetsExt, Functions

CONSTANTS
    Interval,      \* of the NTP timer
    POOL_SIZE,
    MaxTrip,       \* longest time from sendto to on_fd_ntp
    Skews,         \* what the client's clock may be off by
    MaxFaults,     \* bound on the steps of that clock and the duplicated datagrams
    MaxTime        \* bound on the server's clock

ASSUME NtpAssumption ==
    /\ Interval \in Nat \ {0} /\ POOL_SIZE \in Nat \ {0} /\ MaxTrip \in Nat
    /\ Skews \subseteq Int
    /\ MaxFaults \in Nat /\ MaxTime \in Nat

VARIABLES
    pc,            \* where the client is
    req,           \* the latest request, by the random number it carries
    n,             \* responses to go before one is measured
    t_send,        \* wall clock when the latest request was sent
    offset_pool, offset_head,
    clock_offset,  \* main.c: the average, as a sum and a count
    due, armed,    \* expiry of the NTP timer, and whether there is one
    net,           \* datagrams under way, and requests the server works on
    dups,          \* how many of them were duplicated
    now, skew, steps,
    filled,        \* history: slots of the pool that were written
    steady,        \* history: the clock was not stepped since t_send was read
    good           \* history: latest measurements with a steady clock, and none
                   \* stepped since

client == <<pc, req, n, t_send, offset_pool, offset_head, clock_offset, due, armed>>
clock  == <<now, skew, steps>>
network == <<net, dups>>
ghosts == <<filled, steady, good>>
vars   == <<client, network, clock, ghosts>>

wall == now + skew
Slots == 0 .. POOL_SIZE - 1

(* sent is history; t2 and t3 are the server's timestamps *)
Datagram == [at : {"request", "server", "response"}, id : Nat, sent : Nat, t2 : Nat, t3 : Nat]
Request(id) == [at |-> "request", id |-> id, sent |-> now, t2 |-> 0, t3 |-> 0]

(* ntp_init adds the timer and sends the first request of a burst of three *)
Init ==
    /\ now = 0 /\ skew \in Skews /\ steps = 0
    /\ pc = "stamp" /\ req = 1 /\ n = 2 /\ t_send = 0
    /\ net = {Request(1)} /\ dups = 0
    /\ offset_pool = [i \in Slots |-> 0] /\ offset_head = 0
    /\ clock_offset = [sum |-> 0, count |-> 1]
    /\ due = wall + Interval /\ armed = TRUE
    /\ filled = 0 /\ steady = TRUE /\ good = 0

-----------------------------------------------------------------------------
(* ntp_sync, up to the return of sendto; rest is what stays in the network *)
SendRequest(rest) ==
    /\ req' = req + 1
    /\ net' = rest \cup {Request(req + 1)}

(* ... and from there on *)
Stamp ==
    /\ pc \in {"stamp", "timer_stamp"}
    /\ t_send' = wall
    /\ pc' = IF pc = "stamp" THEN "loop" ELSE "reschedule"
    /\ steady' = TRUE
    /\ UNCHANGED <<req, n, offset_pool, offset_head, clock_offset, due, armed, network, clock, filled, good>>

(* on_ntp_timer, called by the main loop when its time is past *)
OnTimer ==
    /\ pc = "loop"
    /\ armed /\ due < wall
    /\ n' = 2
    /\ SendRequest(net)
    /\ pc' = "timer_stamp"
    /\ UNCHANGED <<t_send, offset_pool, offset_head, clock_offset, due, armed, dups, clock, ghosts>>

MutStillArmed == due >= wall + Interval
StillArmed == due < wall + Interval

(* The main loop reschedules it.  The new timer is lost when it is sorted   *)
(* before the one that ran, which then is not the node that is freed.       *)
Reschedule ==
    /\ pc = "reschedule"
    /\ pc' = "loop"
    /\ due' = wall + Interval /\ armed' = StillArmed
    /\ UNCHANGED <<req, n, t_send, offset_pool, offset_head, clock_offset, network, clock, ghosts>>

(* Twice the offset: ((T2 - T1) + (T3 - T4)) *)
MutOffset(m) == (m.t2 - t_send) + (wall - m.t3)
Offset(m) == (m.t2 - t_send) + (m.t3 - wall)

(* Whoever takes m from the network leaves the rest, or a duplicate as well *)
Take(m, rest) ==
    \/ rest = net \ {m} /\ UNCHANGED dups
    \/ rest = net /\ steps + dups < MaxFaults /\ dups' = dups + 1

MutRemaining == n
Remaining == n - 1

(* One of the first responses of a burst: ask again *)
OnWarmUp(m) ==
    /\ pc = "loop"
    /\ m.at = "response"
    /\ n > 0
    /\ n' = Remaining
    /\ \E rest \in {net, net \ {m}} : Take(m, rest) /\ SendRequest(rest)
    /\ pc' = "stamp"
    /\ UNCHANGED <<t_send, offset_pool, offset_head, clock_offset, due, armed, clock, ghosts>>

(* A slot that holds 0 counts as empty *)
Used(pool) == {i \in Slots : pool[i] # 0}
Average(pool) ==
    [sum |-> FoldFunction(LAMBDA a, b : a + b, 0, pool), count |-> Cardinality(Used(pool))]

MutNextHead == (offset_head + 1) % (POOL_SIZE + 1)
NextHead == (offset_head + 1) % POOL_SIZE

(* The response after those: handle_measurement and on_ntp_offset *)
OnMeasurement(m) ==
    /\ pc = "loop"
    /\ m.at = "response"
    /\ n = 0
    /\ offset_pool' = [offset_pool EXCEPT ![offset_head] = Offset(m)]
    /\ offset_head' = NextHead
    /\ clock_offset' = Average(offset_pool')
    /\ \E rest \in {net, net \ {m}} : Take(m, rest) /\ net' = rest
    /\ filled' = Min({filled + 1, POOL_SIZE})
    /\ good' = IF steady THEN Min({good + 1, POOL_SIZE}) ELSE 0
    /\ UNCHANGED <<pc, req, n, t_send, due, armed, clock, steady>>

-----------------------------------------------------------------------------
(* The server and the network *)

ServerReceive(m) ==
    /\ m.at = "request"
    /\ \E rest \in {net, net \ {m}} :
           Take(m, rest) /\ net' = rest \cup {[m EXCEPT !.at = "server", !.t2 = now]}
    /\ UNCHANGED <<client, clock, ghosts>>

ServerSend(m) ==
    /\ m.at = "server"
    /\ net' = (net \ {m}) \cup {[m EXCEPT !.at = "response", !.t3 = now]}
    /\ UNCHANGED <<client, dups, clock, ghosts>>

Tick ==
    /\ now < MaxTime
    /\ now' = now + 1
    /\ net' = {m \in net : now' - m.sent <= MaxTrip}
    /\ UNCHANGED <<client, dups, skew, steps, ghosts>>

(* The wall clock of the client is set, at any moment *)
StepClock ==
    /\ steps + dups < MaxFaults
    /\ skew' \in Skews \ {skew}
    /\ steps' = steps + 1
    /\ steady' = FALSE /\ good' = 0
    /\ UNCHANGED <<client, network, now, filled>>

Receive == \E m \in net : OnWarmUp(m) \/ OnMeasurement(m)
Server == \E m \in net : ServerReceive(m) \/ ServerSend(m)

(* The bound on time is reached *)
TimeUp == now = MaxTime /\ UNCHANGED vars

Next == Stamp \/ OnTimer \/ Reschedule \/ Receive \/ Server \/ Tick \/ StepClock \/ TimeUp

Spec == Init /\ [][Next]_vars

(* The main loop serves a due timer, and time goes on (up to its bound).   *)
(* Nothing is assumed of the network and of the server.                    *)
FairSpec == Spec /\ WF_vars(Stamp) /\ WF_vars(OnTimer) /\ WF_vars(Reschedule) /\ WF_vars(Tick)

-----------------------------------------------------------------------------
(* Properties *)

(* Every variable has its type; the ring buffer is never written outside *)
TypeOK ==
    /\ pc \in {"loop", "stamp", "timer_stamp", "reschedule"}
    /\ req \in Nat /\ n \in 0 .. 2 /\ t_send \in Int
    /\ offset_pool \in [Slots -> Int] /\ offset_head \in Slots
    /\ clock_offset \in [sum : Int, count : 0 .. POOL_SIZE]
    /\ due \in Int /\ armed \in BOOLEAN
    /\ net \subseteq Datagram /\ dups \in Nat
    /\ now \in Nat /\ skew \in Skews /\ steps \in Nat
    /\ filled \in 0 .. POOL_SIZE /\ steady \in BOOLEAN /\ good \in 0 .. filled

(* A burst is over before the next one begins as long as three round trips  *)
(* fit into the interval and the clock is not stepped, whatever is lost or   *)
(* duplicated - so that no response is taken for one of another burst.       *)
Undisturbed == steps = 0 /\ 3 * MaxTrip <= Interval
BurstsDoNotOverlap ==
    [][Undisturbed /\ pc' = "timer_stamp" /\ pc # "timer_stamp" => net = {}]_vars

(* The offset (doubled) d is right up to the longest round trip *)
Accurate(d) == -2 * MaxTrip <= d + 2 * skew /\ d + 2 * skew <= MaxTrip

(* Measurements are accurate for the clock as it is now, be the response    *)
(* late, a duplicate or that of another request, unless the clock was        *)
(* stepped; and after a step the pool is right again once POOL_SIZE of them  *)
(* have pushed out what was measured before.                                 *)
Latest(k) == IF k <= offset_head THEN offset_head - k ELSE offset_head - k + POOL_SIZE
PoolRecovers == \A k \in 1 .. good : Accurate(offset_pool[Latest(k)])

(* When all of the pool is of that kind, so is the average by which main.c  *)
(* corrects the time of its events.                                         *)
ClockOffsetAccurate ==
    good = filled /\ filled > 0 /\ clock_offset.count > 0 =>
        LET e == clock_offset.sum + 2 * skew * clock_offset.count
        IN  -2 * MaxTrip * clock_offset.count <= e /\ e <= MaxTrip * clock_offset.count

(* A lost datagram ends a burst, but not the synchronisation: the timer     *)
(* begins another one.                                                      *)
LossIsRetried ==
    pc = "loop" /\ net = {} /\ steps = 0 /\ due < skew + MaxTime
        ~> pc = "timer_stamp" \/ steps > 0

(* "Originate Timestamp T1: time request sent by client" (ntp.c:174): the   *)
(* T1 of a measurement is that of the request which the response answers.   *)
OriginateMatches == [][\A m \in net : OnMeasurement(m) => m.id = req]_vars

(* "calculate average" (ntp.c:128): of the offsets that were measured *)
AverageOfMeasured == filled > 0 => clock_offset.count = filled
===============================================================================
