------------------------------- MODULE Mainloop -------------------------------
(***************************************************************************)
(* The event loop of the client (client/mainloop.c, client/list.h).        *)
(*                                                                         *)
(* Three registries - file descriptors, timers and signals - are changed   *)
(* by the program (between polls and from inside its callbacks) and are    *)
(* served by mainloop_poll, whose phases are the values of pc.  Around it  *)
(* the environment moves the wall clock, forwards and backwards, and       *)
(* delivers signals between any two steps.                                 *)
(*                                                                         *)
(* LIST_ADD_ITEM pushes at the head of a list.  fds and sigs hold the head *)
(* of the C list at their END, so that the position of a node is stable    *)
(* and LIST_FOREACH walks from Len(list) down to 1.  timers holds the C    *)
(* list in its own order, the head first.                                  *)
(*                                                                         *)
(* A definition whose name starts with Mut is the one that follows it with *)
(* a bug in it; the specification does not use them.                       *)
(***************************************************************************)
EXTENDS Integers, SequencesExt

CONSTANTS
    Fds, FdTypes, FdCbs,    \* descriptors, enum fd_type, (handler, user) pairs
    NoHandler,              \* a member of FdCbs has a NULL handler iff it is this
    TimerCbs, Intervals,    \* (handler, user) pairs, intervals in clock ticks
    Signums, SigCbs,        \* signals, handlers
    SIGQUIT, on_sigquit,    \* what mainloop_run registers itself
    IdleTimeout,            \* select's timeout when there is no timer
    AllocFails,             \* calloc may return NULL
    SelectFails,            \* select may fail with an errno other than EINTR
    MaxFds, MaxTimers, MaxSigs,  \* bounds on what the program registers
    MaxTime, MaxSetbacks         \* bounds on the clock and on its steps back

ASSUME MainloopAssumption ==
    /\ Intervals \subseteq Nat
    /\ SIGQUIT \in Signums /\ on_sigquit \in SigCbs
    /\ IdleTimeout \in Nat /\ MaxTime \in Nat /\ MaxSetbacks \in Nat
    /\ AllocFails \in BOOLEAN /\ SelectFails \in BOOLEAN

VARIABLES
    fds,       \* mainloop_fd_list, head last
    timers,    \* mainloop_timer_list, head first
    sigs,      \* mainloop_signal_list, head last
    caught,    \* signals whose disposition is mainloop_signal_handler
    running,   \* mainloop_running
    inRun,     \* mainloop_run is on the stack
    pc,        \* phase of mainloop_poll; "out" when it is not on the stack
    cursor,    \* node the fd or signal walk has reached
    fdsets,    \* the fd_sets given to select, then those it returned
    wait,      \* what is left of select's timeout
    pnow,      \* mainloop_poll's local copy of the time
    now,       \* gettimeofday
    setbacks   \* how often the wall clock was set back

lists  == <<fds, timers, sigs>>
ctl    == <<running, inRun>>
locals == <<cursor, fdsets, wait, pnow>>
clock  == <<now, setbacks>>
vars   == <<lists, caught, ctl, pc, locals, clock>>

Phases == {"out", "entry", "select", "blocked", "fds", "fd_call", "signals",
           "sig_call", "timers", "timer_call", "sweep", "cleanup", "killed"}

(* fresh and fired are history: registered since the fd_sets were last      *)
(* built, and handler already called.  The program does not have them.      *)
FdNode == [fd : Fds, type : FdTypes, cb : FdCbs, remove : BOOLEAN, fresh : BOOLEAN]
TimerNode == [cb : TimerCbs, when : Nat, interval : Nat, remove : BOOLEAN, fired : BOOLEAN]
SigNode == [signum : Signums, cb : SigCbs, signaled : BOOLEAN, remove : BOOLEAN]

Init ==
    /\ fds = <<>> /\ timers = <<>> /\ sigs = <<>>
    /\ caught = {}
    /\ running = TRUE /\ inRun = FALSE
    /\ pc = "out"
    /\ cursor = 0 /\ fdsets = {} /\ wait = 0 /\ pnow = 0
    /\ now = 0 /\ setbacks = 0

-----------------------------------------------------------------------------
(* The registries *)

MutListAdd(s, node) == <<node>> \o s
ListAdd(s, node) == Append(s, node)

(* The nodes at the positions I, marked for removal *)
Mark(s, I) ==
    [i \in DOMAIN s |-> IF i \in I THEN [s[i] EXCEPT !.remove = TRUE] ELSE s[i]]

MutMarkTimers(s, c) == s
MarkTimers(s, c) == Mark(s, {i \in DOMAIN s : s[i].cb = c})

(* Where the sorted insertion stops: before the first node not sooner *)
MutInsertionPoints(s, when) == {1}
InsertionPoints(s, when) ==
    {p \in 1 .. Len(s) + 1 :
        /\ \A j \in 1 .. p - 1 : s[j].when < when
        /\ p <= Len(s) => s[p].when >= when}

NewTimer(c, d, t) ==
    [cb |-> c, when |-> t + d, interval |-> d, remove |-> FALSE, fired |-> FALSE]

MutTimerAdded(s, c, d, t) ==
    IF \E i \in DOMAIN s : s[i].cb = c THEN {s}
    ELSE {InsertAt(s, p, NewTimer(c, d, t)) : p \in InsertionPoints(s, t + d)}

(* The lists mainloop_timer_add may leave at time t: a pending timer of the *)
(* same callback is marked first, also when the allocation then fails.      *)
TimerAdded(s, c, d, t) ==
    LET old == MarkTimers(s, c)
    IN  {InsertAt(old, p, NewTimer(c, d, t)) : p \in InsertionPoints(old, t + d)}
        \cup {q \in {old} : AllocFails}

(* mainloop_signal_handler, as the kernel calls it *)
Signaled(s, n) ==
    [i \in DOMAIN s |-> IF s[i].signum = n THEN [s[i] EXCEPT !.signaled = TRUE] ELSE s[i]]

SignalNode(n, c) == [signum |-> n, cb |-> c, signaled |-> FALSE, remove |-> FALSE]

(* The program runs: between polls, or in one of its callbacks. on_sigquit  *)
(* belongs to the loop and only returns.                                    *)
ClientTurn ==
    \/ pc \in {"out", "fd_call", "timer_call"}
    \/ pc = "sig_call" /\ sigs[cursor].cb # on_sigquit

MutRegistered(f, y) == \E i \in DOMAIN fds : fds[i].fd = f /\ fds[i].type = y /\ ~fds[i].remove
Registered(f, y) == \E i \in DOMAIN fds : fds[i].fd = f /\ ~fds[i].remove

FdAdd(f, y, c) ==
    /\ ClientTurn
    /\ Len(fds) < MaxFds
    /\ ~Registered(f, y)
    /\ fds' = ListAdd(fds, [fd |-> f, type |-> y, cb |-> c, remove |-> FALSE, fresh |-> TRUE])
    /\ UNCHANGED <<timers, sigs, caught, ctl, pc, locals, clock>>

FdDel(f, y, c) ==
    /\ ClientTurn
    /\ fds' = Mark(fds, {i \in DOMAIN fds : fds[i].fd = f /\ fds[i].type = y /\ fds[i].cb = c})
    /\ UNCHANGED <<timers, sigs, caught, ctl, pc, locals, clock>>

TimerAdd(c, d) ==
    /\ ClientTurn
    /\ Len(timers) < MaxTimers
    /\ timers' \in TimerAdded(timers, c, d, now)
    /\ UNCHANGED <<fds, sigs, caught, ctl, pc, locals, clock>>

TimerDel(c) ==
    /\ ClientTurn
    /\ timers' = MarkTimers(timers, c)
    /\ UNCHANGED <<fds, sigs, caught, ctl, pc, locals, clock>>

(* mainloop_signal_add; what it leaves when calloc fails is what it found *)
SignalAdded(n, c) ==
    /\ Len(sigs) < MaxSigs
    /\ sigs' = ListAdd(sigs, SignalNode(n, c))
    /\ caught' = caught \cup {n}

SignalAdd(n, c) ==
    /\ ClientTurn
    /\ SignalAdded(n, c)
    /\ UNCHANGED <<fds, timers, ctl, pc, locals, clock>>

(* signum_refcount: the nodes of another handler, marked or not *)
MutSignalRefcount(n, c) == {}
SignalRefcount(n, c) == {i \in DOMAIN sigs : sigs[i].signum = n /\ sigs[i].cb # c}

SignalDel(n, c) ==
    LET I == {i \in DOMAIN sigs : sigs[i].signum = n /\ sigs[i].cb = c}
    IN  /\ ClientTurn
        /\ I # {}
        /\ sigs' = Mark(sigs, I)
        /\ caught' = IF SignalRefcount(n, c) = {} THEN caught \ {n} ELSE caught
        /\ UNCHANGED <<fds, timers, ctl, pc, locals, clock>>

(* mainloop_start and mainloop_stop *)
SetRunning(b) ==
    /\ ClientTurn
    /\ running' = b
    /\ UNCHANGED <<lists, caught, inRun, pc, locals, clock>>

(* mainloop_cleanup: in phase "cleanup" the nodes are freed but the list    *)
(* heads still point at them.                                               *)
CleanupFree ==
    /\ pc = "out" /\ ~running
    /\ pc' = "cleanup"
    /\ UNCHANGED <<lists, caught, ctl, locals, clock>>

CleanupReset ==
    /\ pc = "cleanup"
    /\ pc' = "out"
    /\ fds' = <<>> /\ timers' = <<>> /\ sigs' = <<>>
    /\ UNCHANGED <<caught, ctl, locals, clock>>

-----------------------------------------------------------------------------
(* mainloop_run and mainloop_poll *)

CallPoll ==
    /\ pc = "out"
    /\ pc' = "entry"
    /\ UNCHANGED <<lists, caught, ctl, locals, clock>>

CallRun ==
    /\ pc = "out"
    /\ running' = TRUE /\ inRun' = TRUE
    /\ \/ SignalAdded(SIGQUIT, on_sigquit)
       \/ AllocFails /\ UNCHANGED <<sigs, caught>>
    /\ pc' = "entry"
    /\ UNCHANGED <<fds, timers, locals, clock>>

(* mainloop_poll returns; mainloop_run ignores its result and looks only at *)
(* mainloop_running.                                                        *)
MutPollReturns ==
    /\ pc' = IF inRun THEN "entry" ELSE "out"
    /\ inRun' = inRun
    /\ cursor' = 0 /\ fdsets' = {} /\ wait' = 0 /\ pnow' = 0
PollReturns ==
    /\ pc' = IF inRun /\ running THEN "entry" ELSE "out"
    /\ inRun' = (inRun /\ running)
    /\ cursor' = 0 /\ fdsets' = {} /\ wait' = 0 /\ pnow' = 0

MutSelectWait(t) == IF timers = <<>> THEN IdleTimeout ELSE timers[1].when - t
SelectWait(t) ==
    IF timers = <<>> THEN IdleTimeout
    ELSE IF t > timers[1].when THEN 0 ELSE timers[1].when - t

(* Build the fd_sets and the timeout, then look at mainloop_running *)
PollEntry ==
    /\ pc = "entry"
    /\ running
    /\ pc' = "select"
    /\ fds' = [i \in DOMAIN fds |-> [fds[i] EXCEPT !.fresh = FALSE]]
    /\ fdsets' = {<<fds[i].fd, fds[i].type>> : i \in {j \in DOMAIN fds : ~fds[j].remove}}
    /\ pnow' = now
    /\ wait' = SelectWait(now)
    /\ UNCHANGED <<timers, sigs, caught, ctl, cursor, clock>>

PollNotRunning ==
    /\ pc = "entry"
    /\ ~running
    /\ PollReturns
    /\ UNCHANGED <<lists, caught, running, clock>>

(* The process enters the kernel.  A signal taken in phase "select" came    *)
(* too early to interrupt the call.                                         *)
SelectBlock ==
    /\ pc = "select"
    /\ pc' = "blocked"
    /\ UNCHANGED <<lists, caught, ctl, locals, clock>>

SelectReady ==
    /\ pc = "blocked"
    /\ fdsets' \in SUBSET fdsets \ {{}}
    /\ pc' = "fds" /\ cursor' = Len(fds)
    /\ wait' = 0 /\ pnow' = 0
    /\ UNCHANGED <<lists, caught, ctl, clock>>

(* Past the fd walk, to the signal walk *)
ToSignals ==
    /\ pc' = "signals" /\ cursor' = Len(sigs)
    /\ fdsets' = {} /\ wait' = 0 /\ pnow' = 0

SelectTimeout ==
    /\ pc = "blocked"
    /\ wait = 0
    /\ ToSignals
    /\ UNCHANGED <<lists, caught, ctl, clock>>

SelectError ==
    /\ pc = "blocked"
    /\ SelectFails
    /\ PollReturns
    /\ UNCHANGED <<lists, caught, running, clock>>

(* The node the fd walk calls next, from the cursor on *)
FdReady(i) ==
    /\ ~fds[i].remove /\ fds[i].cb # NoHandler
    /\ <<fds[i].fd, fds[i].type>> \in fdsets

FdCall ==
    /\ pc = "fds"
    /\ cursor' \in {i \in 1 .. cursor : FdReady(i) /\ \A j \in i + 1 .. cursor : ~FdReady(j)}
    /\ pc' = "fd_call"
    /\ UNCHANGED <<lists, caught, ctl, fdsets, wait, pnow, clock>>

FdReturn ==
    /\ pc = "fd_call"
    /\ pc' = "fds" /\ cursor' = cursor - 1
    /\ UNCHANGED <<lists, caught, ctl, fdsets, wait, pnow, clock>>

FdsDone ==
    /\ pc = "fds"
    /\ \A i \in 1 .. cursor : ~FdReady(i)
    /\ ToSignals
    /\ UNCHANGED <<lists, caught, ctl, clock>>

MutUnsignaled(s, i) ==
    [j \in DOMAIN s |-> IF s[j].signum = s[i].signum THEN [s[j] EXCEPT !.signaled = FALSE]
                        ELSE s[j]]
Unsignaled(s, i) == [s EXCEPT ![i].signaled = FALSE]

(* The flag is cleared before the handler runs; remove is not looked at *)
SigCall ==
    /\ pc = "signals"
    /\ cursor' \in {i \in 1 .. cursor :
                        sigs[i].signaled /\ \A j \in i + 1 .. cursor : ~sigs[j].signaled}
    /\ sigs' = Unsignaled(sigs, cursor')
    /\ pc' = "sig_call"
    /\ UNCHANGED <<fds, timers, caught, ctl, fdsets, wait, pnow, clock>>

SigReturn ==
    /\ pc = "sig_call"
    /\ pc' = "signals" /\ cursor' = cursor - 1
    /\ UNCHANGED <<lists, caught, ctl, fdsets, wait, pnow, clock>>

SigsDone ==
    /\ pc = "signals"
    /\ \A i \in 1 .. cursor : ~sigs[i].signaled
    /\ pc' = "timers" /\ cursor' = 0 /\ pnow' = now
    /\ UNCHANGED <<lists, caught, ctl, fdsets, wait, clock>>

MutHeadExpired == timers # <<>> /\ timers[1].when = pnow
HeadExpired == timers # <<>> /\ timers[1].when < pnow

(* An expired head that is marked for removal is freed without a call *)
TimerSkip ==
    /\ pc = "timers"
    /\ HeadExpired /\ timers[1].remove
    /\ timers' = Tail(timers)
    /\ pnow' = now
    /\ UNCHANGED <<fds, sigs, caught, ctl, pc, cursor, fdsets, wait, clock>>

TimerCall ==
    /\ pc = "timers"
    /\ HeadExpired /\ ~timers[1].remove
    /\ timers' = [timers EXCEPT ![1].fired = TRUE]
    /\ pc' = "timer_call"
    /\ UNCHANGED <<fds, sigs, caught, ctl, locals, clock>>

MutTimerReturn(r) ==
    /\ pc = "timer_call"
    /\ \E q \in IF r # 0 THEN TimerAdded(timers, timers[1].cb, timers[1].interval, now)
                         ELSE {MarkTimers(timers, timers[1].cb)} :
          timers' = Tail(q)
    /\ pc' = "timers" /\ pnow' = now
    /\ UNCHANGED <<fds, sigs, caught, ctl, cursor, fdsets, wait, clock>>

(* The handler has returned r.  Both the rescheduling and the free go by    *)
(* whatever node is the head of the list by then.                           *)
TimerReturn(r) ==
    /\ pc = "timer_call"
    /\ \E q \in IF r # 0 THEN TimerAdded(timers, timers[1].cb, timers[1].interval, now)
                         ELSE {timers} :
          timers' = Tail(q)
    /\ pc' = "timers" /\ pnow' = now
    /\ UNCHANGED <<fds, sigs, caught, ctl, cursor, fdsets, wait, clock>>

TimersDone ==
    /\ pc = "timers"
    /\ ~HeadExpired
    /\ pc' = "sweep" /\ pnow' = 0
    /\ UNCHANGED <<lists, caught, ctl, cursor, fdsets, wait, clock>>

(* Unlink and free what is marked: descriptors, then signals, then timers,  *)
(* each list from its head.                                                 *)
Clean(s) == \A i \in DOMAIN s : ~s[i].remove

SweepFd ==
    /\ pc = "sweep"
    /\ \E i \in DOMAIN fds :
          /\ fds[i].remove
          /\ \A j \in i + 1 .. Len(fds) : ~fds[j].remove
          /\ fds' = RemoveAt(fds, i)
    /\ UNCHANGED <<timers, sigs, caught, ctl, pc, locals, clock>>

SweepSig ==
    /\ pc = "sweep"
    /\ Clean(fds)
    /\ \E i \in DOMAIN sigs :
          /\ sigs[i].remove
          /\ \A j \in i + 1 .. Len(sigs) : ~sigs[j].remove
          /\ sigs' = RemoveAt(sigs, i)
    /\ UNCHANGED <<fds, timers, caught, ctl, pc, locals, clock>>

SweepTimer ==
    /\ pc = "sweep"
    /\ Clean(fds) /\ Clean(sigs)
    /\ \E i \in DOMAIN timers :
          /\ timers[i].remove
          /\ \A j \in 1 .. i - 1 : ~timers[j].remove
          /\ timers' = RemoveAt(timers, i)
    /\ UNCHANGED <<fds, sigs, caught, ctl, pc, locals, clock>>

SweepDone ==
    /\ pc = "sweep"
    /\ Clean(fds) /\ Clean(sigs) /\ Clean(timers)
    /\ PollReturns
    /\ UNCHANGED <<lists, caught, running, clock>>

-----------------------------------------------------------------------------
(* The environment *)

Alive == pc # "killed"

(* Time passes; select counts its timeout down, also at the bound MaxTime, *)
(* where the modelled clock stands still.                                   *)
Tick ==
    /\ Alive
    /\ now < MaxTime \/ (pc = "blocked" /\ wait > 0)
    /\ now' = IF now < MaxTime THEN now + 1 ELSE now
    /\ wait' = IF pc = "blocked" /\ wait > 0 THEN wait - 1 ELSE wait
    /\ UNCHANGED <<lists, caught, ctl, pc, cursor, fdsets, pnow, setbacks>>

(* The wall clock is set back: gettimeofday is not monotonic *)
SetBack ==
    /\ Alive
    /\ setbacks < MaxSetbacks
    /\ now' \in 0 .. now - 1
    /\ setbacks' = setbacks + 1
    /\ UNCHANGED <<lists, caught, ctl, pc, locals>>

(* A signal the program catches marks its nodes, and interrupts select *)
Deliver(n) ==
    /\ Alive
    /\ n \in caught
    /\ pc = "cleanup" => sigs = <<>>
    /\ sigs' = Signaled(sigs, n)
    /\ IF pc = "blocked" THEN ToSignals ELSE UNCHANGED <<pc, locals>>
    /\ UNCHANGED <<fds, timers, caught, ctl, clock>>

(* mainloop_signal_handler walks nodes that mainloop_cleanup has freed: the *)
(* walk may fault, or come to nothing.                                      *)
DeliverInCleanup(n) ==
    /\ pc = "cleanup" /\ n \in caught /\ sigs # <<>>
    /\ pc' \in {"killed", pc}
    /\ UNCHANGED <<lists, caught, ctl, locals, clock>>

(* The default disposition of the signals of interest ends the process *)
Kill(n) ==
    /\ Alive
    /\ n \notin caught
    /\ pc' = "killed"
    /\ UNCHANGED <<lists, caught, ctl, locals, clock>>

Dead == ~Alive /\ UNCHANGED vars

-----------------------------------------------------------------------------
Client ==
    \/ \E f \in Fds, y \in FdTypes, c \in FdCbs : FdAdd(f, y, c) \/ FdDel(f, y, c)
    \/ \E c \in TimerCbs : TimerDel(c) \/ \E d \in Intervals : TimerAdd(c, d)
    \/ \E n \in Signums, c \in SigCbs : SignalAdd(n, c) \/ SignalDel(n, c)
    \/ \E b \in BOOLEAN : SetRunning(b)
    \/ CleanupFree \/ CallPoll \/ CallRun

(* What the loop does by itself, the return of the callbacks included *)
Loop ==
    \/ PollEntry \/ PollNotRunning
    \/ SelectBlock \/ SelectTimeout
    \/ FdCall \/ FdReturn \/ FdsDone
    \/ SigCall \/ SigReturn \/ SigsDone
    \/ TimerSkip \/ TimerCall \/ TimersDone
    \/ \E r \in {0, 1} : TimerReturn(r)
    \/ SweepFd \/ SweepSig \/ SweepTimer \/ SweepDone
    \/ CleanupReset

Environment ==
    \/ Tick \/ SetBack \/ SelectReady \/ SelectError
    \/ \E n \in Signums : Deliver(n) \/ DeliverInCleanup(n) \/ Kill(n)

Next == Client \/ Loop \/ Environment \/ Dead

Spec == Init /\ [][Next]_vars

(* The process is scheduled, its callbacks return and time goes on.  Nothing *)
(* is assumed of the program's calls, of descriptors or of signals.          *)
FairSpec == Spec /\ WF_vars(Loop) /\ WF_vars(Tick)

-----------------------------------------------------------------------------
(* Properties *)

(* Every variable has its type; in particular the timeout given to select   *)
(* is never negative.                                                       *)
TypeOK ==
    /\ fds \in Seq(FdNode)
    /\ timers \in Seq(TimerNode)
    /\ sigs \in Seq(SigNode)
    /\ caught \subseteq Signums
    /\ running \in BOOLEAN
    /\ inRun \in BOOLEAN
    /\ pc \in Phases
    /\ cursor \in Nat
    /\ fdsets \subseteq Fds \X FdTypes
    /\ wait \in Nat
    /\ pnow \in Nat
    /\ now \in Nat
    /\ setbacks \in Nat

(* mainloop_fd_add keeps a descriptor from being registered twice, whatever *)
(* is registered and deleted within one pass.                               *)
UniqueLiveFd ==
    \A i, j \in DOMAIN fds :
        fds[i].fd = fds[j].fd /\ ~fds[i].remove /\ ~fds[j].remove => i = j

(* A callback runs for the registration that was polled: it is neither      *)
(* deleted, nor one made (for a descriptor number closed and reused, say)   *)
(* by a callback that ran earlier on the same result of select.             *)
NoStaleDispatch ==
    [][pc = "fds" /\ pc' = "fd_call" => ~fds[cursor'].remove /\ ~fds[cursor'].fresh]_vars

(* A callback has at most one timer that is not marked for removal: adding  *)
(* it again, rescheduling it included, replaces the pending one.            *)
OneLiveTimer ==
    \A i, j \in DOMAIN timers :
        timers[i].cb = timers[j].cb /\ ~timers[i].remove /\ ~timers[j].remove => i = j

(* The timer list stays sorted by expiry, also when the clock is set back   *)
(* between two insertions.                                                  *)
TimersSorted ==
    \A i, j \in DOMAIN timers : i < j => timers[i].when <= timers[j].when

(* select is never asked to sleep past the expiry of a live timer, wherever *)
(* in the list it is.                                                       *)
SelectCoversTimers ==
    pc = "select" =>
        \A i \in DOMAIN timers :
            ~timers[i].remove => wait = 0 \/ pnow + wait <= timers[i].when

(* While the clock is never set back, the node whose handler is running is  *)
(* the head of the list, and once the handler has returned it is gone: no   *)
(* timer fires twice, and no other node is freed in its place.              *)
FiredAtHead ==
    \A i \in DOMAIN timers : timers[i].fired => i = 1 /\ pc \in {"timer_call", "killed"}
FiredIsFreed == setbacks = 0 => FiredAtHead

(* A timer whose handler returned nonzero is pending again, one interval    *)
(* from now (mainloop.c:389).                                               *)
Rescheduled(i) ==
    \E j \in DOMAIN timers' :
        /\ timers'[j].cb = timers[i].cb
        /\ timers'[j].when = now + timers[i].interval
        /\ ~timers'[j].remove
RescheduleKept ==
    [][TimerReturn(1) => \A i \in DOMAIN timers : timers[i].fired => Rescheduled(i)]_vars

(* The same, as long as the clock is not set back and there is memory *)
SteadyRescheduleKept ==
    [][TimerReturn(1) /\ setbacks = 0 /\ ~AllocFails =>
            \A i \in DOMAIN timers : timers[i].fired => Rescheduled(i)]_vars

(* The loop keeps the promise of TimerService: the pending timers are the   *)
(* live nodes whose handler was not called, the running one is the head.    *)
(* Whatever is added, deleted, skipped and swept, the handler that is       *)
(* called is that of the earliest pending timer, a periodic timer is        *)
(* pending again unless its expiry is not after the last one, and no other  *)
(* timer is lost.                                                           *)
AsTimer(i) == [cb |-> timers[i].cb, when |-> timers[i].when, interval |-> timers[i].interval]
PendingNodes == {i \in DOMAIN timers : ~timers[i].remove /\ ~timers[i].fired}
Displaced ==
    IF pc = "timer_call"
    THEN ~timers[1].fired \/ \E i \in DOMAIN timers \ {1} : timers[i].fired /\ ~timers[i].remove
    ELSE Alive /\ \E i \in DOMAIN timers : timers[i].fired /\ ~timers[i].remove
PendingTimers == {AsTimer(i) : i \in PendingNodes}
FiringTimers == IF pc = "timer_call" THEN {AsTimer(1)} ELSE {}
Promise == INSTANCE TimerService WITH
    pending <- PendingTimers, firing <- FiringTimers, displaced <- Displaced,
    steady <- setbacks = 0
TimersAsPromised == Promise!Spec

(* As long as a handler is registered for a signal, the signal does not     *)
(* have its default disposition, which would end the process.               *)
CaughtWhileLive == \A i \in DOMAIN sigs : ~sigs[i].remove => sigs[i].signum \in caught

(* mainloop_signal_del of the last handler of a signal resets the signal to *)
(* its default behaviour (mainloop.c:252).                                  *)
HasHandler(n) == \E i \in DOMAIN sigs : sigs[i].signum = n /\ ~sigs[i].remove
DefaultRestored ==
    [][\A n \in Signums, c \in SigCbs :
          SignalDel(n, c) /\ ~HasHandler(n)' => n \notin caught']_vars

(* A signal that was taken while mainloop_run is running reaches every      *)
(* handler registered for it, unless that is deleted first - also a signal  *)
(* that came between the signal walk and select.                            *)
LiveSig(n, c) == {i \in DOMAIN sigs : sigs[i].signum = n /\ sigs[i].cb = c /\ ~sigs[i].remove}
Pending(n, c) == \E i \in LiveSig(n, c) : sigs[i].signaled
InSigCall(n, c) == pc = "sig_call" /\ sigs[cursor].signum = n /\ sigs[cursor].cb = c
SignalHandled ==
    \A n \in Signums, c \in SigCbs :
        Pending(n, c) /\ inRun ~> InSigCall(n, c) \/ LiveSig(n, c) = {} \/ ~inRun \/ ~Alive

(* A timer that is due while mainloop_run is running fires, or is deleted   *)
(* or replaced.                                                             *)
Due(c) ==
    \E i \in DOMAIN timers : timers[i].cb = c /\ ~timers[i].remove /\ timers[i].when < now
DueTimerFires == \A c \in TimerCbs : Due(c) /\ inRun ~> ~Due(c) \/ ~inRun \/ ~Alive

(* mainloop_stop ends mainloop_run, unless mainloop_start takes it back *)
StopEndsRun == inRun /\ ~running ~> ~inRun \/ running \/ ~Alive
===============================================================================
