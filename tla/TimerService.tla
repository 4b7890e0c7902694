----------------------------- MODULE TimerService -----------------------------
(***************************************************************************)
(* What the event loop promises of timers (client/mainloop.h), without its *)
(* list, its marks and its sweep: a set of pending timers, of which the    *)
(* handler of the earliest one is called.                                  *)
(*                                                                         *)
(* The wall clock that it goes by may be set back.  The promise says what  *)
(* becomes of timers then: one may fire early, and a periodic timer is     *)
(* lost if its next expiry is not after the one its handler ran for.  Only *)
(* a handler that arms a timer to expire no later than its own is promised *)
(* nothing (displaced).                                                    *)
(***************************************************************************)
EXTENDS Integers

CONSTANTS
    TimerCbs, Intervals,    \* (handler, user) pairs, intervals in clock ticks
    AllocFails              \* there may be no memory for a timer

VARIABLES
    pending,    \* the timers to come, one for a callback
    firing,     \* the timer whose handler is running, if any
    displaced,  \* a timer was armed in front of the one that is running
    now,        \* the wall clock
    steady      \* the clock was not set back so far

vars == <<pending, firing, displaced, now, steady>>

Timer == [cb : TimerCbs, when : Nat, interval : Nat]

Init ==
    /\ pending = {} /\ firing = {} /\ displaced = FALSE
    /\ now = 0 /\ steady = TRUE

Others(c) == {t \in pending : t.cb # c}
TimerAt(c, d) == [cb |-> c, when |-> now + d, interval |-> d]

(* mainloop_timer_add: replaces what is pending for the callback, also when *)
(* it then fails.                                                           *)
Set(c, d) ==
    /\ \/ /\ \A f \in firing : now + d > f.when
          /\ pending' = Others(c) \cup {TimerAt(c, d)}
       \/ /\ AllocFails
          /\ pending' = Others(c)
    /\ UNCHANGED <<firing, displaced, now, steady>>

(* ... and from within a handler, in front of the timer that is running:    *)
(* nothing is promised of either from then on.                              *)
Displace(c, d) ==
    /\ \E f \in firing : now + d <= f.when
    /\ displaced'
    /\ UNCHANGED <<now, steady>>

(* mainloop_timer_del: of the pending timer; the running handler goes on *)
Cancel(c) ==
    /\ pending' = Others(c)
    /\ UNCHANGED <<firing, displaced, now, steady>>

(* mainloop_cleanup *)
CancelAll ==
    /\ firing = {}
    /\ pending' = {}
    /\ UNCHANGED <<firing, displaced, now, steady>>

(* The handler of the earliest pending timer is called, when it is due *)
Fire(t) ==
    /\ firing = {}
    /\ \A u \in pending : t.when <= u.when
    /\ steady => t.when < now
    /\ pending' = pending \ {t} /\ firing' = {t}
    /\ UNCHANGED <<displaced, now, steady>>

(* A handler that returns 0 is done with *)
Return(t) ==
    /\ firing' = {}
    /\ UNCHANGED <<pending, displaced, now, steady>>

(* After any other result the callback is pending again, one interval from  *)
(* now, in place of what the handler armed for itself.                      *)
ReturnAgain(t) ==
    /\ \/ /\ now + t.interval > t.when
          /\ pending' = Others(t.cb) \cup {TimerAt(t.cb, t.interval)}
       \/ /\ AllocFails \/ now + t.interval <= t.when
          /\ pending' = Others(t.cb)
    /\ firing' = {}
    /\ UNCHANGED <<displaced, now, steady>>

Pass ==
    /\ now' = now + 1
    /\ UNCHANGED <<pending, firing, displaced, steady>>

SetBack ==
    /\ now' \in 0 .. now - 1
    /\ steady' = FALSE
    /\ UNCHANGED <<pending, firing, displaced>>

(* The process ends, in a handler *)
Die ==
    /\ firing' = {}
    /\ UNCHANGED <<pending, displaced, now, steady>>

Orderly ==
    \/ \E c \in TimerCbs : Cancel(c) \/ \E d \in Intervals : Set(c, d) \/ Displace(c, d)
    \/ \E t \in pending : Fire(t)
    \/ \E t \in firing : Return(t) \/ ReturnAgain(t)
    \/ CancelAll \/ Pass \/ SetBack \/ Die

Next == displaced \/ Orderly

Spec == Init /\ [][Next]_vars
===============================================================================
