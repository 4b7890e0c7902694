-------------------------- MODULE MainloopRefinement --------------------------
(***************************************************************************)
(* The timers of Mainloop implement TimerService, for every value of the   *)
(* constants.                                                              *)
(*                                                                         *)
(* A list of nodes stands for the set of the timers that are pending in    *)
(* it.  The lemmas say what each operation on the list does to that set;   *)
(* each step of the loop is then a step of the promise, or changes nothing *)
(* of what the promise speaks of.                                          *)
(***************************************************************************)
EXTENDS MainloopProofs

-----------------------------------------------------------------------------
(* Lists of nodes and the timers that are pending in them *)

(* PendingNodes and AsTimer for any list *)
IsPending(x) == ~x.remove /\ ~x.fired
Timer(x) == [cb |-> x.cb, when |-> x.when, interval |-> x.interval]
Timers(s) == {Timer(s[i]) : i \in {j \in 1 .. Len(s) : IsPending(s[j])}}

(* A node from position k on whose handler was called, and which is live *)
Stray(s, k) == \E i \in k .. Len(s) : s[i].fired /\ ~s[i].remove

(* What is not pending on either side of a list may come and go. *)
LEMMA SameTimers ==
    ASSUME NEW s, NEW t,
           \A i \in 1 .. Len(s) : IsPending(s[i]) => \E j \in 1 .. Len(t) : t[j] = s[i],
           \A j \in 1 .. Len(t) : IsPending(t[j]) => \E i \in 1 .. Len(s) : s[i] = t[j]
    PROVE  Timers(s) = Timers(t)
  <1>1. ASSUME NEW i \in 1 .. Len(s), IsPending(s[i])
        PROVE  \E j \in 1 .. Len(t) : IsPending(t[j]) /\ Timer(s[i]) = Timer(t[j])
    BY <1>1
  <1>2. ASSUME NEW j \in 1 .. Len(t), IsPending(t[j])
        PROVE  \E i \in 1 .. Len(s) : IsPending(s[i]) /\ Timer(s[i]) = Timer(t[j])
    BY <1>2
  <1> QED
    BY <1>1, <1>2 DEF Timers

LEMMA TailTimers ==
    ASSUME NEW s \in Seq(TimerNode), s # <<>>, ~IsPending(s[1])
    PROVE  /\ Timers(Tail(s)) = Timers(s)
           /\ \A k \in Nat \ {0} : Stray(Tail(s), k) => Stray(s, k + 1)
  <1>1. /\ Len(s) \in Nat /\ Len(Tail(s)) = Len(s) - 1
        /\ \A k \in 1 .. Len(Tail(s)) : Tail(s)[k] = s[k + 1]
    BY HeadTailProperties, LenProperties
  <1>2. \A i \in 1 .. Len(s) :
            IsPending(s[i]) => \E j \in 1 .. Len(Tail(s)) : Tail(s)[j] = s[i]
    <2> SUFFICES ASSUME NEW i \in 1 .. Len(s), IsPending(s[i])
                 PROVE  \E j \in 1 .. Len(Tail(s)) : Tail(s)[j] = s[i]
      OBVIOUS
    <2>1. i # 1
      OBVIOUS
    <2>2. i - 1 \in 1 .. Len(Tail(s)) /\ (i - 1) + 1 = i
      BY <1>1, <2>1
    <2> QED
      BY <1>1, <2>2
  <1>3. \A j \in 1 .. Len(Tail(s)) : \E i \in 1 .. Len(s) : s[i] = Tail(s)[j]
    <2> SUFFICES ASSUME NEW j \in 1 .. Len(Tail(s))
                 PROVE  \E i \in 1 .. Len(s) : s[i] = Tail(s)[j]
      OBVIOUS
    <2>1. j + 1 \in 1 .. Len(s) /\ s[j + 1] = Tail(s)[j]
      BY <1>1
    <2> QED
      BY <2>1
  <1>4. Timers(Tail(s)) = Timers(s)
    BY <1>2, <1>3, SameTimers
  <1>5. ASSUME NEW k \in Nat \ {0}, Stray(Tail(s), k)
        PROVE  Stray(s, k + 1)
    <2>1. PICK i \in k .. Len(Tail(s)) : Tail(s)[i].fired /\ ~Tail(s)[i].remove
      BY <1>5 DEF Stray
    <2>2. i + 1 \in k + 1 .. Len(s) /\ s[i + 1] = Tail(s)[i]
      BY <1>1
    <2> QED
      BY <2>1, <2>2 DEF Stray
  <1> QED
    BY <1>4, <1>5

LEMMA RemovedTimers ==
    ASSUME NEW s \in Seq(TimerNode), NEW p \in 1 .. Len(s), ~IsPending(s[p])
    PROVE  /\ Timers(RemoveAt(s, p)) = Timers(s)
           /\ Stray(RemoveAt(s, p), 1) => Stray(s, 1)
  <1> DEFINE t == RemoveAt(s, p)
  <1>1. /\ Len(s) \in Nat /\ Len(t) = Len(s) - 1
        /\ \A k \in 1 .. Len(s) - 1 : t[k] = IF k < p THEN s[k] ELSE s[k + 1]
    BY RemoveAtProperties, LenProperties
  <1> HIDE DEF t
  <1>2. \A i \in 1 .. Len(s) : IsPending(s[i]) => \E j \in 1 .. Len(t) : t[j] = s[i]
    <2> SUFFICES ASSUME NEW i \in 1 .. Len(s), IsPending(s[i])
                 PROVE  \E j \in 1 .. Len(t) : t[j] = s[i]
      OBVIOUS
    <2>1. i # p
      OBVIOUS
    <2>2. CASE i < p
      <3>1. i \in 1 .. Len(t) /\ t[i] = s[i]
        BY <1>1, <2>2
      <3> QED
        BY <3>1
    <2>3. CASE i > p
      <3>1. i - 1 \in 1 .. Len(s) - 1 /\ ~(i - 1 < p) /\ (i - 1) + 1 = i
        BY <1>1, <2>3
      <3>2. i - 1 \in 1 .. Len(t) /\ t[i - 1] = s[i]
        BY <1>1, <3>1
      <3> QED
        BY <3>2
    <2> QED
      BY <2>1, <2>2, <2>3
  <1>3. \A j \in 1 .. Len(t) : \E i \in 1 .. Len(s) : s[i] = t[j]
    <2> SUFFICES ASSUME NEW j \in 1 .. Len(t)
                 PROVE  \E i \in 1 .. Len(s) : s[i] = t[j]
      OBVIOUS
    <2>1. j \in 1 .. Len(s) /\ j + 1 \in 1 .. Len(s) /\ (t[j] = s[j] \/ t[j] = s[j + 1])
      BY <1>1
    <2> QED
      BY <2>1
  <1>4. Timers(t) = Timers(s)
    BY <1>2, <1>3, SameTimers
  <1>5. Stray(t, 1) => Stray(s, 1)
    BY <1>3 DEF Stray
  <1> QED
    BY <1>4, <1>5 DEF t

LEMMA MarkedTimers ==
    ASSUME NEW s \in Seq(TimerNode), NEW c
    PROVE  /\ MarkTimers(s, c) \in Seq(TimerNode)
           /\ Len(MarkTimers(s, c)) = Len(s)
           /\ Timers(MarkTimers(s, c)) = {t \in Timers(s) : t.cb # c}
           /\ \A k \in Nat \ {0} : Stray(MarkTimers(s, c), k) => Stray(s, k)
           /\ \A i \in 1 .. Len(s) :
                 /\ Timer(MarkTimers(s, c)[i]) = Timer(s[i])
                 /\ MarkTimers(s, c)[i].fired = s[i].fired
                 /\ (MarkTimers(s, c)[i].remove <=> s[i].remove \/ s[i].cb = c)
  <1> DEFINE t == MarkTimers(s, c)
  <1>1. \A i \in 1 .. Len(s) : s[i] \in TimerNode
    BY ElementOfSeq
  <1>2. CanBeMarked(TimerNode)
    BY DEF CanBeMarked, TimerNode
  <1>3. /\ t \in Seq(TimerNode) /\ Len(t) = Len(s)
        /\ \A i \in 1 .. Len(s) :
              t[i] = IF s[i].cb = c THEN [s[i] EXCEPT !.remove = TRUE] ELSE s[i]
    <2> DEFINE I == {i \in DOMAIN s : s[i].cb = c}
    <2>1. \A i \in 1 .. Len(s) : i \in I <=> s[i].cb = c
      BY LenProperties
    <2> HIDE DEF I
    <2>2. Mark(s, I) \in Seq(TimerNode) /\ Marked(Mark(s, I), s, I)
      BY <1>2, MarkProperties
    <2>3. t = Mark(s, I)
      BY DEF t, MarkTimers, I
    <2> QED
      BY <2>1, <2>2, <2>3 DEF Marked
  <1> HIDE DEF t
  <1>4. ASSUME NEW i \in 1 .. Len(s)
        PROVE  /\ Timer(t[i]) = Timer(s[i])
               /\ t[i].fired = s[i].fired
               /\ (t[i].remove <=> s[i].remove \/ s[i].cb = c)
    BY <1>1, <1>3 DEF TimerNode, Timer
  <1>5. Timers(t) = {u \in Timers(s) : u.cb # c}
    <2>1. \A i \in 1 .. Len(s) : IsPending(t[i]) <=> IsPending(s[i]) /\ s[i].cb # c
      BY <1>4 DEF IsPending
    <2>2. \A i \in 1 .. Len(s) : Timer(s[i]).cb = s[i].cb
      BY DEF Timer
    <2>3. ASSUME NEW u \in Timers(t) PROVE u \in Timers(s) /\ u.cb # c
      <3>1. PICK i \in 1 .. Len(t) : IsPending(t[i]) /\ u = Timer(t[i])
        BY DEF Timers
      <3> QED
        BY <1>3, <1>4, <2>1, <2>2, <3>1 DEF Timers
    <2>4. ASSUME NEW u \in Timers(s), u.cb # c PROVE u \in Timers(t)
      <3>1. PICK i \in 1 .. Len(s) : IsPending(s[i]) /\ u = Timer(s[i])
        BY DEF Timers
      <3> QED
        BY <1>3, <1>4, <2>1, <2>2, <2>4, <3>1 DEF Timers
    <2> QED
      BY <2>3, <2>4
  <1>6. ASSUME NEW k \in Nat \ {0}, Stray(t, k)
        PROVE  Stray(s, k)
    <2>1. PICK i \in k .. Len(t) : t[i].fired /\ ~t[i].remove
      BY <1>6 DEF Stray
    <2>2. i \in 1 .. Len(s) /\ i \in k .. Len(s)
      BY <1>3, LenProperties
    <2> QED
      BY <1>4, <2>1, <2>2 DEF Stray
  <1> QED
    BY <1>3, <1>4, <1>5, <1>6 DEF t

LEMMA InsertedTimers ==
    ASSUME NEW s \in Seq(TimerNode), NEW p \in 1 .. Len(s) + 1,
           NEW e \in TimerNode, IsPending(e)
    PROVE  /\ Timers(InsertAt(s, p, e)) = Timers(s) \cup {Timer(e)}
           /\ Stray(InsertAt(s, p, e), 1) => Stray(s, 1)
           /\ p # 1 => (Stray(InsertAt(s, p, e), 2) => Stray(s, 2))
  <1> DEFINE t == InsertAt(s, p, e)
  <1>1. /\ Len(s) \in Nat /\ Len(t) = Len(s) + 1 /\ t[p] = e
        /\ \A i \in 1 .. p - 1 : t[i] = s[i]
        /\ \A i \in p .. Len(s) : t[i + 1] = s[i]
    BY InsertAtProperties, LenProperties
  <1> HIDE DEF t
  <1>2. \A i \in 1 .. Len(s) : \E j \in 1 .. Len(t) : t[j] = s[i]
    <2> SUFFICES ASSUME NEW i \in 1 .. Len(s)
                 PROVE  \E j \in 1 .. Len(t) : t[j] = s[i]
      OBVIOUS
    <2>1. CASE i \in 1 .. p - 1
      BY <1>1, <2>1
    <2>2. CASE i \in p .. Len(s)
      <3>1. i + 1 \in 1 .. Len(t) /\ t[i + 1] = s[i]
        BY <1>1, <2>2
      <3> QED
        BY <3>1
    <2>3. i \in 1 .. p - 1 \/ i \in p .. Len(s)
      BY <1>1
    <2> QED
      BY <2>1, <2>2, <2>3
  <1>3. ASSUME NEW j \in 1 .. Len(t), j # p
        PROVE  \E i \in 1 .. Len(s) : s[i] = t[j] /\ (j > 1 /\ p # 1 => i > 1)
    <2>1. CASE j < p
      <3>1. j \in 1 .. p - 1 /\ j \in 1 .. Len(s)
        BY <1>1, <2>1
      <3>2. s[j] = t[j] /\ (j > 1 /\ p # 1 => j > 1)
        BY <1>1, <3>1
      <3> QED
        BY <3>1, <3>2
    <2>2. CASE j > p
      <3>1. j - 1 \in p .. Len(s) /\ (j - 1) + 1 = j /\ j - 1 \in 1 .. Len(s)
        BY <1>1, <2>2
      <3>2. s[j - 1] = t[j] /\ (j > 1 /\ p # 1 => j - 1 > 1)
        BY <1>1, <2>2, <3>1
      <3> QED
        BY <3>1, <3>2
    <2> QED
      BY <1>1, <1>3, <2>1, <2>2
  <1>4. p \in 1 .. Len(t)
    BY <1>1
  <1>5. Timers(t) = Timers(s) \cup {Timer(e)}
    <2>1. \A x : x \in Timers(t) <=> \E j \in 1 .. Len(t) : IsPending(t[j]) /\ x = Timer(t[j])
      BY DEF Timers
    <2>2. \A x : x \in Timers(s) <=> \E i \in 1 .. Len(s) : IsPending(s[i]) /\ x = Timer(s[i])
      BY DEF Timers
    <2>3. ASSUME NEW x \in Timers(t)
          PROVE  x \in Timers(s) \cup {Timer(e)}
      <3>1. PICK j \in 1 .. Len(t) : IsPending(t[j]) /\ x = Timer(t[j])
        BY <2>1, <2>3
      <3>2. CASE j = p
        BY <1>1, <3>1, <3>2
      <3>3. CASE j # p
        <4>1. PICK i \in 1 .. Len(s) : s[i] = t[j]
          BY <1>3, <3>3
        <4> QED
          BY <2>2, <3>1, <4>1
      <3> QED
        BY <3>2, <3>3
    <2>4. ASSUME NEW x \in Timers(s)
          PROVE  x \in Timers(t)
      BY <1>2, <2>1, <2>2, <2>4
    <2>5. Timer(e) \in Timers(t)
      BY <1>1, <1>4, <2>1
    <2> QED
      BY <2>3, <2>4, <2>5
  <1>6. ~t[p].fired
    BY <1>1 DEF IsPending
  <1>7. Stray(t, 1) => Stray(s, 1)
    BY <1>3, <1>6 DEF Stray
  <1>8. p # 1 => (Stray(t, 2) => Stray(s, 2))
    <2> SUFFICES ASSUME p # 1, NEW j \in 2 .. Len(t), t[j].fired, ~t[j].remove
                 PROVE  Stray(s, 2)
      BY DEF Stray
    <2>1. j \in 1 .. Len(t) /\ j > 1 /\ j # p
      BY <1>1, <1>6
    <2>2. PICK i \in 1 .. Len(s) : s[i] = t[j] /\ i > 1
      BY <1>3, <2>1
    <2>3. i \in 2 .. Len(s)
      BY <1>1, <2>2
    <2> QED
      BY <2>2, <2>3 DEF Stray
  <1> QED
    BY <1>5, <1>7, <1>8 DEF t

(* What mainloop_timer_add makes of the timers: those of the callback go,   *)
(* the new one comes if there is memory.  It comes behind the head if it    *)
(* expires after it, in its place otherwise.                                *)
LEMMA AddedTimers ==
    ASSUME NEW s \in Seq(TimerNode), NEW c \in TimerCbs, NEW d \in Nat, NEW t \in Nat,
           NEW q \in TimerAdded(s, c, d, t)
    PROVE  LET others == {u \in Timers(s) : u.cb # c}
           IN  \/ /\ AllocFails /\ q = MarkTimers(s, c)
                  /\ Timers(q) = others
               \/ \E p \in 1 .. Len(s) + 1 :
                     /\ q = InsertAt(MarkTimers(s, c), p, NewTimer(c, d, t))
                     /\ Timers(q) = others \cup {[cb |-> c, when |-> t + d, interval |-> d]}
                     /\ Stray(q, 1) => Stray(s, 1)
                     /\ p # 1 => (Stray(q, 2) => Stray(s, 2))
                     /\ s # <<>> /\ s[1].when < t + d => p # 1
                     /\ s # <<>> /\ SortedList(s) /\ s[1].when >= t + d => p = 1
  <1> DEFINE old == MarkTimers(s, c)
             new == NewTimer(c, d, t)
             others == {u \in Timers(s) : u.cb # c}
  <1>1. /\ old \in Seq(TimerNode) /\ Len(old) = Len(s) /\ Timers(old) = others
        /\ \A k \in Nat \ {0} : Stray(old, k) => Stray(s, k)
        /\ \A i \in 1 .. Len(s) : old[i].when = s[i].when
    <2>1. \A i \in 1 .. Len(s) : Timer(old[i]) = Timer(s[i])
      BY MarkedTimers
    <2>2. \A x : Timer(x).when = x.when
      BY DEF Timer
    <2>3. \A i \in 1 .. Len(s) : old[i].when = s[i].when
      BY <2>1, <2>2
    <2> QED
      BY <2>3, MarkedTimers
  <1>2. /\ new \in TimerNode /\ IsPending(new)
        /\ Timer(new) = [cb |-> c, when |-> t + d, interval |-> d]
    BY DEF NewTimer, TimerNode, IsPending, Timer
  <1>3. CASE q = old /\ AllocFails
    BY <1>1, <1>3
  <1>4. ASSUME NEW p \in InsertionPoints(old, t + d), q = InsertAt(old, p, new)
        PROVE  /\ p \in 1 .. Len(s) + 1
               /\ Timers(q) = others \cup {[cb |-> c, when |-> t + d, interval |-> d]}
               /\ Stray(q, 1) => Stray(s, 1)
               /\ p # 1 => (Stray(q, 2) => Stray(s, 2))
               /\ s # <<>> /\ s[1].when < t + d => p # 1
               /\ s # <<>> /\ SortedList(s) /\ s[1].when >= t + d => p = 1
    <2>1. /\ p \in 1 .. Len(old) + 1
          /\ \A j \in 1 .. p - 1 : old[j].when < t + d
          /\ p <= Len(old) => old[p].when >= t + d
      BY <1>4 DEF InsertionPoints
    <2>2. p \in 1 .. Len(s) + 1 /\ Len(s) \in Nat
      BY <1>1, <2>1, LenProperties
    <2> HIDE DEF old, new
    <2>3. /\ Timers(q) = Timers(old) \cup {Timer(new)}
          /\ Stray(q, 1) => Stray(old, 1)
          /\ p # 1 => (Stray(q, 2) => Stray(old, 2))
      BY <1>1, <1>2, <1>4, <2>1, InsertedTimers
    <2>4. (Stray(old, 1) => Stray(s, 1)) /\ (Stray(old, 2) => Stray(s, 2))
      BY <1>1
    <2>5. ASSUME s # <<>>
          PROVE  1 \in 1 .. Len(s) /\ s[1].when \in Nat
      BY <2>5, HeadTimer
    <2>6. s # <<>> /\ s[1].when < t + d => p # 1
      <3> SUFFICES ASSUME s # <<>>, s[1].when < t + d, p = 1
                   PROVE  FALSE
        OBVIOUS
      <3>1. old[1].when >= t + d /\ old[1].when = s[1].when
        BY <1>1, <2>1, <2>5
      <3> QED
        BY <2>5, <3>1
    <2>7. s # <<>> /\ SortedList(s) /\ s[1].when >= t + d => p = 1
      <3> SUFFICES ASSUME s # <<>>, s[1].when >= t + d, p # 1
                   PROVE  FALSE
        OBVIOUS
      <3>1. 1 \in 1 .. p - 1
        BY <2>2
      <3>2. old[1].when < t + d /\ old[1].when = s[1].when
        BY <1>1, <2>1, <2>5, <3>1
      <3> QED
        BY <2>5, <3>2
    <2> QED
      BY <1>1, <1>2, <2>2, <2>3, <2>4, <2>6, <2>7
  <1>5. (q = old /\ AllocFails) \/ \E p \in InsertionPoints(old, t + d) : q = InsertAt(old, p, new)
    BY DEF TimerAdded
  <1> QED
    BY <1>3, <1>4, <1>5

-----------------------------------------------------------------------------
(* The mapping, in terms of the list *)

Mapped ==
    /\ PendingTimers = Timers(timers)
    /\ pc = "timer_call" =>
          /\ FiringTimers = {Timer(timers[1])}
          /\ (Displaced <=> ~timers[1].fired \/ Stray(timers, 2))
    /\ pc # "timer_call" =>
          /\ FiringTimers = {}
          /\ (Displaced <=> pc # "killed" /\ Stray(timers, 1))

LEMMA Mapping == TypeInv => Mapped
  <1> SUFFICES ASSUME TypeInv PROVE Mapped
    OBVIOUS
  <1>1. DOMAIN timers = 1 .. Len(timers) /\ Len(timers) \in Nat
    BY LenProperties DEF TypeInv, TypeOK
  <1>2. PendingTimers = Timers(timers)
    BY <1>1 DEF PendingTimers, PendingNodes, AsTimer, Timers, Timer, IsPending
  <1>3. pc = "timer_call" => FiringTimers = {Timer(timers[1])}
    BY DEF FiringTimers, AsTimer, Timer
  <1>4. pc # "timer_call" => FiringTimers = {}
    BY DEF FiringTimers
  <1>5. pc = "timer_call" => (Displaced <=> ~timers[1].fired \/ Stray(timers, 2))
    <2>1. \A i : i \in 2 .. Len(timers) <=> i \in DOMAIN timers \ {1}
      BY <1>1
    <2> QED
      BY <2>1 DEF Displaced, Stray
  <1>6. pc # "timer_call" => (Displaced <=> pc # "killed" /\ Stray(timers, 1))
    BY <1>1 DEF Displaced, Stray, Alive
  <1> QED
    BY <1>2, <1>3, <1>4, <1>5, <1>6 DEF Mapped

LEMMA MappingNext == TypeInv' => Mapped'
  BY Mapping, PTL

LEMMA PromiseInit == Init => Promise!Init
  <1> SUFFICES ASSUME Init PROVE Promise!Init
    OBVIOUS
  <1>1. TypeInv /\ Mapped
    BY TypeInit, Mapping
  <1>2. timers = <<>> /\ pc = "out" /\ now = 0 /\ setbacks = 0
    BY DEF Init
  <1>3. Len(timers) = 0
    BY <1>2
  <1>4. PendingTimers = {} /\ FiringTimers = {}
    BY <1>1, <1>2, <1>3 DEF Mapped, Timers
  <1>5. Displaced = FALSE
    BY <1>2 DEF Displaced
  <1> QED
    BY <1>2, <1>4, <1>5 DEF Promise!Init

-----------------------------------------------------------------------------
(* Every step of the loop is one of the promise *)

(* The clock, in the steps that leave the timer list alone *)
LEMMA ClockFrame ==
    [Next]_vars => \/ UNCHANGED <<now, setbacks>>
                   \/ now' \in {now, now + 1} /\ UNCHANGED <<setbacks, pc>>
                   \/ now' \in 0 .. now - 1 /\ setbacks' = setbacks + 1 /\ UNCHANGED pc
  BY DEF Next, Client, Loop, Environment, Dead, vars, lists, ctl, locals, clock,
         FdAdd, FdDel, TimerAdd, TimerDel, SignalAdd, SignalDel, SetRunning, CleanupFree,
         CallPoll, CallRun, PollEntry, PollNotRunning, SelectBlock, SelectReady,
         SelectTimeout, SelectError, FdCall, FdReturn, FdsDone, SigCall, SigReturn, SigsDone,
         TimerSkip, TimerCall, TimerReturn, TimersDone, SweepFd, SweepSig, SweepTimer,
         SweepDone, CleanupReset, Tick, SetBack, Deliver, DeliverInCleanup, Kill

(* Nothing happens to the timers themselves; the clock may move, and the    *)
(* process may end in a handler.                                            *)
LEMMA PromiseQuiet ==
    ASSUME TypeInv, TypeInv', [Next]_vars, TimerQuiet, ~Displaced
    PROVE  [Promise!Next]_(Promise!vars)
  <1>1. Mapped /\ Mapped'
    BY Mapping, MappingNext
  <1>2. PendingTimers' = PendingTimers
    BY <1>1 DEF Mapped, TimerQuiet
  <1>3. Displaced = FALSE
    BY DEF Displaced, Alive
  <1>4. Displaced' = FALSE
    <2>1. CASE pc' = "timer_call"
      <3>1. pc = "timer_call" /\ timers' = timers
        BY <2>1 DEF TimerQuiet
      <3> QED
        BY <2>1, <3>1 DEF Displaced
    <2>2. CASE pc' # "timer_call" /\ pc = "timer_call"
      BY <2>2 DEF Displaced, TimerQuiet, Alive
    <2>3. CASE pc' # "timer_call" /\ pc # "timer_call"
      BY <2>3 DEF Displaced, TimerQuiet, Alive
    <2> QED
      BY <2>1, <2>2, <2>3
  <1>5. FiringTimers' = {} \/ (FiringTimers' = FiringTimers /\ (pc' # pc => FiringTimers = {}))
    <2>1. CASE pc' # "timer_call"
      BY <1>1, <2>1 DEF Mapped
    <2>2. CASE pc' = "timer_call"
      BY <1>1, <2>2 DEF Mapped, TimerQuiet
    <2> QED
      BY <2>1, <2>2
  <1>6. CASE UNCHANGED <<now, setbacks>>
    BY <1>2, <1>3, <1>4, <1>5, <1>6
    DEF Promise!Next, Promise!Orderly, Promise!Die, Promise!vars
  <1>7. CASE now' \in {now, now + 1} /\ UNCHANGED <<setbacks, pc>>
    <2>1. FiringTimers' = FiringTimers
      BY <1>1, <1>7 DEF Mapped, TimerQuiet
    <2> QED
      BY <1>2, <1>3, <1>4, <1>7, <2>1
      DEF Promise!Next, Promise!Orderly, Promise!Pass, Promise!vars
  <1>8. CASE now' \in 0 .. now - 1 /\ setbacks' = setbacks + 1 /\ UNCHANGED pc
    <2>1. FiringTimers' = FiringTimers
      BY <1>1, <1>8 DEF Mapped, TimerQuiet
    <2>2. (setbacks' = 0) = FALSE
      BY <1>8 DEF TypeInv, TypeOK
    <2> QED
      BY <1>2, <1>3, <1>4, <1>8, <2>1, <2>2
      DEF Promise!Next, Promise!Orderly, Promise!SetBack
  <1> QED
    BY <1>6, <1>7, <1>8, ClockFrame

LEMMA PromiseDel ==
    ASSUME TypeInv, TypeInv', ~Displaced, NEW c \in TimerCbs, TimerDel(c)
    PROVE  Promise!Next
  <1>1. Mapped /\ Mapped'
    BY Mapping, MappingNext
  <1>2. /\ timers \in Seq(TimerNode) /\ timers' = MarkTimers(timers, c)
        /\ pc' = pc /\ pc # "killed" /\ now' = now /\ setbacks' = setbacks
    BY DEF TimerDel, ClientTurn, clock, TypeInv, TypeOK
  <1>3. /\ Timers(timers') = {t \in Timers(timers) : t.cb # c}
        /\ Stray(timers', 1) => Stray(timers, 1)
        /\ Stray(timers', 2) => Stray(timers, 2)
        /\ \A i \in 1 .. Len(timers) :
              Timer(timers'[i]) = Timer(timers[i]) /\ timers'[i].fired = timers[i].fired
    BY <1>2, MarkedTimers
  <1>4. pc = "timer_call" => 1 \in 1 .. Len(timers)
    BY <1>2, EmptySeq DEF TypeInv, CursorOK
  <1>5. PendingTimers' = {t \in PendingTimers : t.cb # c}
    BY <1>1, <1>3 DEF Mapped
  <1>6. FiringTimers' = FiringTimers
    BY <1>1, <1>2, <1>3, <1>4 DEF Mapped
  <1>7. Displaced = FALSE /\ Displaced' = FALSE
    <2>1. Displaced = FALSE
      BY DEF Displaced, Alive
    <2>2. ~Displaced'
      BY <1>1, <1>2, <1>3, <1>4 DEF Mapped
    <2>3. Displaced' \in BOOLEAN
      BY DEF Displaced, Alive
    <2> QED
      BY <2>1, <2>2, <2>3
  <1> QED
    BY <1>2, <1>5, <1>6, <1>7
    DEF Promise!Next, Promise!Orderly, Promise!Cancel, Promise!Others

(* A handler that arms a timer to expire no later than its own displaces    *)
(* it from the head of the list; any other timer is set as promised.        *)
LEMMA PromiseAdd ==
    ASSUME TypeInv, TypeInv', TimerListOK, ~Displaced,
           NEW c \in TimerCbs, NEW d \in Intervals, TimerAdd(c, d)
    PROVE  Promise!Next
  <1> DEFINE old == MarkTimers(timers, c)
             new == [cb |-> c, when |-> now + d, interval |-> d]
             others == {t \in PendingTimers : t.cb # c}
  <1>1. Mapped /\ Mapped'
    BY Mapping, MappingNext
  <1>2. /\ timers \in Seq(TimerNode) /\ timers' \in TimerAdded(timers, c, d, now)
        /\ pc' = pc /\ pc # "killed" /\ now' = now /\ setbacks' = setbacks
        /\ d \in Nat /\ now \in Nat
    BY MainloopAssumption DEF TimerAdd, ClientTurn, clock, TypeInv, TypeOK
  <1>3. /\ old \in Seq(TimerNode) /\ Len(old) = Len(timers)
        /\ Stray(old, 1) => Stray(timers, 1)
        /\ Stray(old, 2) => Stray(timers, 2)
        /\ \A i \in 1 .. Len(timers) :
              Timer(old[i]) = Timer(timers[i]) /\ old[i].fired = timers[i].fired
    BY <1>2, MarkedTimers
  <1>4. pc = "timer_call" => timers # <<>> /\ 1 \in 1 .. Len(timers)
    BY <1>2, EmptySeq DEF TypeInv, CursorOK
  <1>5. Displaced = FALSE /\ Displaced' \in BOOLEAN
    BY DEF Displaced, Alive
  <1>6. PendingTimers = Timers(timers) /\ PendingTimers' = Timers(timers')
    BY <1>1 DEF Mapped
  <1> HIDE DEF old, new
  <1>7. ASSUME AllocFails, timers' = old, Timers(timers') = others
        PROVE  Promise!Next
    <2>1. FiringTimers' = FiringTimers
      BY <1>1, <1>2, <1>3, <1>4, <1>7 DEF Mapped
    <2>2. ~Displaced'
      BY <1>1, <1>2, <1>3, <1>4, <1>7 DEF Mapped
    <2>3. Promise!Set(c, d)
      BY <1>2, <1>5, <1>6, <1>7, <2>1, <2>2 DEF Promise!Set, Promise!Others
    <2> QED
      BY <2>3 DEF Promise!Next, Promise!Orderly
  <1>8. ASSUME NEW p \in 1 .. Len(timers) + 1,
               timers' = InsertAt(old, p, NewTimer(c, d, now)),
               Timers(timers') = others \cup {new},
               Stray(timers', 1) => Stray(timers, 1),
               p # 1 => (Stray(timers', 2) => Stray(timers, 2)),
               timers # <<>> /\ timers[1].when < now + d => p # 1,
               timers # <<>> /\ timers[1].when >= now + d => p = 1
        PROVE  Promise!Next
    <2>1. NewTimer(c, d, now) \in TimerNode /\ ~NewTimer(c, d, now).fired
      BY <1>2 DEF NewTimer, TimerNode
    <2>2. /\ timers'[p] = NewTimer(c, d, now)
          /\ \A i \in 1 .. p - 1 : timers'[i] = old[i]
      BY <1>3, <1>8, <2>1, InsertAtProperties
    <2>3. pc = "timer_call" => timers[1].when \in Nat /\ Timer(timers[1]).when = timers[1].when
      BY <1>2, <1>4, HeadTimer DEF Timer
    <2>4. CASE pc = "timer_call" /\ timers[1].when >= now + d
      <3>1. ~timers'[1].fired
        BY <1>4, <1>8, <2>1, <2>2, <2>4
      <3>2. Displaced'
        BY <1>1, <1>2, <2>4, <3>1 DEF Mapped
      <3>3. Timer(timers[1]) \in FiringTimers
        BY <1>1, <2>4 DEF Mapped
      <3>4. Promise!Displace(c, d)
        BY <1>2, <2>3, <2>4, <3>2, <3>3 DEF Promise!Displace
      <3> QED
        BY <3>4 DEF Promise!Next, Promise!Orderly
    <2>5. CASE pc = "timer_call" /\ timers[1].when < now + d
      <3>1. 1 \in 1 .. p - 1
        BY <1>4, <1>8, <2>5
      <3>2. timers'[1] = old[1]
        BY <2>2, <3>1
      <3>3. FiringTimers = {Timer(timers[1])} /\ FiringTimers' = {Timer(timers[1])}
        BY <1>1, <1>2, <1>3, <1>4, <2>5, <3>2 DEF Mapped
      <3>4. ~Displaced'
        BY <1>1, <1>2, <1>3, <1>4, <1>8, <2>5, <3>2 DEF Mapped
      <3>5. Promise!Set(c, d)
        BY <1>2, <1>5, <1>6, <1>8, <2>3, <2>5, <3>3, <3>4
        DEF Promise!Set, Promise!Others, Promise!TimerAt, new
      <3> QED
        BY <3>5 DEF Promise!Next, Promise!Orderly
    <2>6. CASE pc # "timer_call"
      <3>1. FiringTimers = {} /\ FiringTimers' = {}
        BY <1>1, <1>2, <2>6 DEF Mapped
      <3>2. ~Displaced'
        BY <1>1, <1>2, <1>8, <2>6 DEF Mapped
      <3>3. Promise!Set(c, d)
        BY <1>2, <1>5, <1>6, <1>8, <3>1, <3>2
        DEF Promise!Set, Promise!Others, Promise!TimerAt, new
      <3> QED
        BY <3>3 DEF Promise!Next, Promise!Orderly
    <2> QED
      BY <1>2, <2>3, <2>4, <2>5, <2>6
  <1>9. SortedList(timers)
    BY DEF TimerListOK
  <1>10. \/ AllocFails /\ timers' = old /\ Timers(timers') = others
         \/ \E p \in 1 .. Len(timers) + 1 :
               /\ timers' = InsertAt(old, p, NewTimer(c, d, now))
               /\ Timers(timers') = others \cup {new}
               /\ Stray(timers', 1) => Stray(timers, 1)
               /\ p # 1 => (Stray(timers', 2) => Stray(timers, 2))
               /\ timers # <<>> /\ timers[1].when < now + d => p # 1
               /\ timers # <<>> /\ timers[1].when >= now + d => p = 1
    BY <1>2, <1>6, <1>9, AddedTimers DEF old, new
  <1> QED
    BY <1>7, <1>8, <1>10

LEMMA PromiseSkip ==
    ASSUME TypeInv, TypeInv', ~Displaced, TimerSkip
    PROVE  UNCHANGED Promise!vars
  <1>1. Mapped /\ Mapped'
    BY Mapping, MappingNext
  <1>2. /\ timers \in Seq(TimerNode) /\ timers # <<>> /\ timers[1].remove
        /\ timers' = Tail(timers)
        /\ pc = "timers" /\ pc' = "timers" /\ now' = now /\ setbacks' = setbacks
    BY DEF TimerSkip, HeadExpired, clock, TypeInv, TypeOK
  <1>3. Timers(timers') = Timers(timers) /\ (Stray(timers', 1) => Stray(timers, 2))
    BY <1>2, TailTimers DEF IsPending
  <1>4. Stray(timers, 2) => Stray(timers, 1)
    BY DEF Stray
  <1>5. PendingTimers' = PendingTimers /\ FiringTimers' = FiringTimers
    BY <1>1, <1>2, <1>3 DEF Mapped
  <1>6. ~Displaced'
    BY <1>1, <1>2, <1>3, <1>4 DEF Mapped
  <1>7. Displaced \in BOOLEAN /\ Displaced' \in BOOLEAN
    BY DEF Displaced, Alive
  <1> QED
    BY <1>2, <1>5, <1>6, <1>7 DEF Promise!vars

LEMMA PromiseSweep ==
    ASSUME TypeInv, TypeInv', ~Displaced, SweepTimer
    PROVE  UNCHANGED Promise!vars
  <1>1. Mapped /\ Mapped'
    BY Mapping, MappingNext
  <1>2. /\ timers \in Seq(TimerNode) /\ DOMAIN timers = 1 .. Len(timers)
        /\ pc = "sweep" /\ pc' = "sweep" /\ now' = now /\ setbacks' = setbacks
    BY LenProperties DEF SweepTimer, clock, TypeInv, TypeOK
  <1>3. PICK p \in 1 .. Len(timers) : timers[p].remove /\ timers' = RemoveAt(timers, p)
    BY <1>2 DEF SweepTimer
  <1>4. Timers(timers') = Timers(timers) /\ (Stray(timers', 1) => Stray(timers, 1))
    BY <1>2, <1>3, RemovedTimers DEF IsPending
  <1>5. PendingTimers' = PendingTimers /\ FiringTimers' = FiringTimers
    BY <1>1, <1>2, <1>4 DEF Mapped
  <1>6. ~Displaced'
    BY <1>1, <1>2, <1>4 DEF Mapped
  <1>7. Displaced \in BOOLEAN /\ Displaced' \in BOOLEAN
    BY DEF Displaced, Alive
  <1> QED
    BY <1>2, <1>5, <1>6, <1>7 DEF Promise!vars

LEMMA PromiseReset ==
    ASSUME TypeInv, TypeInv', ~Displaced, CleanupReset
    PROVE  Promise!Next
  <1>1. Mapped /\ Mapped'
    BY Mapping, MappingNext
  <1>2. /\ timers' = <<>> /\ Len(timers') = 0
        /\ pc = "cleanup" /\ pc' = "out" /\ now' = now /\ setbacks' = setbacks
    BY DEF CleanupReset, clock
  <1>3. PendingTimers' = {} /\ FiringTimers = {} /\ FiringTimers' = {}
    BY <1>1, <1>2 DEF Mapped, Timers
  <1>4. ~Displaced'
    BY <1>2 DEF Displaced
  <1>5. Displaced \in BOOLEAN /\ Displaced' \in BOOLEAN
    BY DEF Displaced, Alive
  <1> QED
    BY <1>2, <1>3, <1>4, <1>5 DEF Promise!Next, Promise!Orderly, Promise!CancelAll

(* The head of the sorted list is the earliest of all; only one of its      *)
(* callback is live.                                                        *)
LEMMA PromiseCall ==
    ASSUME TypeInv, TypeInv', TimerListOK, FiredInv, ~Displaced, TimerCall
    PROVE  Promise!Next
  <1> DEFINE t == Timer(timers[1])
  <1>1. Mapped /\ Mapped'
    BY Mapping, MappingNext
  <1>2. /\ timers \in Seq(TimerNode) /\ timers # <<>>
        /\ ~timers[1].remove /\ timers[1].when < pnow
        /\ timers' = [timers EXCEPT ![1].fired = TRUE]
        /\ pc = "timers" /\ pc' = "timer_call" /\ now' = now /\ setbacks' = setbacks
        /\ now \in Nat /\ pnow \in Nat
    BY DEF TimerCall, HeadExpired, clock, TypeInv, TypeOK
  <1>3. /\ 1 \in 1 .. Len(timers) /\ timers[1] \in TimerNode
        /\ timers[1].when \in Nat
    BY <1>2, HeadTimer
  <1>4. ~Stray(timers, 1)
    BY <1>1, <1>2 DEF Mapped
  <1>5. ~timers[1].fired
    BY <1>2, <1>3, <1>4 DEF Stray
  <1>6. /\ Len(timers') = Len(timers) /\ Len(timers) \in Nat
        /\ timers'[1] = [timers[1] EXCEPT !.fired = TRUE]
        /\ \A i \in 2 .. Len(timers) : timers'[i] = timers[i]
    <2>1. [timers[1] EXCEPT !.fired = TRUE] \in TimerNode
      BY <1>3 DEF TimerNode
    <2>2. timers' = [timers EXCEPT ![1] = [timers[1] EXCEPT !.fired = TRUE]]
      BY <1>2
    <2>3. Len(timers') = Len(timers) /\ Len(timers) \in Nat
      BY <1>2, <1>3, <2>1, <2>2, ExceptSeq, LenProperties
    <2>4. DOMAIN timers = 1 .. Len(timers)
      BY <1>2, LenProperties
    <2>5. timers'[1] = [timers[1] EXCEPT !.fired = TRUE]
      BY <1>3, <2>2, <2>4
    <2>6. \A i \in 2 .. Len(timers) : i \in DOMAIN timers /\ i # 1
      BY <2>3, <2>4
    <2>7. \A i \in 2 .. Len(timers) : timers'[i] = timers[i]
      BY <2>2, <2>6
    <2> QED
      BY <2>3, <2>5, <2>7
  <1>7. timers'[1].fired /\ Timer(timers'[1]) = t
    BY <1>3, <1>6 DEF TimerNode, Timer
  <1>8. ~Stray(timers', 2)
    <2>1. ASSUME NEW i \in 2 .. Len(timers'), timers'[i].fired, ~timers'[i].remove
          PROVE  FALSE
      BY <1>4, <1>6, <2>1 DEF Stray
    <2> QED
      BY <2>1 DEF Stray
  <1>9. t \in Timers(timers) /\ t.when = timers[1].when /\ t.cb = timers[1].cb
    BY <1>2, <1>3, <1>5 DEF Timers, IsPending, Timer
  <1>10. ASSUME NEW u \in Timers(timers)
         PROVE  t.when <= u.when
    <2>1. PICK i \in 1 .. Len(timers) : u = Timer(timers[i])
      BY DEF Timers
    <2>2. CASE i = 1
      BY <1>3, <1>9, <2>1, <2>2
    <2>3. CASE i # 1
      <3>1. 1 < i
        BY <1>6, <2>3
      <3>2. timers[1].when <= timers[i].when
        BY <1>3, <3>1 DEF TimerListOK, SortedList
      <3> QED
        BY <1>9, <2>1, <3>2 DEF Timer
    <2> QED
      BY <2>2, <2>3
  <1>11. Timers(timers') = Timers(timers) \ {t}
    <2>1. \A x : x \in Timers(timers') <=>
                    \E i \in 1 .. Len(timers) : IsPending(timers'[i]) /\ x = Timer(timers'[i])
      BY <1>6 DEF Timers
    <2>2. \A x : x \in Timers(timers) <=>
                    \E i \in 1 .. Len(timers) : IsPending(timers[i]) /\ x = Timer(timers[i])
      BY DEF Timers
    <2>3. ~IsPending(timers'[1])
      BY <1>7 DEF IsPending
    <2>4. ASSUME NEW i \in 2 .. Len(timers), IsPending(timers[i])
          PROVE  Timer(timers[i]) # t
      <3>1. i \in 1 .. Len(timers) /\ i # 1
        BY <1>6
      <3>2. timers[i].cb # timers[1].cb
        BY <1>2, <1>3, <2>4, <3>1 DEF TimerListOK, OneLiveList, IsPending
      <3> QED
        BY <1>9, <3>2 DEF Timer
    <2>5. \A i \in 1 .. Len(timers) : i = 1 \/ i \in 2 .. Len(timers)
      BY <1>6
    <2>6. \A i \in 2 .. Len(timers) : i \in 1 .. Len(timers)
      OBVIOUS
    <2> HIDE DEF t
    <2>7. ASSUME NEW x \in Timers(timers')
          PROVE  x \in Timers(timers) \ {t}
      <3>1. PICK i \in 1 .. Len(timers) : IsPending(timers'[i]) /\ x = Timer(timers'[i])
        BY <2>1, <2>7
      <3>2. i \in 2 .. Len(timers)
        BY <2>3, <2>5, <3>1
      <3>3. timers'[i] = timers[i]
        BY <1>6, <3>2
      <3> QED
        BY <2>2, <2>4, <3>1, <3>2, <3>3
    <2>8. ASSUME NEW x \in Timers(timers), x # t
          PROVE  x \in Timers(timers')
      <3>1. PICK i \in 1 .. Len(timers) : IsPending(timers[i]) /\ x = Timer(timers[i])
        BY <2>2, <2>8
      <3>2. i \in 2 .. Len(timers)
        BY <2>5, <2>8, <3>1 DEF t
      <3>3. timers'[i] = timers[i]
        BY <1>6, <3>2
      <3> QED
        BY <2>1, <3>1, <3>3
    <2> QED
      BY <2>7, <2>8
  <1>12. setbacks = 0 => t.when < now
    BY <1>2, <1>3, <1>9 DEF FiredInv
  <1> HIDE DEF t
  <1>13. /\ PendingTimers = Timers(timers) /\ PendingTimers' = PendingTimers \ {t}
         /\ FiringTimers = {} /\ FiringTimers' = {t}
    BY <1>1, <1>2, <1>7, <1>11 DEF Mapped
  <1>14. ~Displaced'
    BY <1>1, <1>2, <1>7, <1>8 DEF Mapped
  <1>15. Displaced \in BOOLEAN /\ Displaced' \in BOOLEAN
    BY DEF Displaced, Alive
  <1>16. Promise!Fire(t)
    BY <1>2, <1>10, <1>12, <1>13, <1>14, <1>15 DEF Promise!Fire
  <1> QED
    BY <1>9, <1>13, <1>16 DEF Promise!Next, Promise!Orderly

LEMMA PromiseReturn ==
    ASSUME TypeInv, TypeInv', TimerListOK, ~Displaced,
           NEW r \in {0, 1}, TimerReturn(r)
    PROVE  Promise!Next
  <1> DEFINE c == timers[1].cb
             d == timers[1].interval
             t == Timer(timers[1])
             new == [cb |-> c, when |-> now + d, interval |-> d]
             others == {u \in Timers(timers) : u.cb # c}
  <1>1. Mapped /\ Mapped'
    BY Mapping, MappingNext
  <1>2. /\ timers \in Seq(TimerNode) /\ timers # <<>> /\ now \in Nat
        /\ pc = "timer_call" /\ pc' = "timers" /\ now' = now /\ setbacks' = setbacks
    BY TimerReturnList DEF TimerReturn, clock, TypeInv, TypeOK
  <1>3. /\ 1 \in 1 .. Len(timers) /\ timers[1] \in TimerNode
        /\ c \in TimerCbs /\ d \in Nat /\ timers[1].when \in Nat
    BY <1>2, HeadTimer
  <1>4. timers[1].fired /\ ~Stray(timers, 2)
    BY <1>1, <1>2 DEF Mapped
  <1>5. t.cb = c /\ t.when = timers[1].when /\ t.interval = d
    BY DEF Timer
  <1>6. /\ PendingTimers = Timers(timers) /\ PendingTimers' = Timers(timers')
        /\ FiringTimers = {t} /\ FiringTimers' = {}
        /\ Stray(timers', 1) <=> Displaced'
    BY <1>1, <1>2 DEF Mapped
  <1>7. Displaced = FALSE /\ Displaced' \in BOOLEAN
    BY DEF Displaced, Alive
  <1> HIDE DEF c, d, t, new, others
  <1>8. CASE r = 0
    <2>1. timers' = Tail(timers)
      BY <1>8 DEF TimerReturn
    <2>2. Timers(timers') = Timers(timers) /\ (Stray(timers', 1) => Stray(timers, 2))
      BY <1>2, <1>4, <2>1, TailTimers DEF IsPending
    <2>3. Promise!Return(t)
      BY <1>2, <1>4, <1>6, <1>7, <2>2 DEF Promise!Return
    <2> QED
      BY <1>6, <2>3 DEF Promise!Next, Promise!Orderly
  <1>9. CASE r = 1
    <2>1. PICK q \in Seq(TimerNode) :
             q # <<>> /\ timers' = Tail(q) /\ q \in TimerAdded(timers, c, d, now)
      BY <1>9, TimerReturnList DEF c, d
    <2>2. /\ MarkTimers(timers, c) \in Seq(TimerNode)
          /\ MarkTimers(timers, c) # <<>>
          /\ ~IsPending(MarkTimers(timers, c)[1])
          /\ MarkTimers(timers, c)[1].fired /\ MarkTimers(timers, c)[1].remove
          /\ Timers(MarkTimers(timers, c)) = others
          /\ Stray(MarkTimers(timers, c), 2) => Stray(timers, 2)
          /\ Len(MarkTimers(timers, c)) = Len(timers)
      <3>1. /\ MarkTimers(timers, c) \in Seq(TimerNode)
            /\ Len(MarkTimers(timers, c)) = Len(timers)
            /\ Timers(MarkTimers(timers, c)) = others
            /\ Stray(MarkTimers(timers, c), 2) => Stray(timers, 2)
            /\ MarkTimers(timers, c)[1].fired = timers[1].fired
            /\ (MarkTimers(timers, c)[1].remove <=> timers[1].remove \/ timers[1].cb = c)
        BY <1>2, <1>3, MarkedTimers DEF others
      <3>2. MarkTimers(timers, c) # <<>>
        BY <1>3, <3>1, EmptySeq
      <3> QED
        BY <1>4, <3>1, <3>2 DEF IsPending, c
    <2>3. CASE AllocFails /\ q = MarkTimers(timers, c)
      <3>1. Timers(timers') = others /\ (Stray(timers', 1) => Stray(timers, 2))
        BY <2>1, <2>2, <2>3, TailTimers
      <3>2. Promise!ReturnAgain(t)
        BY <1>2, <1>4, <1>5, <1>6, <1>7, <2>3, <3>1
        DEF Promise!ReturnAgain, Promise!Others, others
      <3> QED
        BY <1>6, <3>2 DEF Promise!Next, Promise!Orderly
    <2>4. ASSUME NEW p \in 1 .. Len(timers) + 1,
                 q = InsertAt(MarkTimers(timers, c), p, NewTimer(c, d, now)),
                 Timers(q) = others \cup {new},
                 p # 1 => (Stray(q, 2) => Stray(timers, 2)),
                 timers[1].when < now + d => p # 1,
                 timers[1].when >= now + d => p = 1
          PROVE  Promise!Next
      <3>1. NewTimer(c, d, now) \in TimerNode
        BY <1>2, <1>3 DEF NewTimer, TimerNode
      <3>2. /\ q[p] = NewTimer(c, d, now)
            /\ \A i \in 1 .. p - 1 : q[i] = MarkTimers(timers, c)[i]
            /\ \A i \in p .. Len(timers) : q[i + 1] = MarkTimers(timers, c)[i]
            /\ Len(q) = Len(timers) + 1
        BY <2>2, <2>4, <3>1, InsertAtProperties
      <3>3. CASE timers[1].when < now + d
        <4>1. 1 \in 1 .. p - 1
          BY <1>2, <2>4, <3>3, LenProperties
        <4>2. ~IsPending(q[1])
          BY <2>2, <3>2, <4>1
        <4>3. Timers(timers') = others \cup {new} /\ (Stray(timers', 1) => Stray(q, 2))
          BY <2>1, <2>4, <4>2, TailTimers
        <4>4. now + d > timers[1].when
          BY <1>2, <1>3, <3>3
        <4>5. Promise!ReturnAgain(t)
          BY <1>2, <1>4, <1>5, <1>6, <1>7, <2>4, <3>3, <4>3, <4>4
          DEF Promise!ReturnAgain, Promise!Others, Promise!TimerAt, others, new
        <4> QED
          BY <1>6, <4>5 DEF Promise!Next, Promise!Orderly
      <3>4. CASE timers[1].when >= now + d
        <4>1. timers' = MarkTimers(timers, c)
          <5>1. \A i \in 1 .. Len(timers) : Tail(q)[i] = MarkTimers(timers, c)[i]
            <6>1. Len(timers) \in Nat /\ p = 1
              BY <1>2, <2>4, <3>4, LenProperties
            <6>2. \A i \in 1 .. Len(timers) : i \in 1 .. Len(Tail(q)) /\ i \in p .. Len(timers)
              BY <2>1, <3>2, <6>1, HeadTailProperties
            <6> QED
              BY <2>1, <3>2, <6>2, HeadTailProperties
          <5>2. Tail(q) \in Seq(TimerNode) /\ Len(Tail(q)) = Len(timers)
            BY <1>2, <2>1, <3>2, HeadTailProperties, LenProperties
          <5> QED
            BY <2>1, <2>2, <5>1, <5>2, SeqEqual
        <4>2. ~Stray(timers', 1)
          <5>1. ASSUME NEW i \in 1 .. Len(timers'), timers'[i].fired, ~timers'[i].remove
                PROVE  FALSE
            <6>1. i # 1
              BY <2>2, <4>1, <5>1
            <6>2. i \in 2 .. Len(timers')
              BY <1>2, <2>2, <4>1, <6>1, LenProperties
            <6>3. Stray(timers', 2)
              BY <5>1, <6>2 DEF Stray
            <6> QED
              BY <1>4, <2>2, <4>1, <6>3
          <5> QED
            BY <5>1 DEF Stray
        <4>3. now + d <= timers[1].when
          BY <1>2, <1>3, <3>4
        <4>4. Promise!ReturnAgain(t)
          BY <1>2, <1>5, <1>6, <1>7, <2>2, <4>1, <4>2, <4>3
          DEF Promise!ReturnAgain, Promise!Others, others
        <4> QED
          BY <1>6, <4>4 DEF Promise!Next, Promise!Orderly
      <3> QED
        BY <1>2, <1>3, <3>3, <3>4
    <2>5. SortedList(timers)
      BY DEF TimerListOK
    <2>6. \/ AllocFails /\ q = MarkTimers(timers, c)
          \/ \E p \in 1 .. Len(timers) + 1 :
                /\ q = InsertAt(MarkTimers(timers, c), p, NewTimer(c, d, now))
                /\ Timers(q) = others \cup {new}
                /\ p # 1 => (Stray(q, 2) => Stray(timers, 2))
                /\ timers[1].when < now + d => p # 1
                /\ timers[1].when >= now + d => p = 1
      <3>1. c \in TimerCbs /\ d \in Nat
        BY <1>3 DEF c, d
      <3> QED
        BY <1>2, <2>1, <2>5, <3>1, AddedTimers DEF new, others
    <2> QED
      BY <2>3, <2>4, <2>6
  <1> QED
    BY <1>8, <1>9

LEMMA PromiseStep ==
    TypeInv /\ TypeInv' /\ TimerListOK /\ FiredInv /\ [Next]_vars
        => [Promise!Next]_(Promise!vars)
  <1> SUFFICES ASSUME TypeInv, TypeInv', TimerListOK, FiredInv, [Next]_vars
               PROVE  [Promise!Next]_(Promise!vars)
    OBVIOUS
  <1>1. CASE Displaced
    BY <1>1 DEF Promise!Next
  <1>2. CASE ~Displaced
    <2>1. CASE TimerQuiet
      BY <1>2, <2>1, PromiseQuiet
    <2>2. ASSUME NEW c \in TimerCbs, TimerDel(c)
          PROVE  Promise!Next
      BY <1>2, <2>2, PromiseDel
    <2>3. ASSUME NEW c \in TimerCbs, NEW d \in Intervals, TimerAdd(c, d)
          PROVE  Promise!Next
      BY <1>2, <2>3, PromiseAdd
    <2>4. CASE TimerSkip
      BY <1>2, <2>4, PromiseSkip
    <2>5. CASE TimerCall
      BY <1>2, <2>5, PromiseCall
    <2>6. ASSUME NEW r \in {0, 1}, TimerReturn(r)
          PROVE  Promise!Next
      BY <1>2, <2>6, PromiseReturn
    <2>7. CASE SweepTimer
      BY <1>2, <2>7, PromiseSweep
    <2>8. CASE CleanupReset
      BY <1>2, <2>8, PromiseReset
    <2> QED
      BY <2>1, <2>2, <2>3, <2>4, <2>5, <2>6, <2>7, <2>8, TimerFrame
  <1> QED
    BY <1>1, <1>2

(* The event loop keeps the promise of TimerService, whatever is            *)
(* registered and whatever the clock does: the handler that is called is    *)
(* that of the earliest pending timer, a periodic timer is pending again    *)
(* unless its expiry is not after the last one, and adding, deleting,       *)
(* skipping and sweeping lose no other timer.                               *)
THEOREM TimersImplementPromise == Spec => TimersAsPromised
  <1>1. Spec => [](TypeInv /\ TimerListOK /\ FiredInv)
    BY TypeInit, TypeStep, TimerListInit, TimerListStep, FiredInit, FiredStep, PTL DEF Spec
  <1> QED
    BY <1>1, PromiseInit, PromiseStep, PTL DEF Spec, TimersAsPromised, Promise!Spec
===============================================================================
