---------------------------- MODULE MainloopProofs ----------------------------
(***************************************************************************)
(* What is proved of Mainloop for every value of its constants.            *)
(*                                                                         *)
(* Each invariant has the same layout: the actions that can disturb it are *)
(* singled out, each is shown to preserve it, and the last step makes the  *)
(* temporal theorem of the two.                                            *)
(***************************************************************************)
EXTENDS Mainloop, SequenceTheorems, TLAPS

-----------------------------------------------------------------------------
(* What inserting into, removing from and mapping over a list does to the  *)
(* element at each position                                                *)

(* InsertAt shifts what is at and after the position by one. *)
LEMMA InsertAtProperties ==
    ASSUME NEW S, NEW s \in Seq(S), NEW p \in 1 .. Len(s) + 1, NEW e \in S
    PROVE  /\ InsertAt(s, p, e) \in Seq(S)
           /\ Len(InsertAt(s, p, e)) = Len(s) + 1
           /\ InsertAt(s, p, e)[p] = e
           /\ \A i \in 1 .. p - 1 : InsertAt(s, p, e)[i] = s[i]
           /\ \A i \in p .. Len(s) : InsertAt(s, p, e)[i + 1] = s[i]
  <1> DEFINE a == SubSeq(s, 1, p - 1)
             b == SubSeq(s, p, Len(s))
             ae == a \o <<e>>
  <1>1. /\ a \in Seq(S) /\ Len(a) = p - 1
        /\ \A i \in 1 .. p - 1 : a[i] = s[i]
    BY SubSeqProperties, ElementOfSeq
  <1>2. /\ b \in Seq(S) /\ Len(b) = Len(s) - p + 1
        /\ \A i \in 1 .. Len(s) - p + 1 : b[i] = s[p + i - 1]
    BY SubSeqProperties, ElementOfSeq
  <1>3. <<e>> \in Seq(S) /\ Len(<<e>>) = 1 /\ <<e>>[1] = e
    OBVIOUS
  <1> HIDE DEF a, b
  <1>4. /\ ae \in Seq(S) /\ Len(ae) = p
        /\ \A i \in 1 .. p : ae[i] = IF i < p THEN s[i] ELSE e
    BY <1>1, <1>3, ConcatProperties
  <1> HIDE DEF ae
  <1>5. /\ ae \o b \in Seq(S) /\ Len(ae \o b) = Len(s) + 1
        /\ \A i \in 1 .. Len(s) + 1 : (ae \o b)[i] = IF i <= p THEN ae[i] ELSE b[i - p]
    <2>1. /\ ae \o b \in Seq(S) /\ Len(ae \o b) = Len(ae) + Len(b)
          /\ \A i \in 1 .. Len(ae) + Len(b) :
                (ae \o b)[i] = IF i <= Len(ae) THEN ae[i] ELSE b[i - Len(ae)]
      BY <1>2, <1>4, ConcatProperties
    <2>2. Len(ae) = p /\ Len(ae) + Len(b) = Len(s) + 1
      BY <1>2, <1>4, LenProperties
    <2> QED
      BY <2>1, <2>2
  <1>6. InsertAt(s, p, e) = ae \o b
    BY DEF InsertAt, ae, a, b
  <1>7. ASSUME NEW i \in p .. Len(s)
        PROVE  (ae \o b)[i + 1] = s[i]
    <2>1. /\ i + 1 - p \in 1 .. Len(s) - p + 1 /\ p + (i + 1 - p) - 1 = i
          /\ i + 1 \in 1 .. Len(s) + 1 /\ i + 1 > p
      BY LenProperties
    <2>2. b[i + 1 - p] = s[i]
      BY <1>2, <2>1
    <2> QED
      BY <1>5, <2>1, <2>2
  <1>8. p \in 1 .. Len(s) + 1 /\ \A i \in 1 .. p : i \in 1 .. Len(s) + 1
    BY LenProperties
  <1> QED
    BY <1>4, <1>5, <1>6, <1>7, <1>8

(* RemoveAt takes one element out and keeps the order of the others. *)
LEMMA RemoveAtProperties ==
    ASSUME NEW S, NEW s \in Seq(S), NEW p \in 1 .. Len(s)
    PROVE  /\ RemoveAt(s, p) \in Seq(S)
           /\ Len(RemoveAt(s, p)) = Len(s) - 1
           /\ \A i \in 1 .. Len(s) - 1 :
                 RemoveAt(s, p)[i] = IF i < p THEN s[i] ELSE s[i + 1]
  <1> DEFINE a == SubSeq(s, 1, p - 1)
             b == SubSeq(s, p + 1, Len(s))
  <1>1. /\ a \in Seq(S) /\ Len(a) = p - 1
        /\ \A i \in 1 .. p - 1 : a[i] = s[i]
    BY SubSeqProperties, ElementOfSeq
  <1>2. /\ b \in Seq(S) /\ Len(b) = Len(s) - p
        /\ \A i \in 1 .. Len(s) - p : b[i] = s[p + i]
    BY SubSeqProperties, ElementOfSeq
  <1> HIDE DEF a, b
  <1>3. /\ a \o b \in Seq(S) /\ Len(a \o b) = Len(s) - 1
        /\ \A i \in 1 .. Len(s) - 1 : (a \o b)[i] = IF i <= p - 1 THEN a[i] ELSE b[i - (p - 1)]
    BY <1>1, <1>2, ConcatProperties
  <1>4. RemoveAt(s, p) = a \o b
    BY DEF RemoveAt, a, b
  <1>5. ASSUME NEW i \in 1 .. Len(s) - 1
        PROVE  (a \o b)[i] = IF i < p THEN s[i] ELSE s[i + 1]
    <2>1. CASE i < p
      BY <1>1, <1>3, <2>1
    <2>2. CASE i >= p
      <3>1. i - (p - 1) \in 1 .. Len(s) - p /\ p + (i - (p - 1)) = i + 1
        BY <2>2
      <3>2. b[i - (p - 1)] = s[i + 1]
        BY <1>2, <3>1
      <3> QED
        BY <1>3, <2>2, <3>2
    <2>3. i < p \/ i >= p
      BY LenProperties
    <2> QED
      BY <2>1, <2>2, <2>3
  <1> QED
    BY <1>3, <1>4, <1>5

(* A function on the positions of a sequence, into its type, is a sequence. *)
LEMMA MapIsSeq ==
    ASSUME NEW S, NEW s \in Seq(S), NEW f \in [1 .. Len(s) -> S]
    PROVE  f \in Seq(S) /\ Len(f) = Len(s)
  BY SMTT(30), SeqDef
(* Any two elements of t are two elements of s, in the same order. *)
Embeds(t, s) ==
    \A i, j \in 1 .. Len(t) :
        \E a, b \in 1 .. Len(s) :
            t[i] = s[a] /\ t[j] = s[b] /\ (i < j => a < b) /\ (i # j => a # b)

LEMMA RemoveAtEmbeds ==
    ASSUME NEW S, NEW s \in Seq(S), NEW p \in 1 .. Len(s)
    PROVE  Embeds(RemoveAt(s, p), s)
  <1> DEFINE t == RemoveAt(s, p)
  <1>1. /\ Len(s) \in Nat /\ Len(t) = Len(s) - 1
        /\ \A k \in 1 .. Len(s) - 1 : t[k] = IF k < p THEN s[k] ELSE s[k + 1]
    BY RemoveAtProperties, LenProperties
  <1> HIDE DEF t
  <1>2. ASSUME NEW i \in 1 .. Len(t), NEW j \in 1 .. Len(t)
        PROVE  \E a, b \in 1 .. Len(s) :
                  t[i] = s[a] /\ t[j] = s[b] /\ (i < j => a < b) /\ (i # j => a # b)
    <2> DEFINE a == IF i < p THEN i ELSE i + 1
               b == IF j < p THEN j ELSE j + 1
    <2>1. a \in 1 .. Len(s) /\ b \in 1 .. Len(s) /\ (i < j => a < b) /\ (i # j => a # b)
      BY <1>1
    <2>2. t[i] = s[a] /\ t[j] = s[b]
      BY <1>1
    <2> QED
      BY <2>1, <2>2
  <1> QED
    BY <1>2 DEF Embeds, t

LEMMA TailEmbeds ==
    ASSUME NEW S, NEW s \in Seq(S), s # <<>>
    PROVE  Embeds(Tail(s), s)
  <1>1. /\ Len(s) \in Nat /\ Len(Tail(s)) = Len(s) - 1
        /\ \A k \in 1 .. Len(Tail(s)) : Tail(s)[k] = s[k + 1]
    BY HeadTailProperties, LenProperties
  <1>2. ASSUME NEW i \in 1 .. Len(Tail(s)), NEW j \in 1 .. Len(Tail(s))
        PROVE  \E a, b \in 1 .. Len(s) :
                  /\ Tail(s)[i] = s[a] /\ Tail(s)[j] = s[b]
                  /\ (i < j => a < b) /\ (i # j => a # b)
    <2>1. /\ i + 1 \in 1 .. Len(s) /\ j + 1 \in 1 .. Len(s)
          /\ (i < j => i + 1 < j + 1) /\ (i # j => i + 1 # j + 1)
      BY <1>1
    <2> QED
      BY <1>1, <2>1
  <1> QED
    BY <1>2 DEF Embeds

-----------------------------------------------------------------------------
(* Marking and flagging nodes of a list *)

CanBeMarked(S) == \A x \in S : [x EXCEPT !.remove = TRUE] \in S
Marked(t, s, I) ==
    /\ Len(t) = Len(s)
    /\ \A i \in 1 .. Len(s) : t[i] = IF i \in I THEN [s[i] EXCEPT !.remove = TRUE] ELSE s[i]

LEMMA MarkProperties ==
    ASSUME NEW S, NEW s \in Seq(S), NEW I, CanBeMarked(S)
    PROVE  Mark(s, I) \in Seq(S) /\ Marked(Mark(s, I), s, I)
  <1>1. DOMAIN s = 1 .. Len(s) /\ \A i \in 1 .. Len(s) : s[i] \in S
    BY LenProperties, ElementOfSeq
  <1>2. Mark(s, I) \in [1 .. Len(s) -> S]
    BY <1>1 DEF Mark, CanBeMarked
  <1> QED
    BY <1>1, <1>2, MapIsSeq DEF Mark, Marked

LEMMA FdMarked ==
    ASSUME NEW s \in Seq(FdNode), NEW I
    PROVE  /\ Mark(s, I) \in Seq(FdNode)
           /\ Len(Mark(s, I)) = Len(s)
           /\ \A i \in 1 .. Len(s) :
                 /\ Mark(s, I)[i].fd = s[i].fd
                 /\ Mark(s, I)[i].fresh = s[i].fresh
                 /\ (Mark(s, I)[i].remove <=> s[i].remove \/ i \in I)
  <1>1. CanBeMarked(FdNode)
    BY DEF CanBeMarked, FdNode
  <1>2. \A i \in 1 .. Len(s) : s[i] \in FdNode
    BY ElementOfSeq
  <1>3. Mark(s, I) \in Seq(FdNode) /\ Marked(Mark(s, I), s, I)
    BY <1>1, MarkProperties
  <1> QED
    BY <1>2, <1>3 DEF FdNode, Marked

LEMMA TimerMarked ==
    ASSUME NEW s \in Seq(TimerNode), NEW I
    PROVE  /\ Mark(s, I) \in Seq(TimerNode)
           /\ Len(Mark(s, I)) = Len(s)
           /\ \A i \in 1 .. Len(s) :
                 /\ Mark(s, I)[i].cb = s[i].cb
                 /\ Mark(s, I)[i].when = s[i].when
                 /\ Mark(s, I)[i].fired = s[i].fired
                 /\ (Mark(s, I)[i].remove <=> s[i].remove \/ i \in I)
  <1>1. CanBeMarked(TimerNode)
    BY DEF CanBeMarked, TimerNode
  <1>2. \A i \in 1 .. Len(s) : s[i] \in TimerNode
    BY ElementOfSeq
  <1>3. Mark(s, I) \in Seq(TimerNode) /\ Marked(Mark(s, I), s, I)
    BY <1>1, MarkProperties
  <1> QED
    BY <1>2, <1>3 DEF TimerNode, Marked

LEMMA SigMarked ==
    ASSUME NEW s \in Seq(SigNode), NEW I
    PROVE  /\ Mark(s, I) \in Seq(SigNode)
           /\ Len(Mark(s, I)) = Len(s)
           /\ \A i \in 1 .. Len(s) :
                 /\ Mark(s, I)[i].signum = s[i].signum
                 /\ (Mark(s, I)[i].remove <=> s[i].remove \/ i \in I)
  <1>1. CanBeMarked(SigNode)
    BY DEF CanBeMarked, SigNode
  <1>2. \A i \in 1 .. Len(s) : s[i] \in SigNode
    BY ElementOfSeq
  <1>3. Mark(s, I) \in Seq(SigNode) /\ Marked(Mark(s, I), s, I)
    BY <1>1, MarkProperties
  <1> QED
    BY <1>2, <1>3 DEF SigNode, Marked

(* The asynchronous handler and the signal walk only change flags. *)
LEMMA SigFlagged ==
    ASSUME NEW s \in Seq(SigNode), NEW t,
           (\E n : t = Signaled(s, n)) \/ (\E k : t = Unsignaled(s, k))
    PROVE  /\ t \in Seq(SigNode)
           /\ Len(t) = Len(s)
           /\ \A i \in 1 .. Len(s) : t[i].signum = s[i].signum /\ t[i].remove = s[i].remove
  <1>1. DOMAIN s = 1 .. Len(s) /\ \A i \in 1 .. Len(s) : s[i] \in SigNode
    BY LenProperties, ElementOfSeq
  <1>2. /\ t \in [1 .. Len(s) -> SigNode]
        /\ \A i \in 1 .. Len(s) : t[i].signum = s[i].signum /\ t[i].remove = s[i].remove
    <2>1. CASE \E n : t = Signaled(s, n)
      BY <1>1, <2>1 DEF Signaled, SigNode
    <2>2. CASE \E k : t = Unsignaled(s, k)
      <3>1. PICK k : t = Unsignaled(s, k)
        BY <2>2
      <3>2. s \in [1 .. Len(s) -> SigNode]
        BY LenProperties
      <3>3. CASE k \in 1 .. Len(s)
        BY <1>1, <3>1, <3>2, <3>3 DEF Unsignaled, SigNode
      <3>4. CASE k \notin 1 .. Len(s)
        BY <1>1, <3>1, <3>2, <3>4 DEF Unsignaled
      <3> QED
        BY <3>3, <3>4
    <2> QED
      BY <2>1, <2>2
  <1> QED
    BY <1>2, MapIsSeq

(* The head of a list that is not empty *)
LEMMA HeadTimer ==
    ASSUME NEW s \in Seq(TimerNode), s # <<>>
    PROVE  /\ 1 \in 1 .. Len(s)
           /\ s[1] \in TimerNode
           /\ s[1].cb \in TimerCbs /\ s[1].when \in Nat /\ s[1].interval \in Nat
  <1>1. 1 \in 1 .. Len(s)
    BY EmptySeq
  <1>2. s[1] \in TimerNode
    BY <1>1, ElementOfSeq
  <1> QED
    BY <1>1, <1>2 DEF TimerNode

(* Every list that mainloop_timer_add may leave is a list of timers, no     *)
(* shorter than it was.                                                     *)
LEMMA TimerAddedType ==
    ASSUME NEW s \in Seq(TimerNode), NEW c \in TimerCbs, NEW d \in Nat, NEW t \in Nat,
           NEW q \in TimerAdded(s, c, d, t)
    PROVE  q \in Seq(TimerNode) /\ Len(q) >= Len(s)
  <1> DEFINE old == MarkTimers(s, c)
  <1>1. old \in Seq(TimerNode) /\ Len(old) = Len(s)
    BY TimerMarked DEF MarkTimers
  <1>2. NewTimer(c, d, t) \in TimerNode
    BY DEF NewTimer, TimerNode
  <1>3. CASE q = old
    BY <1>1, <1>3, LenProperties
  <1>4. ASSUME NEW p \in InsertionPoints(old, t + d), q = InsertAt(old, p, NewTimer(c, d, t))
        PROVE  q \in Seq(TimerNode) /\ Len(q) >= Len(s)
    <2>1. p \in 1 .. Len(old) + 1
      BY DEF InsertionPoints
    <2> HIDE DEF old
    <2>2. q \in Seq(TimerNode) /\ Len(q) = Len(old) + 1
      BY <1>1, <1>2, <1>4, <2>1, InsertAtProperties
    <2> QED
      BY <1>1, <2>2, LenProperties
  <1> QED
    BY <1>3, <1>4 DEF TimerAdded

-----------------------------------------------------------------------------
(* Types *)

(* TypeOK is not inductive alone: a callback's return steps the cursor      *)
(* down, and a timer callback's return takes the head off the list.         *)
CursorOK ==
    /\ pc = "fds" => cursor <= Len(fds)
    /\ pc = "fd_call" => cursor \in 1 .. Len(fds)
    /\ pc = "signals" => cursor <= Len(sigs)
    /\ pc = "sig_call" => cursor \in 1 .. Len(sigs)
    /\ pc = "timer_call" => timers # <<>>

TypeInv == TypeOK /\ CursorOK

LEMMA TypeInit == Init => TypeInv
  <1>1. <<>> \in Seq(FdNode) /\ <<>> \in Seq(TimerNode) /\ <<>> \in Seq(SigNode)
    OBVIOUS
  <1>2. Init => TypeOK
    <2> SUFFICES ASSUME Init PROVE TypeOK
      OBVIOUS
    <2>1. fds \in Seq(FdNode) /\ timers \in Seq(TimerNode) /\ sigs \in Seq(SigNode)
      BY <1>1 DEF Init
    <2>2. pc \in Phases /\ running \in BOOLEAN /\ inRun \in BOOLEAN
      BY DEF Init, Phases
    <2>3. caught \subseteq Signums /\ fdsets \subseteq Fds \X FdTypes
      BY DEF Init
    <2>4. cursor \in Nat /\ wait \in Nat /\ pnow \in Nat /\ now \in Nat /\ setbacks \in Nat
      BY DEF Init
    <2> QED
      BY <2>1, <2>2, <2>3, <2>4 DEF TypeOK
  <1>3. Init => CursorOK
    BY DEF Init, CursorOK
  <1> QED
    BY <1>2, <1>3 DEF TypeInv

LEMMA TypeStep == TypeInv /\ [Next]_vars => TypeInv'
  <1> SUFFICES ASSUME TypeInv, [Next]_vars PROVE TypeInv'
    OBVIOUS
  <1> USE DEF TypeInv, TypeOK, CursorOK, Phases, lists, ctl, locals, clock
  <1>1. ASSUME NEW f \in Fds, NEW y \in FdTypes, NEW c \in FdCbs, FdAdd(f, y, c)
        PROVE  TypeInv'
    <2>1. [fd |-> f, type |-> y, cb |-> c, remove |-> FALSE, fresh |-> TRUE] \in FdNode
      BY DEF FdNode
    <2>2. fds' \in Seq(FdNode) /\ Len(fds') = Len(fds) + 1
      BY <1>1, <2>1, AppendProperties DEF FdAdd, ListAdd
    <2> QED
      BY <1>1, <2>2, LenProperties DEF FdAdd, ClientTurn
  <1>2. ASSUME NEW f \in Fds, NEW y \in FdTypes, NEW c \in FdCbs, FdDel(f, y, c)
        PROVE  TypeInv'
    <2>1. fds' \in Seq(FdNode) /\ Len(fds') = Len(fds)
      BY <1>2, FdMarked DEF FdDel
    <2> QED
      BY <1>2, <2>1 DEF FdDel, ClientTurn
  <1>3. ASSUME NEW c \in TimerCbs, NEW d \in Intervals, TimerAdd(c, d)
        PROVE  TypeInv'
    <2>1. timers' \in Seq(TimerNode) /\ Len(timers') >= Len(timers)
      BY <1>3, MainloopAssumption, TimerAddedType DEF TimerAdd
    <2>2. timers # <<>> => timers' # <<>>
      BY <2>1, EmptySeq
    <2> QED
      BY <1>3, <2>1, <2>2 DEF TimerAdd
  <1>4. ASSUME NEW c \in TimerCbs, TimerDel(c)
        PROVE  TypeInv'
    <2>1. timers' \in Seq(TimerNode) /\ Len(timers') = Len(timers)
      BY <1>4, TimerMarked DEF TimerDel, MarkTimers
    <2>2. timers # <<>> => timers' # <<>>
      BY <2>1, EmptySeq
    <2> QED
      BY <1>4, <2>1, <2>2 DEF TimerDel
  <1>5. ASSUME NEW n \in Signums, NEW c \in SigCbs, SignalAdded(n, c)
        PROVE  /\ sigs' \in Seq(SigNode) /\ Len(sigs') = Len(sigs) + 1
               /\ caught' \subseteq Signums
    <2>1. SignalNode(n, c) \in SigNode
      BY DEF SignalNode, SigNode
    <2> QED
      BY <1>5, <2>1, AppendProperties DEF SignalAdded, ListAdd
  <1>6. ASSUME NEW n \in Signums, NEW c \in SigCbs, SignalAdd(n, c)
        PROVE  TypeInv'
    BY <1>5, <1>6, LenProperties DEF SignalAdd, ClientTurn
  <1>7. ASSUME NEW n \in Signums, NEW c \in SigCbs, SignalDel(n, c)
        PROVE  TypeInv'
    <2>1. sigs' \in Seq(SigNode) /\ Len(sigs') = Len(sigs)
      BY <1>7, SigMarked DEF SignalDel
    <2> QED
      BY <1>7, <2>1 DEF SignalDel, ClientTurn
  <1>8. CASE \E b \in BOOLEAN : SetRunning(b)
    BY <1>8 DEF SetRunning, ClientTurn
  <1>9. CASE CleanupFree \/ CallPoll
    BY <1>9 DEF CleanupFree, CallPoll
  <1>10. CASE CallRun
    <2>1. SIGQUIT \in Signums /\ on_sigquit \in SigCbs
      BY MainloopAssumption
    <2> QED
      BY <1>5, <1>10, <2>1 DEF CallRun
  <1>11. CASE PollEntry
    <2>1. fds' \in Seq(FdNode) /\ Len(fds') = Len(fds)
      <3>1. DOMAIN fds = 1 .. Len(fds) /\ \A i \in 1 .. Len(fds) : fds[i] \in FdNode
        BY LenProperties, ElementOfSeq
      <3>2. fds' \in [1 .. Len(fds) -> FdNode]
        BY <1>11, <3>1 DEF PollEntry, FdNode
      <3> QED
        BY <3>2, MapIsSeq
    <2>2. fdsets' \subseteq Fds \X FdTypes
      <3>1. \A i \in DOMAIN fds : fds[i] \in FdNode
        BY LenProperties, ElementOfSeq
      <3> QED
        BY <1>11, <3>1 DEF PollEntry, FdNode
    <2>3. wait' \in Nat
      <3>1. CASE timers = <<>>
        BY <1>11, <3>1, MainloopAssumption DEF PollEntry, SelectWait
      <3>2. CASE timers # <<>>
        <4>1. timers[1].when \in Nat
          BY <3>2, HeadTimer
        <4> QED
          BY <1>11, <3>2, <4>1 DEF PollEntry, SelectWait
      <3> QED
        BY <3>1, <3>2
    <2> QED
      BY <1>11, <2>1, <2>2, <2>3 DEF PollEntry
  <1>12. CASE PollNotRunning \/ SelectError \/ SweepDone
    BY <1>12 DEF PollNotRunning, SelectError, SweepDone, PollReturns
  <1>13. CASE SelectBlock
    BY <1>13 DEF SelectBlock
  <1>14. CASE SelectReady
    BY <1>14, LenProperties DEF SelectReady
  <1>15. CASE SelectTimeout \/ FdsDone
    BY <1>15, LenProperties DEF SelectTimeout, FdsDone, ToSignals
  <1>16. CASE FdCall
    BY <1>16, LenProperties DEF FdCall
  <1>17. CASE FdReturn \/ SigReturn
    <2>1. CASE FdReturn
      BY <2>1, LenProperties DEF FdReturn
    <2>2. CASE SigReturn
      BY <2>2, LenProperties DEF SigReturn
    <2> QED
      BY <1>17, <2>1, <2>2
  <1>18. CASE SigCall
    <2>1. sigs' \in Seq(SigNode) /\ Len(sigs') = Len(sigs)
      BY <1>18, SigFlagged DEF SigCall
    <2> QED
      BY <1>18, <2>1, LenProperties DEF SigCall
  <1>19. CASE SigsDone \/ TimersDone
    BY <1>19 DEF SigsDone, TimersDone
  <1>20. CASE TimerSkip
    BY <1>20, HeadTailProperties DEF TimerSkip, HeadExpired
  <1>21. CASE TimerCall
    <2>1. 1 \in 1 .. Len(timers) /\ timers[1] \in TimerNode
      BY <1>21, HeadTimer DEF TimerCall, HeadExpired
    <2>2. [timers[1] EXCEPT !.fired = TRUE] \in TimerNode
      BY <2>1 DEF TimerNode
    <2>3. timers' = [timers EXCEPT ![1] = [timers[1] EXCEPT !.fired = TRUE]]
      BY <1>21 DEF TimerCall
    <2>4. timers' \in Seq(TimerNode) /\ Len(timers') = Len(timers)
      BY <2>1, <2>2, <2>3, ExceptSeq
    <2> QED
      BY <1>21, <2>1, <2>4, EmptySeq DEF TimerCall
  <1>22. ASSUME NEW r \in {0, 1}, TimerReturn(r)
         PROVE  TypeInv'
    <2>1. timers # <<>> /\ timers[1].cb \in TimerCbs /\ timers[1].interval \in Nat
      BY <1>22, HeadTimer DEF TimerReturn
    <2>2. PICK q : /\ q \in IF r # 0 THEN TimerAdded(timers, timers[1].cb, timers[1].interval, now)
                              ELSE {timers}
                   /\ timers' = Tail(q)
      BY <1>22 DEF TimerReturn
    <2>3. q \in Seq(TimerNode) /\ Len(q) >= Len(timers)
      <3>1. CASE r = 0
        BY <2>2, <3>1, LenProperties
      <3>2. CASE r = 1
        <4>1. q \in TimerAdded(timers, timers[1].cb, timers[1].interval, now)
          BY <2>2, <3>2
        <4> QED
          BY <2>1, <4>1, TimerAddedType
      <3> QED
        BY <3>1, <3>2
    <2>4. q # <<>>
      BY <2>1, <2>3, EmptySeq
    <2>5. timers' \in Seq(TimerNode)
      BY <2>2, <2>3, <2>4, HeadTailProperties
    <2> QED
      BY <1>22, <2>5 DEF TimerReturn
  <1>23. CASE SweepFd
    BY <1>23, RemoveAtProperties, LenProperties DEF SweepFd
  <1>24. CASE SweepSig
    BY <1>24, RemoveAtProperties, LenProperties DEF SweepSig
  <1>25. CASE SweepTimer
    BY <1>25, RemoveAtProperties, LenProperties DEF SweepTimer
  <1>26. CASE CleanupReset
    BY <1>26, EmptySeq DEF CleanupReset
  <1>27. CASE Tick
    BY <1>27 DEF Tick
  <1>28. CASE SetBack
    BY <1>28 DEF SetBack
  <1>29. ASSUME NEW n \in Signums, Deliver(n)
         PROVE  TypeInv'
    <2>1. sigs' \in Seq(SigNode) /\ Len(sigs') = Len(sigs)
      BY <1>29, SigFlagged DEF Deliver
    <2> QED
      BY <1>29, <2>1, LenProperties DEF Deliver, ToSignals
  <1>30. ASSUME NEW n \in Signums, DeliverInCleanup(n) \/ Kill(n)
         PROVE  TypeInv'
    BY <1>30 DEF DeliverInCleanup, Kill
  <1>31. CASE UNCHANGED vars
    BY <1>31 DEF vars
  <1> QED
    BY <1>1, <1>2, <1>3, <1>4, <1>6, <1>7, <1>8, <1>9, <1>10, <1>11, <1>12, <1>13, <1>14,
       <1>15, <1>16, <1>17, <1>18, <1>19, <1>20, <1>21, <1>22, <1>23, <1>24, <1>25, <1>26,
       <1>27, <1>28, <1>29, <1>30, <1>31
    DEF Next, Client, Loop, Environment, Dead

(* Every variable always has its type, whatever is registered, and the      *)
(* timeout mainloop_poll gives to select is never negative.                 *)
THEOREM TypeCorrect == Spec => []TypeOK
  <1>1. TypeInv => TypeOK
    BY DEF TypeInv
  <1> QED
    BY TypeInit, TypeStep, <1>1, PTL DEF Spec
-----------------------------------------------------------------------------
(* Descriptors *)

(* The actions that change the descriptor list *)
LEMMA FdFrame ==
    [Next]_vars =>
        \/ UNCHANGED fds
        \/ \E f \in Fds, y \in FdTypes, c \in FdCbs : FdAdd(f, y, c) \/ FdDel(f, y, c)
        \/ PollEntry \/ SweepFd \/ CleanupReset
  BY DEF Next, Client, Loop, Environment, Dead, vars, lists,
         TimerAdd, TimerDel, SignalAdd, SignalDel, SetRunning, CleanupFree, CallPoll, CallRun,
         PollNotRunning, SelectBlock, SelectReady, SelectTimeout, SelectError, FdCall,
         FdReturn, FdsDone, SigCall, SigReturn, SigsDone, TimerSkip, TimerCall, TimerReturn,
         TimersDone, SweepSig, SweepTimer, SweepDone, Tick, SetBack, Deliver,
         DeliverInCleanup, Kill

LEMMA UniqueFdStep == TypeInv /\ UniqueLiveFd /\ [Next]_vars => UniqueLiveFd'
  <1> SUFFICES ASSUME TypeInv, UniqueLiveFd, [Next]_vars PROVE UniqueLiveFd'
    OBVIOUS
  <1>1. fds \in Seq(FdNode) /\ fds' \in Seq(FdNode)
    BY TypeStep DEF TypeInv, TypeOK
  <1>2. /\ DOMAIN fds = 1 .. Len(fds) /\ DOMAIN fds' = 1 .. Len(fds')
        /\ Len(fds) \in Nat /\ Len(fds') \in Nat
    BY <1>1, LenProperties
  <1>3. CASE UNCHANGED fds
    BY <1>3 DEF UniqueLiveFd
  <1>4. ASSUME NEW f \in Fds, NEW y \in FdTypes, NEW c \in FdCbs, FdAdd(f, y, c)
        PROVE  UniqueLiveFd'
    <2> DEFINE node == [fd |-> f, type |-> y, cb |-> c, remove |-> FALSE, fresh |-> TRUE]
    <2>1. node \in FdNode
      BY DEF FdNode
    <2>2. /\ Len(fds') = Len(fds) + 1
          /\ \A i \in 1 .. Len(fds) : fds'[i] = fds[i]
          /\ fds'[Len(fds) + 1] = node
      BY <1>1, <1>4, <2>1, AppendProperties DEF FdAdd, ListAdd
    <2>3. \A i \in 1 .. Len(fds) : fds[i].fd = f => fds[i].remove
      BY <1>2, <1>4 DEF FdAdd, Registered
    <2> QED
      BY <1>2, <2>2, <2>3 DEF UniqueLiveFd
  <1>5. ASSUME NEW f \in Fds, NEW y \in FdTypes, NEW c \in FdCbs, FdDel(f, y, c)
        PROVE  UniqueLiveFd'
    <2> DEFINE I == {i \in DOMAIN fds : fds[i].fd = f /\ fds[i].type = y /\ fds[i].cb = c}
    <2>1. fds' = Mark(fds, I)
      BY <1>5 DEF FdDel
    <2> HIDE DEF I
    <2>2. /\ Len(fds') = Len(fds)
          /\ \A i \in 1 .. Len(fds) : /\ fds'[i].fd = fds[i].fd
                                       /\ (fds'[i].remove <=> fds[i].remove \/ i \in I)
      BY <1>1, <2>1, FdMarked
    <2> QED
      BY <1>2, <2>2 DEF UniqueLiveFd
  <1>6. CASE PollEntry
    <2>1. \A i \in 1 .. Len(fds) : fds[i] \in FdNode
      BY <1>1, ElementOfSeq
    <2>2. /\ DOMAIN fds' = 1 .. Len(fds)
          /\ \A i \in 1 .. Len(fds) : fds'[i].fd = fds[i].fd /\ fds'[i].remove = fds[i].remove
      BY <1>2, <1>6, <2>1 DEF PollEntry, FdNode
    <2> QED
      BY <1>2, <2>2 DEF UniqueLiveFd
  <1>7. CASE SweepFd
    <2>1. PICK k \in 1 .. Len(fds) : fds' = RemoveAt(fds, k)
      BY <1>2, <1>7 DEF SweepFd
    <2>2. Embeds(fds', fds)
      BY <1>1, <2>1, RemoveAtEmbeds
    <2> SUFFICES ASSUME NEW i \in 1 .. Len(fds'), NEW j \in 1 .. Len(fds'),
                        fds'[i].fd = fds'[j].fd, ~fds'[i].remove, ~fds'[j].remove
                 PROVE  i = j
      BY <1>2 DEF UniqueLiveFd
    <2>3. PICK a \in 1 .. Len(fds), b \in 1 .. Len(fds) :
             fds'[i] = fds[a] /\ fds'[j] = fds[b] /\ (i # j => a # b)
      BY <2>2 DEF Embeds
    <2> QED
      BY <1>2, <2>3 DEF UniqueLiveFd
  <1>8. CASE CleanupReset
    BY <1>8 DEF UniqueLiveFd, CleanupReset
  <1> QED
    BY <1>3, <1>4, <1>5, <1>6, <1>7, <1>8, FdFrame

(* mainloop_fd_add never lets a descriptor be registered twice, however     *)
(* registration, deletion and the deferred removal of nodes interleave.     *)
THEOREM FdsUnique == Spec => []UniqueLiveFd
  <1>1. Init => UniqueLiveFd
    BY DEF Init, UniqueLiveFd
  <1> QED
    BY <1>1, TypeInit, TypeStep, UniqueFdStep, PTL DEF Spec

-----------------------------------------------------------------------------
(* Signals *)

(* The actions that change the signal list or a disposition *)
LEMMA SigFrame ==
    [Next]_vars =>
        \/ UNCHANGED <<sigs, caught>>
        \/ \E n \in Signums, c \in SigCbs : SignalAdded(n, c) \/ SignalDel(n, c)
        \/ SigCall \/ SweepSig \/ CleanupReset
        \/ \E n \in Signums : Deliver(n)
  BY MainloopAssumption
     DEF Next, Client, Loop, Environment, Dead, vars, lists,
         FdAdd, FdDel, TimerAdd, TimerDel, SignalAdd, SetRunning, CleanupFree, CallPoll,
         CallRun, PollEntry, PollNotRunning, SelectBlock, SelectReady, SelectTimeout,
         SelectError, FdCall, FdReturn, FdsDone, SigReturn, SigsDone, TimerSkip, TimerCall,
         TimerReturn, TimersDone, SweepFd, SweepTimer, SweepDone, Tick, SetBack,
         DeliverInCleanup, Kill

LEMMA CaughtStep == TypeInv /\ CaughtWhileLive /\ [Next]_vars => CaughtWhileLive'
  <1> SUFFICES ASSUME TypeInv, CaughtWhileLive, [Next]_vars PROVE CaughtWhileLive'
    OBVIOUS
  <1>1. sigs \in Seq(SigNode) /\ sigs' \in Seq(SigNode)
    BY TypeStep DEF TypeInv, TypeOK
  <1>2. /\ DOMAIN sigs = 1 .. Len(sigs) /\ DOMAIN sigs' = 1 .. Len(sigs')
        /\ Len(sigs) \in Nat /\ Len(sigs') \in Nat
    BY <1>1, LenProperties
  <1>3. CASE UNCHANGED <<sigs, caught>>
    BY <1>3 DEF CaughtWhileLive
  <1>4. ASSUME NEW n \in Signums, NEW c \in SigCbs, SignalAdded(n, c)
        PROVE  CaughtWhileLive'
    <2>1. SignalNode(n, c) \in SigNode /\ SignalNode(n, c).signum = n
      BY DEF SignalNode, SigNode
    <2>2. /\ Len(sigs') = Len(sigs) + 1
          /\ \A i \in 1 .. Len(sigs) : sigs'[i] = sigs[i]
          /\ sigs'[Len(sigs) + 1] = SignalNode(n, c)
      BY <1>1, <1>4, <2>1, AppendProperties DEF SignalAdded, ListAdd
    <2> QED
      BY <1>2, <1>4, <2>1, <2>2 DEF CaughtWhileLive, SignalAdded
  <1>5. ASSUME NEW n \in Signums, NEW c \in SigCbs, SignalDel(n, c)
        PROVE  CaughtWhileLive'
    <2> DEFINE I == {i \in DOMAIN sigs : sigs[i].signum = n /\ sigs[i].cb = c}
    <2>1. /\ Len(sigs') = Len(sigs)
          /\ \A i \in 1 .. Len(sigs) : /\ sigs'[i].signum = sigs[i].signum
                                        /\ (sigs'[i].remove <=> sigs[i].remove \/ i \in I)
      BY <1>1, <1>5, SigMarked DEF SignalDel
    <2>2. CASE SignalRefcount(n, c) = {}
      <3>1. \A i \in 1 .. Len(sigs) : sigs[i].signum = n => i \in I
        BY <1>2, <2>2 DEF SignalRefcount
      <3>2. caught' = caught \ {n}
        BY <1>5, <2>2 DEF SignalDel
      <3> QED
        BY <1>2, <2>1, <3>1, <3>2 DEF CaughtWhileLive
    <2>3. CASE SignalRefcount(n, c) # {}
      BY <1>2, <1>5, <2>1, <2>3 DEF CaughtWhileLive, SignalDel
    <2> QED
      BY <2>2, <2>3
  <1>6. CASE SigCall \/ \E n \in Signums : Deliver(n)
    <2>1. (\E n : sigs' = Signaled(sigs, n)) \/ (\E k : sigs' = Unsignaled(sigs, k))
      BY <1>6 DEF SigCall, Deliver
    <2>2. /\ Len(sigs') = Len(sigs)
          /\ \A i \in 1 .. Len(sigs) : /\ sigs'[i].signum = sigs[i].signum
                                        /\ sigs'[i].remove = sigs[i].remove
      BY <1>1, <2>1, SigFlagged
    <2>3. caught' = caught
      BY <1>6 DEF SigCall, Deliver
    <2> QED
      BY <1>2, <2>2, <2>3 DEF CaughtWhileLive
  <1>7. CASE SweepSig
    <2>1. PICK k \in 1 .. Len(sigs) : sigs' = RemoveAt(sigs, k) /\ caught' = caught
      BY <1>2, <1>7 DEF SweepSig
    <2>2. /\ Len(sigs') = Len(sigs) - 1
          /\ \A i \in 1 .. Len(sigs) - 1 : sigs'[i] = IF i < k THEN sigs[i] ELSE sigs[i + 1]
      BY <1>1, <2>1, RemoveAtProperties
    <2>3. \A i \in 1 .. Len(sigs') : \E j \in 1 .. Len(sigs) : sigs'[i] = sigs[j]
      BY <1>2, <2>2
    <2> QED
      BY <1>2, <2>1, <2>3 DEF CaughtWhileLive
  <1>8. CASE CleanupReset
    BY <1>8 DEF CaughtWhileLive, CleanupReset
  <1> QED
    BY <1>3, <1>4, <1>5, <1>6, <1>7, <1>8, SigFrame

(* While a handler is registered for a signal and not deleted, the signal   *)
(* is caught: it cannot end the process.                                    *)
THEOREM LiveSignalsCaught == Spec => []CaughtWhileLive
  <1>1. Init => CaughtWhileLive
    BY DEF Init, CaughtWhileLive
  <1> QED
    BY <1>1, TypeInit, TypeStep, CaughtStep, PTL DEF Spec
-----------------------------------------------------------------------------
(* Timers *)

(* The invariants of the timer list, of any list of timers *)
SortedList(s) == \A i, j \in 1 .. Len(s) : i < j => s[i].when <= s[j].when
OneLiveList(s) ==
    \A i, j \in 1 .. Len(s) :
        s[i].cb = s[j].cb /\ ~s[i].remove /\ ~s[j].remove => i = j

(* mainloop_timer_add keeps a list sorted and its live callbacks distinct.  *)
(* A head sooner than the new timer stays the head.                         *)
LEMMA TimerAddedList ==
    ASSUME NEW s \in Seq(TimerNode), NEW c \in TimerCbs, NEW d \in Nat, NEW t \in Nat,
           NEW q \in TimerAdded(s, c, d, t)
    PROVE  /\ SortedList(s) => SortedList(q)
           /\ OneLiveList(s) => OneLiveList(q)
           /\ (\A j \in 1 .. Len(s) : ~s[j].fired) => \A j \in 1 .. Len(q) : ~q[j].fired
           /\ s # <<>> /\ s[1].when < t + d =>
                  /\ q[1].when = s[1].when
                  /\ (\A j \in 2 .. Len(s) : ~s[j].fired) => \A j \in 2 .. Len(q) : ~q[j].fired
                  /\ ~AllocFails => \E j \in 2 .. Len(q) : q[j] = NewTimer(c, d, t)
  <1> DEFINE old == MarkTimers(s, c)
             new == NewTimer(c, d, t)
  <1>1. /\ old \in Seq(TimerNode) /\ Len(old) = Len(s) /\ Len(s) \in Nat
        /\ DOMAIN s = 1 .. Len(s) /\ DOMAIN old = 1 .. Len(s)
        /\ \A i \in 1 .. Len(s) : s[i] \in TimerNode /\ old[i] \in TimerNode
    BY TimerMarked, LenProperties, ElementOfSeq DEF MarkTimers
  <1>2. \A i \in 1 .. Len(s) : /\ old[i].cb = s[i].cb /\ old[i].when = s[i].when
                               /\ old[i].fired = s[i].fired
                               /\ (old[i].remove <=> s[i].remove \/ s[i].cb = c)
    <2> DEFINE I == {i \in DOMAIN s : s[i].cb = c}
    <2>1. \A i \in 1 .. Len(s) : i \in I <=> s[i].cb = c
      BY <1>1
    <2>2. old = Mark(s, I)
      BY DEF MarkTimers
    <2> HIDE DEF I
    <2> QED
      BY <2>1, <2>2, TimerMarked
  <1>3. /\ new \in TimerNode /\ new.cb = c /\ new.when = t + d
        /\ ~new.fired /\ ~new.remove
    BY DEF NewTimer, TimerNode
  <1> HIDE DEF old, new
  <1>4. CASE AllocFails /\ q = old
    BY <1>1, <1>2, <1>4, EmptySeq DEF SortedList, OneLiveList
  <1>5. ASSUME NEW p \in InsertionPoints(old, t + d), q = InsertAt(old, p, new)
        PROVE  /\ SortedList(s) => SortedList(q)
               /\ OneLiveList(s) => OneLiveList(q)
               /\ (\A j \in 1 .. Len(s) : ~s[j].fired) => \A j \in 1 .. Len(q) : ~q[j].fired
               /\ s # <<>> /\ s[1].when < t + d =>
                      /\ q[1].when = s[1].when
                      /\ (\A j \in 2 .. Len(s) : ~s[j].fired) => \A j \in 2 .. Len(q) : ~q[j].fired
                      /\ \E j \in 2 .. Len(q) : q[j] = new
    <2>1. /\ p \in 1 .. Len(s) + 1
          /\ \A j \in 1 .. p - 1 : s[j].when < t + d
          /\ p <= Len(s) => s[p].when >= t + d
      BY <1>1, <1>2 DEF InsertionPoints
    <2>0. p \in 1 .. Len(old) + 1
      BY <1>1, <2>1
    <2>2. /\ Len(q) = Len(s) + 1 /\ q[p] = new
          /\ \A i \in 1 .. p - 1 : q[i] = old[i]
          /\ \A i \in p .. Len(s) : q[i + 1] = old[i]
      <3>1. old \in Seq(TimerNode) /\ new \in TimerNode
        BY <1>1, <1>3
      <3>2. /\ Len(q) = Len(old) + 1 /\ q[p] = new
            /\ \A i \in 1 .. p - 1 : q[i] = old[i]
            /\ \A i \in p .. Len(old) : q[i + 1] = old[i]
        <4> DEFINE r == InsertAt(old, p, new)
        <4>1. /\ Len(r) = Len(old) + 1 /\ r[p] = new
              /\ \A i \in 1 .. p - 1 : r[i] = old[i]
              /\ \A i \in p .. Len(old) : r[i + 1] = old[i]
          BY <3>1, <2>0, InsertAtProperties
        <4> QED
          BY <4>1, <1>5
      <3> QED
        BY <1>1, <3>2
    <2> DEFINE from(i) == IF i < p THEN i ELSE i - 1
    <2>3. ASSUME NEW i \in 1 .. Len(q), i # p
          PROVE  from(i) \in 1 .. Len(s) /\ q[i] = old[from(i)]
      <3>1. CASE i < p
        BY <1>1, <2>1, <2>2, <3>1
      <3>2. CASE i > p
        <4>1. i - 1 \in p .. Len(s) /\ (i - 1) + 1 = i
          BY <1>1, <2>1, <2>2, <3>2
        <4>2. q[i] = old[i - 1]
          BY <2>2, <4>1
        <4> QED
          BY <2>1, <3>2, <4>1, <4>2
      <3> QED
        BY <1>1, <2>1, <2>2, <2>3, <3>1, <3>2
    <2>4. \A i, j \in 1 .. Len(q) : i # p /\ j # p /\ i < j => from(i) < from(j)
      BY <1>1, <2>1, <2>2
    <2>5. \A i \in 1 .. Len(q) : (i < p => from(i) < p) /\ (i > p => from(i) >= p)
      BY <1>1, <2>1, <2>2
    <2> HIDE DEF from
    <2>6. SortedList(s) => SortedList(q)
      <3> SUFFICES ASSUME SortedList(s), NEW i \in 1 .. Len(q), NEW j \in 1 .. Len(q), i < j
                   PROVE  q[i].when <= q[j].when
        BY DEF SortedList
      <3>1. \A k \in 1 .. Len(s) : old[k].when \in Nat /\ old[k].when = s[k].when
        BY <1>1, <1>2 DEF TimerNode
      <3>2. CASE i # p /\ j # p
        <4>1. PICK a \in 1 .. Len(s), b \in 1 .. Len(s) : q[i] = old[a] /\ q[j] = old[b] /\ a < b
          BY <2>3, <2>4, <3>2
        <4> QED
          BY <3>1, <4>1 DEF SortedList
      <3>3. CASE j = p
        <4>1. PICK a \in 1 .. Len(s) : q[i] = old[a] /\ a < p
          BY <2>3, <2>5, <3>3
        <4> QED
          <5>1. s[a].when < t + d
            BY <1>1, <2>1, <4>1
          <5> QED
            BY <1>3, <2>2, <3>1, <3>3, <4>1, <5>1
      <3>4. CASE i = p
        <4>1. PICK a \in 1 .. Len(s) : q[j] = old[a] /\ a >= p
          BY <2>3, <2>5, <3>4
        <4>2. p \in 1 .. Len(s) /\ s[p].when >= t + d
          BY <1>1, <2>1, <4>1
        <4>3. s[p].when <= s[a].when
          BY <1>1, <3>1, <4>1, <4>2 DEF SortedList
        <4> QED
          <5>1. s[a].when \in Nat /\ s[p].when \in Nat
            BY <3>1, <4>1, <4>2
          <5>2. q[i].when = t + d
            BY <1>3, <2>2, <3>4
          <5>3. q[j].when = s[a].when
            BY <3>1, <4>1
          <5>4. t + d <= s[a].when
            BY <4>2, <4>3, <5>1
          <5> QED
            BY <5>2, <5>3, <5>4
      <3> QED
        BY <3>2, <3>3, <3>4
    <2>7. OneLiveList(s) => OneLiveList(q)
      <3> SUFFICES ASSUME OneLiveList(s), NEW i \in 1 .. Len(q), NEW j \in 1 .. Len(q),
                          q[i].cb = q[j].cb, ~q[i].remove, ~q[j].remove, i # j
                   PROVE  FALSE
        BY DEF OneLiveList
      <3>1. \A k \in 1 .. Len(q) : k # p => \E a \in 1 .. Len(s) : q[k] = old[a]
        BY <2>3
      <3>2. CASE i # p /\ j # p
        <4>1. from(i) # from(j)
          <5>1. i \in Nat /\ j \in Nat /\ (i < j \/ j < i)
            BY <1>1, <2>2
          <5>2. from(i) \in Nat /\ from(j) \in Nat
            BY <1>1, <2>3, <3>2
          <5> QED
            BY <2>4, <3>2, <5>1, <5>2
        <4>2. PICK a \in 1 .. Len(s), b \in 1 .. Len(s) : q[i] = old[a] /\ q[j] = old[b] /\ a # b
          BY <2>3, <3>2, <4>1
        <4>3. old[a].cb = old[b].cb /\ ~old[a].remove /\ ~old[b].remove
          BY <4>2
        <4>4. s[a].cb = s[b].cb /\ ~s[a].remove /\ ~s[b].remove
          BY <1>2, <4>3
        <4>5. a = b
          BY <4>4 DEF OneLiveList
        <4> QED
          BY <4>2, <4>5
      <3>3. \A a \in 1 .. Len(s) : old[a].cb = c => old[a].remove
        BY <1>2
      <3>4. CASE i = p
        <4>1. PICK a \in 1 .. Len(s) : q[j] = old[a]
          BY <3>1, <3>4
        <4>2. old[a].cb = c /\ ~old[a].remove
          BY <1>3, <2>2, <3>4, <4>1
        <4> QED
          BY <3>3, <4>2
      <3>5. CASE j = p
        <4>1. PICK a \in 1 .. Len(s) : q[i] = old[a]
          BY <3>1, <3>5
        <4>2. old[a].cb = c /\ ~old[a].remove
          BY <1>3, <2>2, <3>5, <4>1
        <4> QED
          BY <3>3, <4>2
      <3> QED
        BY <3>2, <3>4, <3>5
    <2>8. ASSUME s # <<>>, s[1].when < t + d
          PROVE  /\ q[1].when = s[1].when
                 /\ (\A j \in 2 .. Len(s) : ~s[j].fired) => \A j \in 2 .. Len(q) : ~q[j].fired
                 /\ \E j \in 2 .. Len(q) : q[j] = new
      <3>1. 1 \in 1 .. Len(s) /\ s[1].when \in Nat
        BY <2>8, HeadTimer
      <3>2. p \in 2 .. Len(s) + 1
        BY <1>1, <2>1, <2>8, <3>1
      <3>3. q[1].when = s[1].when
        BY <1>2, <2>2, <3>1, <3>2
      <3>4. p \in 2 .. Len(q) /\ q[p] = new
        BY <2>2, <3>2
      <3>5. ASSUME \A j \in 2 .. Len(s) : ~s[j].fired, NEW i \in 2 .. Len(q)
            PROVE  ~q[i].fired
        <4>1. CASE i = p
          BY <1>3, <2>2, <4>1
        <4>2. CASE i # p
          <5>1. PICK a \in 2 .. Len(s) : q[i] = old[a]
            <6>1. from(i) \in 1 .. Len(s) /\ q[i] = old[from(i)] /\ from(i) >= 2
              BY <1>1, <2>2, <2>3, <3>2, <4>2 DEF from
            <6> QED
              BY <1>1, <6>1
          <5> QED
            BY <1>1, <1>2, <3>5, <5>1
        <4> QED
          BY <4>1, <4>2
      <3> QED
        BY <3>3, <3>4, <3>5
    <2>9. ASSUME \A j \in 1 .. Len(s) : ~s[j].fired, NEW i \in 1 .. Len(q)
          PROVE  ~q[i].fired
      <3>1. CASE i = p
        BY <1>3, <2>2, <3>1
      <3>2. CASE i # p
        <4>1. PICK a \in 1 .. Len(s) : q[i] = old[a]
          BY <2>3, <3>2
        <4> QED
          BY <1>2, <2>9, <4>1
      <3> QED
        BY <3>1, <3>2
    <2> QED
      BY <2>6, <2>7, <2>8, <2>9
  <1> QED
    BY <1>4, <1>5 DEF TimerAdded, old, new

(* What the actions that leave the timer list alone do to its context *)
TimerQuiet ==
    /\ UNCHANGED timers
    /\ pc' = "timer_call" => pc = "timer_call"
    /\ pc = "timer_call" => pc' \in {"timer_call", "killed"}
    /\ pc = "killed" => pc' = "killed"
    /\ pc' = "timers" => pnow' = now' \/ (pc = "timers" /\ pnow' = pnow)
    /\ setbacks' = 0 => setbacks = 0 /\ now <= now'

LEMMA TimerFrame ==
    TypeInv /\ [Next]_vars =>
        \/ TimerQuiet
        \/ \E c \in TimerCbs : TimerDel(c) \/ \E d \in Intervals : TimerAdd(c, d)
        \/ TimerSkip \/ TimerCall \/ (\E r \in {0, 1} : TimerReturn(r))
        \/ SweepTimer \/ CleanupReset
  <1> SUFFICES ASSUME now \in Nat, setbacks \in Nat, [Next]_vars
               PROVE  \/ TimerQuiet
                      \/ \E c \in TimerCbs : TimerDel(c) \/ \E d \in Intervals : TimerAdd(c, d)
                      \/ TimerSkip \/ TimerCall \/ (\E r \in {0, 1} : TimerReturn(r))
                      \/ SweepTimer \/ CleanupReset
    BY DEF TypeInv, TypeOK
  <1> USE DEF TimerQuiet, vars, lists, ctl, locals, clock
  <1>1. ASSUME NEW f \in Fds, NEW y \in FdTypes, NEW c \in FdCbs, FdAdd(f, y, c) \/ FdDel(f, y, c)
        PROVE  TimerQuiet
    BY <1>1 DEF FdAdd, FdDel
  <1>2. ASSUME NEW n \in Signums, NEW c \in SigCbs, SignalAdd(n, c) \/ SignalDel(n, c)
        PROVE  TimerQuiet
    BY <1>2 DEF SignalAdd, SignalDel
  <1>3. CASE (\E b \in BOOLEAN : SetRunning(b)) \/ CleanupFree \/ CallPoll \/ CallRun
    BY <1>3 DEF SetRunning, CleanupFree, CallPoll, CallRun
  <1>4. CASE PollEntry \/ SelectBlock \/ SelectReady \/ SelectTimeout
    BY <1>4 DEF PollEntry, SelectBlock, SelectReady, SelectTimeout, ToSignals
  <1>5. CASE PollNotRunning \/ SelectError \/ SweepDone
    BY <1>5 DEF PollNotRunning, SelectError, SweepDone, PollReturns
  <1>6. CASE FdCall \/ FdReturn \/ FdsDone
    BY <1>6 DEF FdCall, FdReturn, FdsDone, ToSignals
  <1>7. CASE SigCall \/ SigReturn \/ SigsDone
    BY <1>7 DEF SigCall, SigReturn, SigsDone
  <1>8. CASE TimersDone \/ SweepFd \/ SweepSig
    BY <1>8 DEF TimersDone, SweepFd, SweepSig
  <1>9. CASE Tick
    BY <1>9 DEF Tick, Alive
  <1>10. CASE SetBack
    BY <1>10 DEF SetBack, Alive
  <1>11. ASSUME NEW n \in Signums, Deliver(n) \/ DeliverInCleanup(n) \/ Kill(n)
         PROVE  TimerQuiet
    BY <1>11 DEF Deliver, DeliverInCleanup, Kill, Alive, ToSignals
  <1>12. CASE UNCHANGED vars
    BY <1>12
  <1> QED
    BY <1>1, <1>2, <1>3, <1>4, <1>5, <1>6, <1>7, <1>8, <1>9, <1>10, <1>11, <1>12
    DEF Next, Client, Loop, Environment, Dead

(* The list a timer callback leaves: the head goes, after what the          *)
(* rescheduling added.                                                      *)
LEMMA TimerReturnList ==
    ASSUME TypeInv, NEW r \in {0, 1}, TimerReturn(r)
    PROVE  /\ timers # <<>>
           /\ \E q \in Seq(TimerNode) :
                 /\ q # <<>> /\ timers' = Tail(q)
                 /\ \/ q = timers /\ r = 0
                    \/ r = 1 /\ q \in TimerAdded(timers, timers[1].cb, timers[1].interval, now)
  <1>1. timers # <<>> /\ timers \in Seq(TimerNode) /\ now \in Nat
    BY DEF TimerReturn, TypeInv, TypeOK, CursorOK
  <1>2. timers[1].cb \in TimerCbs /\ timers[1].interval \in Nat
    BY <1>1, HeadTimer
  <1>3. CASE r = 0
    BY <1>1, <1>3 DEF TimerReturn
  <1>4. CASE r = 1
    <2>1. PICK q \in TimerAdded(timers, timers[1].cb, timers[1].interval, now) : timers' = Tail(q)
      BY <1>4 DEF TimerReturn
    <2>2. q \in Seq(TimerNode) /\ Len(q) >= Len(timers)
      BY <1>1, <1>2, TimerAddedType
    <2>3. q # <<>>
      BY <1>1, <2>2, EmptySeq
    <2> QED
      BY <1>1, <1>4, <2>1, <2>2, <2>3
  <1> QED
    BY <1>3, <1>4

(* Taking timers out of a list keeps it sorted and its callbacks distinct. *)
LEMMA ShorterList ==
    ASSUME NEW s \in Seq(TimerNode), NEW t \in Seq(TimerNode), Embeds(t, s)
    PROVE  (SortedList(s) => SortedList(t)) /\ (OneLiveList(s) => OneLiveList(t))
  <1>1. ASSUME SortedList(s), NEW i \in 1 .. Len(t), NEW j \in 1 .. Len(t), i < j
        PROVE  t[i].when <= t[j].when
    <2>1. PICK a \in 1 .. Len(s), b \in 1 .. Len(s) : t[i] = s[a] /\ t[j] = s[b] /\ a < b
      BY <1>1 DEF Embeds
    <2> QED
      BY <1>1, <2>1 DEF SortedList
  <1>2. ASSUME OneLiveList(s), NEW i \in 1 .. Len(t), NEW j \in 1 .. Len(t),
               t[i].cb = t[j].cb, ~t[i].remove, ~t[j].remove, i # j
        PROVE  FALSE
    <2>1. PICK a \in 1 .. Len(s), b \in 1 .. Len(s) : t[i] = s[a] /\ t[j] = s[b] /\ a # b
      BY <1>2 DEF Embeds
    <2>2. s[a].cb = s[b].cb /\ ~s[a].remove /\ ~s[b].remove
      BY <1>2, <2>1
    <2>3. a = b
      BY <1>2, <2>2 DEF OneLiveList
    <2> QED
      BY <2>1, <2>3
  <1> QED
    BY <1>1, <1>2 DEF SortedList, OneLiveList

LEMMA TailList ==
    ASSUME NEW s \in Seq(TimerNode), s # <<>>
    PROVE  /\ SortedList(s) => SortedList(Tail(s))
           /\ OneLiveList(s) => OneLiveList(Tail(s))
  BY HeadTailProperties, TailEmbeds, ShorterList

TimerListOK == SortedList(timers) /\ OneLiveList(timers)

LEMMA TimerListStep == TypeInv /\ TimerListOK /\ [Next]_vars => TimerListOK'
  <1> SUFFICES ASSUME TypeInv, SortedList(timers), OneLiveList(timers), [Next]_vars
               PROVE  SortedList(timers') /\ OneLiveList(timers')
    BY DEF TimerListOK
  <1>1. timers \in Seq(TimerNode) /\ timers' \in Seq(TimerNode) /\ now \in Nat
    BY TypeStep DEF TypeInv, TypeOK
  <1>2. DOMAIN timers = 1 .. Len(timers) /\ Len(timers) \in Nat
    BY <1>1, LenProperties
  <1>3. CASE TimerQuiet
    BY <1>3 DEF TimerQuiet
  <1>4. ASSUME NEW c \in TimerCbs, TimerDel(c)
        PROVE  SortedList(timers') /\ OneLiveList(timers')
    <2> DEFINE I == {i \in DOMAIN timers : timers[i].cb = c}
    <2>1. timers' = Mark(timers, I)
      BY <1>4 DEF TimerDel, MarkTimers
    <2> HIDE DEF I
    <2>2. /\ Len(timers') = Len(timers)
          /\ \A i \in 1 .. Len(timers) :
                /\ timers'[i].cb = timers[i].cb /\ timers'[i].when = timers[i].when
                /\ (timers'[i].remove <=> timers[i].remove \/ i \in I)
      BY <1>1, <2>1, TimerMarked
    <2> QED
      BY <1>2, <2>2 DEF SortedList, OneLiveList
  <1>5. ASSUME NEW c \in TimerCbs, NEW d \in Intervals, TimerAdd(c, d)
        PROVE  SortedList(timers') /\ OneLiveList(timers')
    BY <1>1, <1>5, MainloopAssumption, TimerAddedList DEF TimerAdd
  <1>6. CASE TimerSkip
    BY <1>1, <1>6, TailList DEF TimerSkip, HeadExpired
  <1>7. CASE TimerCall
    <2>1. 1 \in 1 .. Len(timers) /\ timers[1] \in TimerNode
      BY <1>1, <1>7, HeadTimer DEF TimerCall, HeadExpired
    <2>2. [timers[1] EXCEPT !.fired = TRUE] \in TimerNode
      BY <2>1 DEF TimerNode
    <2>3. timers' = [timers EXCEPT ![1] = [timers[1] EXCEPT !.fired = TRUE]]
      BY <1>7 DEF TimerCall
    <2>4. /\ Len(timers') = Len(timers)
          /\ \A j \in 1 .. Len(timers) :
                timers'[j] = IF j = 1 THEN [timers[1] EXCEPT !.fired = TRUE] ELSE timers[j]
      BY <1>1, <2>1, <2>2, <2>3, ExceptSeq
    <2>5. \A j \in 1 .. Len(timers) :
             /\ timers'[j].cb = timers[j].cb /\ timers'[j].when = timers[j].when
             /\ timers'[j].remove = timers[j].remove
      BY <2>1, <2>4 DEF TimerNode
    <2> QED
      BY <2>4, <2>5 DEF SortedList, OneLiveList
  <1>8. ASSUME NEW r \in {0, 1}, TimerReturn(r)
        PROVE  SortedList(timers') /\ OneLiveList(timers')
    <2>1. PICK q \in Seq(TimerNode) :
             /\ q # <<>> /\ timers' = Tail(q)
             /\ \/ q = timers
                \/ q \in TimerAdded(timers, timers[1].cb, timers[1].interval, now)
      BY <1>8, TimerReturnList
    <2>2. timers # <<>>
      BY <1>8, TimerReturnList
    <2>3. timers[1].cb \in TimerCbs /\ timers[1].interval \in Nat
      BY <1>1, <2>2, HeadTimer
    <2>4. SortedList(q) /\ OneLiveList(q)
      BY <1>1, <2>1, <2>3, TimerAddedList
    <2> QED
      BY <2>1, <2>4, TailList
  <1>9. CASE SweepTimer
    <2>1. PICK k \in 1 .. Len(timers) : timers' = RemoveAt(timers, k)
      BY <1>2, <1>9 DEF SweepTimer
    <2>2. Embeds(timers', timers)
      BY <1>1, <2>1, RemoveAtEmbeds
    <2> QED
      BY <1>1, <2>2, ShorterList
  <1>10. CASE CleanupReset
    BY <1>10 DEF CleanupReset, SortedList, OneLiveList
  <1> QED
    BY <1>3, <1>4, <1>5, <1>6, <1>7, <1>8, <1>9, <1>10, TimerFrame

LEMMA TimerListInit == Init => TimerListOK
  BY DEF Init, TimerListOK, SortedList, OneLiveList

(* The timer list is sorted by expiry whatever the clock does between the   *)
(* calls that add to it.                                                    *)
THEOREM TimersAlwaysSorted == Spec => []TimersSorted
  <1>1. TypeInv /\ TimerListOK => TimersSorted
    <2> SUFFICES ASSUME TypeInv, TimerListOK PROVE TimersSorted
      OBVIOUS
    <2>1. DOMAIN timers = 1 .. Len(timers)
      BY LenProperties DEF TypeInv, TypeOK
    <2> QED
      BY <2>1 DEF TimerListOK, SortedList, TimersSorted
  <1> QED
    BY <1>1, TypeInit, TypeStep, TimerListInit, TimerListStep, PTL DEF Spec

(* A callback never has two pending timers, however adding, deleting,       *)
(* firing and rescheduling interleave.                                      *)
THEOREM TimersOneLive == Spec => []OneLiveTimer
  <1>1. TypeInv /\ TimerListOK => OneLiveTimer
    <2> SUFFICES ASSUME TypeInv, TimerListOK PROVE OneLiveTimer
      OBVIOUS
    <2>1. DOMAIN timers = 1 .. Len(timers)
      BY LenProperties DEF TypeInv, TypeOK
    <2> QED
      BY <2>1 DEF TimerListOK, OneLiveList, OneLiveTimer
  <1> QED
    BY <1>1, TypeInit, TypeStep, TimerListInit, TimerListStep, PTL DEF Spec
LEMMA SelectCoversStep ==
    TypeInv /\ TimerListOK /\ SelectCoversTimers /\ [Next]_vars => SelectCoversTimers'
  <1> SUFFICES ASSUME TypeInv, TimerListOK, SelectCoversTimers, [Next]_vars, pc' = "select"
               PROVE  \A i \in DOMAIN timers' :
                         ~timers'[i].remove => wait' = 0 \/ pnow' + wait' <= timers'[i].when
    BY DEF SelectCoversTimers
  <1>1. PollEntry \/ (pc = "select" /\ UNCHANGED <<timers, wait, pnow>>)
    BY DEF Next, Client, Loop, Environment, Dead, Alive, vars, lists, ctl, locals, clock,
           ClientTurn, PollReturns, ToSignals,
           FdAdd, FdDel, TimerAdd, TimerDel, SignalAdd, SignalDel, SetRunning, CleanupFree,
           CallPoll, CallRun, PollNotRunning, SelectBlock, SelectReady, SelectTimeout,
           SelectError, FdCall, FdReturn, FdsDone, SigCall, SigReturn, SigsDone, TimerSkip,
           TimerCall, TimerReturn, TimersDone, SweepFd, SweepSig, SweepTimer, SweepDone,
           CleanupReset, Tick, SetBack, Deliver, DeliverInCleanup, Kill
  <1>2. CASE PollEntry
    <2>1. timers \in Seq(TimerNode) /\ now \in Nat /\ DOMAIN timers = 1 .. Len(timers)
      BY LenProperties DEF TypeInv, TypeOK
    <2> SUFFICES ASSUME NEW i \in 1 .. Len(timers)
                 PROVE  wait' = 0 \/ pnow' + wait' <= timers[i].when
      BY <1>2, <2>1 DEF PollEntry
    <2>2. timers # <<>> /\ 1 \in 1 .. Len(timers) /\ 1 <= i /\ i \in Nat
      <3>1. Len(timers) \in Nat
        BY <2>1, LenProperties
      <3>2. 1 <= i /\ i \in Nat /\ Len(timers) # 0
        BY <3>1
      <3> QED
        BY <2>1, <3>1, <3>2, EmptySeq
    <2>3. timers[1].when \in Nat /\ timers[i].when \in Nat
      <3>1. timers[1] \in TimerNode /\ timers[i] \in TimerNode
        BY <2>1, <2>2, ElementOfSeq
      <3> QED
        BY <3>1 DEF TimerNode
    <2>4. timers[1].when <= timers[i].when
      BY <2>2, <2>3 DEF TimerListOK, SortedList
    <2>5. pnow' = now /\ wait' = IF now > timers[1].when THEN 0 ELSE timers[1].when - now
      BY <1>2, <2>2 DEF PollEntry, SelectWait
    <2> QED
      BY <2>1, <2>3, <2>4, <2>5
  <1>3. CASE pc = "select" /\ UNCHANGED <<timers, wait, pnow>>
    BY <1>3 DEF SelectCoversTimers
  <1> QED
    BY <1>1, <1>2, <1>3

(* mainloop_poll looks only at the head of the list for its timeout, yet    *)
(* select never sleeps past the expiry of any timer.                        *)
THEOREM SelectNeverOversleeps == Spec => []SelectCoversTimers
  <1>1. Init => SelectCoversTimers
    BY DEF Init, SelectCoversTimers
  <1> QED
    BY <1>1, TypeInit, TypeStep, TimerListInit, TimerListStep, SelectCoversStep, PTL DEF Spec
-----------------------------------------------------------------------------
(* Firing and rescheduling *)

(* FiredIsFreed holds because, while the clock is not set back, the head    *)
(* expired before now, so that nothing is inserted before it.               *)
FiredInv ==
    setbacks = 0 =>
        /\ \A i \in 1 .. Len(timers) :
              timers[i].fired => i = 1 /\ pc \in {"timer_call", "killed"}
        /\ pc = "timers" => pnow <= now
        /\ pc = "timer_call" => timers[1].when < now

LEMMA FiredInit == Init => FiredInv
  BY DEF Init, FiredInv

LEMMA FiredStep == TypeInv /\ FiredInv /\ [Next]_vars => FiredInv'
  <1> SUFFICES ASSUME TypeInv, FiredInv, [Next]_vars, setbacks' = 0
               PROVE  /\ \A i \in 1 .. Len(timers') :
                            timers'[i].fired => i = 1 /\ pc' \in {"timer_call", "killed"}
                      /\ pc' = "timers" => pnow' <= now'
                      /\ pc' = "timer_call" => timers'[1].when < now'
    BY DEF FiredInv
  <1> DEFINE Goal == /\ \A i \in 1 .. Len(timers') :
                            timers'[i].fired => i = 1 /\ pc' \in {"timer_call", "killed"}
                     /\ pc' = "timers" => pnow' <= now'
                     /\ pc' = "timer_call" => timers'[1].when < now'
  <1>1. /\ timers \in Seq(TimerNode) /\ timers' \in Seq(TimerNode)
        /\ now \in Nat /\ now' \in Nat /\ pnow \in Nat /\ pnow' \in Nat
        /\ pc = "timer_call" => timers # <<>>
        /\ Len(timers) \in Nat /\ DOMAIN timers = 1 .. Len(timers)
    BY TypeStep, LenProperties DEF TypeInv, TypeOK, CursorOK
  <1>2. setbacks = 0 =>
           /\ \A i \in 1 .. Len(timers) :
                 timers[i].fired => i = 1 /\ pc \in {"timer_call", "killed"}
           /\ pc = "timers" => pnow <= now
           /\ pc = "timer_call" => timers[1].when < now
    BY DEF FiredInv
  <1>3. timers # <<>> => 1 \in 1 .. Len(timers) /\ timers[1] \in TimerNode /\ timers[1].when \in Nat
    BY <1>1, HeadTimer
  <1>4. CASE TimerQuiet
    BY <1>1, <1>2, <1>3, <1>4 DEF TimerQuiet
  <1>5. ASSUME NEW c \in TimerCbs, NEW d \in Intervals, TimerAdd(c, d)
        PROVE  Goal
    <2>1. d \in Nat /\ setbacks = 0 /\ now' = now /\ pc' = pc /\ pc \notin {"timers", "killed"}
      BY <1>5, MainloopAssumption DEF TimerAdd, ClientTurn, clock
    <2>2. timers' \in TimerAdded(timers, c, d, now)
      BY <1>5 DEF TimerAdd
    <2>3. CASE pc = "timer_call"
      <3>1. timers # <<>> /\ timers[1].when < now + d
        BY <1>1, <1>2, <1>3, <2>1, <2>3
      <3>2. \A j \in 2 .. Len(timers) : ~timers[j].fired
        BY <1>1, <1>2, <2>1
      <3>3. timers'[1].when = timers[1].when /\ \A j \in 2 .. Len(timers') : ~timers'[j].fired
        <4>1. timers \in Seq(TimerNode) /\ now \in Nat /\ d \in Nat
          BY <1>1, <2>1
        <4>2. timers # <<>> /\ timers[1].when < now + d =>
                 /\ timers'[1].when = timers[1].when
                 /\ (\A j \in 2 .. Len(timers) : ~timers[j].fired) =>
                       \A j \in 2 .. Len(timers') : ~timers'[j].fired
          BY <2>2, <4>1, TimerAddedList
        <4> QED
          BY <3>1, <3>2, <4>2
      <3>4. Len(timers') \in Nat
        BY <1>1, LenProperties
      <3> QED
        BY <1>2, <2>1, <2>3, <3>3, <3>4
    <2>4. CASE pc # "timer_call"
      <3>1. \A j \in 1 .. Len(timers) : ~timers[j].fired
        BY <1>2, <2>1, <2>4
      <3>2. \A j \in 1 .. Len(timers') : ~timers'[j].fired
        BY <1>1, <2>1, <2>2, <3>1, TimerAddedList
      <3> QED
        BY <2>1, <2>4, <3>2
    <2> QED
      BY <2>3, <2>4
  <1>6. ASSUME NEW c \in TimerCbs, TimerDel(c)
        PROVE  Goal
    <2>1. setbacks = 0 /\ now' = now /\ pc' = pc /\ pc # "timers"
      BY <1>6 DEF TimerDel, ClientTurn, clock
    <2>2. /\ Len(timers') = Len(timers)
          /\ \A i \in 1 .. Len(timers) : /\ timers'[i].fired = timers[i].fired
                                          /\ timers'[i].when = timers[i].when
      BY <1>1, <1>6, TimerMarked DEF TimerDel, MarkTimers
    <2> QED
      BY <1>1, <1>2, <1>3, <2>1, <2>2
  <1>7. CASE TimerSkip
    <2>1. timers # <<>> /\ timers' = Tail(timers) /\ setbacks = 0 /\ pnow' = now' /\ pc' = "timers" /\ pc = "timers"
      BY <1>7 DEF TimerSkip, HeadExpired, clock
    <2>2. \A i \in 1 .. Len(timers') : i + 1 \in 1 .. Len(timers) /\ timers'[i] = timers[i + 1]
      BY <1>1, <2>1, HeadTailProperties
    <2> QED
      BY <1>1, <1>2, <2>1, <2>2
  <1>8. CASE TimerCall
    <2>1. /\ timers # <<>> /\ timers[1].when < pnow /\ pc = "timers" /\ pc' = "timer_call"
          /\ setbacks = 0 /\ now' = now
          /\ timers' = [timers EXCEPT ![1] = [timers[1] EXCEPT !.fired = TRUE]]
      BY <1>8 DEF TimerCall, HeadExpired, clock
    <2>2. [timers[1] EXCEPT !.fired = TRUE] \in TimerNode
      BY <1>3, <2>1 DEF TimerNode
    <2>3. /\ Len(timers') = Len(timers)
          /\ \A j \in 1 .. Len(timers) :
                timers'[j] = IF j = 1 THEN [timers[1] EXCEPT !.fired = TRUE] ELSE timers[j]
      BY <1>1, <1>3, <2>1, <2>2, ExceptSeq
    <2>4. timers'[1].when = timers[1].when
      BY <1>3, <2>1, <2>3 DEF TimerNode
    <2> QED
      BY <1>1, <1>2, <1>3, <2>1, <2>3, <2>4
  <1>9. ASSUME NEW r \in {0, 1}, TimerReturn(r)
        PROVE  Goal
    <2>1. setbacks = 0 /\ now' = now /\ pnow' = now /\ pc = "timer_call" /\ pc' = "timers"
      BY <1>9 DEF TimerReturn, clock
    <2>2. \A j \in 2 .. Len(timers) : ~timers[j].fired
      BY <1>1, <1>2, <2>1
    <2>3. PICK q \in Seq(TimerNode) :
             /\ q # <<>> /\ timers' = Tail(q)
             /\ \/ q = timers
                \/ q \in TimerAdded(timers, timers[1].cb, timers[1].interval, now)
      BY <1>9, TimerReturnList
    <2>4. \A j \in 2 .. Len(q) : ~q[j].fired
      <3>1. timers[1].cb \in TimerCbs /\ timers[1].interval \in Nat
        BY <1>1, <2>1, HeadTimer
      <3>2. timers[1].when < now + timers[1].interval
        BY <1>1, <1>2, <1>3, <2>1, <3>1
      <3>3. CASE q = timers
        BY <2>2, <3>3
      <3>4. CASE q \in TimerAdded(timers, timers[1].cb, timers[1].interval, now)
        <4>1. timers \in Seq(TimerNode) /\ timers # <<>> /\ now \in Nat
          BY <1>1, <2>1
        <4>2. ASSUME NEW c \in TimerCbs, NEW d \in Nat, q \in TimerAdded(timers, c, d, now),
                     timers[1].when < now + d
              PROVE  \A j \in 2 .. Len(q) : ~q[j].fired
          BY <2>2, <4>1, <4>2, TimerAddedList
        <4> QED
          BY <3>1, <3>2, <3>4, <4>2
      <3> QED
        BY <2>3, <3>3, <3>4
    <2>5. \A i \in 1 .. Len(timers') : i + 1 \in 2 .. Len(q) /\ timers'[i] = q[i + 1]
      <3>1. Len(q) \in Nat
        BY <2>3, LenProperties
      <3> QED
        BY <2>3, <3>1, HeadTailProperties
    <2> QED
      BY <1>1, <2>1, <2>4, <2>5
  <1>10. CASE SweepTimer
    <2>1. pc = "sweep" /\ pc' = "sweep" /\ setbacks = 0
      BY <1>10 DEF SweepTimer, clock
    <2>2. PICK k \in 1 .. Len(timers) : timers' = RemoveAt(timers, k)
      BY <1>1, <1>10 DEF SweepTimer
    <2>3. Embeds(timers', timers)
      BY <1>1, <2>2, RemoveAtEmbeds
    <2>4. \A i \in 1 .. Len(timers') : \E a \in 1 .. Len(timers) : timers'[i] = timers[a]
      BY <2>3 DEF Embeds
    <2> QED
      BY <1>2, <2>1, <2>4
  <1>11. CASE CleanupReset
    BY <1>11 DEF CleanupReset
  <1>12. TimerQuiet
         \/ (\E c \in TimerCbs : TimerDel(c) \/ \E d \in Intervals : TimerAdd(c, d))
         \/ TimerSkip \/ TimerCall \/ (\E r \in {0, 1} : TimerReturn(r))
         \/ SweepTimer \/ CleanupReset
    BY TimerFrame
  <1> QED
    BY <1>4, <1>5, <1>6, <1>7, <1>8, <1>9, <1>10, <1>11, <1>12

(* While the clock is not set back, the node the timer loop frees after a   *)
(* handler is the one whose handler ran: no timer fires twice, and none is  *)
(* lost in its place.                                                       *)
THEOREM FiredTimersFreed == Spec => []FiredIsFreed
  <1>1. TypeInv /\ FiredInv => FiredIsFreed
    <2> SUFFICES ASSUME TypeInv, FiredInv PROVE FiredIsFreed
      OBVIOUS
    <2>1. DOMAIN timers = 1 .. Len(timers)
      BY LenProperties DEF TypeInv, TypeOK
    <2> QED
      BY <2>1 DEF FiredInv, FiredIsFreed, FiredAtHead
  <1> QED
    BY <1>1, TypeInit, TypeStep, FiredInit, FiredStep, PTL DEF Spec
(* While the clock is not set back and there is memory, a timer whose       *)
(* handler asks for it is pending again, one interval from now.             *)
THEOREM SteadyReschedule == Spec => SteadyRescheduleKept
  <1> DEFINE A == TimerReturn(1) /\ setbacks = 0 /\ ~AllocFails =>
                     \A i \in DOMAIN timers : timers[i].fired => Rescheduled(i)
  <1>1. TypeInv /\ FiredInv => A
    <2> SUFFICES ASSUME TypeInv, FiredInv, TimerReturn(1), setbacks = 0, ~AllocFails,
                        NEW i \in DOMAIN timers, timers[i].fired
                 PROVE  Rescheduled(i)
      OBVIOUS
    <2>1. timers \in Seq(TimerNode) /\ timers # <<>> /\ now \in Nat
      BY TimerReturnList DEF TypeInv, TypeOK
    <2>2. i = 1 /\ timers[1].when < now
      <3>1. DOMAIN timers = 1 .. Len(timers) /\ pc = "timer_call"
        BY <2>1, LenProperties DEF TimerReturn
      <3> QED
        BY <3>1 DEF FiredInv
    <2>3. /\ timers[1].cb \in TimerCbs /\ timers[1].interval \in Nat
          /\ timers[1].when \in Nat /\ timers[1].when < now + timers[1].interval
      BY <2>1, <2>2, HeadTimer
    <2>4. PICK q \in Seq(TimerNode) :
             /\ q # <<>> /\ timers' = Tail(q)
             /\ q \in TimerAdded(timers, timers[1].cb, timers[1].interval, now)
      BY TimerReturnList
    <2>5. ASSUME NEW c \in TimerCbs, NEW d \in Nat, q \in TimerAdded(timers, c, d, now),
                 timers[1].when < now + d
          PROVE  \E j \in 2 .. Len(q) : q[j] = NewTimer(c, d, now)
      BY <2>1, <2>5, TimerAddedList
    <2>6. PICK j \in 2 .. Len(q) : q[j] = NewTimer(timers[1].cb, timers[1].interval, now)
      BY <2>3, <2>4, <2>5
    <2>7. j - 1 \in DOMAIN timers' /\ timers'[j - 1] = q[j]
      <3>1. /\ timers' \in Seq(TimerNode) /\ Len(timers') = Len(q) - 1 /\ Len(q) \in Nat
            /\ \A k \in 1 .. Len(timers') : timers'[k] = q[k + 1]
        BY <2>4, HeadTailProperties, LenProperties
      <3>2. DOMAIN timers' = 1 .. Len(timers')
        BY <3>1, LenProperties
      <3>3. j - 1 \in 1 .. Len(timers') /\ (j - 1) + 1 = j
        BY <3>1
      <3> QED
        BY <3>1, <3>2, <3>3
    <2> QED
      BY <2>2, <2>6, <2>7 DEF Rescheduled, NewTimer
  <1>2. TypeInv /\ FiredInv /\ [Next]_vars => [A]_vars
    BY <1>1
  <1> QED
    BY <1>2, TypeInit, TypeStep, FiredInit, FiredStep, PTL DEF Spec, SteadyRescheduleKept

-----------------------------------------------------------------------------
(* Dispatch *)

(* Nothing the walk still has to visit was registered after the poll began: *)
(* nodes are added at the head, which the walk has passed.                  *)
FreshInv ==
    /\ pc \in {"select", "blocked"} => \A i \in 1 .. Len(fds) : ~fds[i].fresh
    /\ pc \in {"fds", "fd_call"} => \A i \in 1 .. cursor : ~fds[i].fresh

LEMMA FreshInit == Init => FreshInv
  BY DEF Init, FreshInv

LEMMA FreshStep == TypeInv /\ FreshInv /\ [Next]_vars => FreshInv'
  <1> SUFFICES ASSUME TypeInv, FreshInv, [Next]_vars PROVE FreshInv'
    OBVIOUS
  <1>1. /\ fds \in Seq(FdNode) /\ Len(fds) \in Nat /\ DOMAIN fds = 1 .. Len(fds)
        /\ cursor \in Nat /\ CursorOK
    BY LenProperties DEF TypeInv, TypeOK
  <1>2. ASSUME NEW f \in Fds, NEW y \in FdTypes, NEW c \in FdCbs, FdAdd(f, y, c)
        PROVE  FreshInv'
    <2>1. [fd |-> f, type |-> y, cb |-> c, remove |-> FALSE, fresh |-> TRUE] \in FdNode
      BY DEF FdNode
    <2>2. \A i \in 1 .. Len(fds) : fds'[i] = fds[i]
      BY <1>1, <1>2, <2>1, AppendProperties DEF FdAdd, ListAdd
    <2>3. pc' = pc /\ cursor' = cursor /\ pc \notin {"select", "blocked", "fds"}
      BY <1>2 DEF FdAdd, ClientTurn, locals
    <2>4. pc = "fd_call" => \A i \in 1 .. cursor : i \in 1 .. Len(fds)
      BY <1>1 DEF CursorOK
    <2> QED
      BY <2>2, <2>3, <2>4 DEF FreshInv
  <1>3. ASSUME NEW f \in Fds, NEW y \in FdTypes, NEW c \in FdCbs, FdDel(f, y, c)
        PROVE  FreshInv'
    <2>1. Len(fds') = Len(fds) /\ \A i \in 1 .. Len(fds) : fds'[i].fresh = fds[i].fresh
      BY <1>1, <1>3, FdMarked DEF FdDel
    <2>2. pc' = pc /\ cursor' = cursor /\ pc \notin {"select", "blocked", "fds"}
      BY <1>3 DEF FdDel, ClientTurn, locals
    <2>3. pc = "fd_call" => \A i \in 1 .. cursor : i \in 1 .. Len(fds)
      BY <1>1 DEF CursorOK
    <2> QED
      BY <2>1, <2>2, <2>3 DEF FreshInv
  <1>4. CASE PollEntry
    <2>1. \A i \in 1 .. Len(fds) : fds[i] \in FdNode
      BY <1>1, ElementOfSeq
    <2>2. DOMAIN fds' = 1 .. Len(fds) /\ fds' \in Seq(FdNode)
      BY <1>1, <1>4, TypeStep DEF PollEntry, TypeInv, TypeOK
    <2>3. Len(fds') = Len(fds)
      BY <1>1, <2>2, LenProperties
    <2>4. \A i \in 1 .. Len(fds) : ~fds'[i].fresh
      BY <1>1, <1>4, <2>1 DEF PollEntry, FdNode
    <2> QED
      BY <1>4, <2>3, <2>4 DEF PollEntry, FreshInv
  <1>5. CASE SweepFd \/ CleanupReset
    BY <1>5 DEF SweepFd, CleanupReset, FreshInv
  <1>6. CASE UNCHANGED fds /\ ~PollEntry
    <2>1. CASE SelectBlock \/ SelectReady
      BY <1>1, <1>6, <2>1 DEF SelectBlock, SelectReady, FreshInv, locals
    <2>2. CASE FdCall \/ FdReturn
      BY <1>1, <1>6, <2>2 DEF FdCall, FdReturn, FreshInv, CursorOK
    <2>3. CASE \/ pc' \notin {"select", "blocked", "fds", "fd_call"}
               \/ pc' = pc /\ cursor' = cursor
      BY <1>6, <2>3 DEF FreshInv
    <2>4. \/ SelectBlock \/ SelectReady \/ FdCall \/ FdReturn \/ PollEntry
          \/ pc' \notin {"select", "blocked", "fds", "fd_call"}
          \/ pc' = pc /\ cursor' = cursor
      BY DEF Next, Client, Loop, Environment, Dead, Alive, vars, lists, ctl, locals, clock,
             PollReturns, ToSignals,
             FdAdd, FdDel, TimerAdd, TimerDel, SignalAdd, SignalDel, SetRunning, CleanupFree,
             CallPoll, CallRun, PollNotRunning, SelectTimeout,
             SelectError, FdsDone, SigCall, SigReturn, SigsDone, TimerSkip,
             TimerCall, TimerReturn, TimersDone, SweepFd, SweepSig, SweepTimer, SweepDone,
             CleanupReset, Tick, SetBack, Deliver, DeliverInCleanup, Kill
    <2> QED
      BY <1>6, <2>1, <2>2, <2>3, <2>4
  <1> QED
    BY <1>2, <1>3, <1>4, <1>5, <1>6, FdFrame

(* A descriptor callback runs for the registration that select was asked    *)
(* about, whatever the callbacks before it add and delete.                  *)
THEOREM DispatchIsCurrent == Spec => NoStaleDispatch
  <1> DEFINE A == pc = "fds" /\ pc' = "fd_call" => ~fds[cursor'].remove /\ ~fds[cursor'].fresh
  <1>1. TypeInv /\ FreshInv /\ [Next]_vars => [A]_vars
    <2> SUFFICES ASSUME FreshInv, [Next]_vars, pc = "fds", pc' = "fd_call"
                 PROVE  ~fds[cursor'].remove /\ ~fds[cursor'].fresh
      OBVIOUS
    <2>1. FdCall
      BY DEF Next, Client, Loop, Environment, Dead, Alive, vars, lists, ctl, locals, clock,
             ClientTurn, PollReturns, ToSignals,
             FdAdd, FdDel, TimerAdd, TimerDel, SignalAdd, SignalDel, SetRunning, CleanupFree,
             CallPoll, CallRun, PollEntry, PollNotRunning, SelectBlock, SelectReady,
             SelectTimeout, SelectError, FdReturn, FdsDone, SigCall, SigReturn, SigsDone,
             TimerSkip, TimerCall, TimerReturn, TimersDone, SweepFd, SweepSig, SweepTimer,
             SweepDone, CleanupReset, Tick, SetBack, Deliver, DeliverInCleanup, Kill
    <2> QED
      BY <2>1 DEF FdCall, FdReady, FreshInv
  <1> QED
    BY <1>1, TypeInit, TypeStep, FreshInit, FreshStep, PTL DEF Spec, NoStaleDispatch
===============================================================================
