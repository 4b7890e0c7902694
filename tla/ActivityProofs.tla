----------------------------- MODULE ActivityProofs -----------------------------
(***************************************************************************)
(* Proofs about Activity, for every number of starts, queue length, trip   *)
(* time, clock and failure.                                                *)
(***************************************************************************)
EXTENDS Activity, TLAPS

(* What the fields of the activity are where its UI thread is.  Only while  *)
(* it is started the latest task is not cancelled; every earlier one is.    *)
LifeOK ==
    /\ ui \in {"start_audio", "start_tasks"} => starts < MaxStarts
    /\ ui \in {"created", "start_audio", "stopped", "destroyed"} => rec = 0
    /\ ui = "start_tasks" => rec = starts + 1 /\ recording = rec
    /\ ui \in {"started", "release"} => starts > 0 /\ rec = starts /\ recording = rec
    /\ ui = "null" => rec = starts /\ recording = 0
    /\ ui # "cancel"
    /\ Alive => cancelled = 1 .. (IF ui = "started" THEN starts - 1 ELSE starts)

(* Tasks that are to come have not been created, and a cancelled task is    *)
(* not waiting to begin.                                                    *)
TasksOK ==
    \A k \in Tasks :
        /\ k > starts => audio[k].pc = "none" /\ ntp[k].pc = "none"
        /\ k \in cancelled => audio[k].pc # "queued" /\ ntp[k].pc # "queued"

(* A task that is not cancelled reads from its own recorder *)
ReadsOwn == \A k \in Tasks : audio[k].pc = "read" => k \in cancelled \/ audio[k].rec = k

(* A task that has taken its late block does not go on to another *)
LateOK ==
    \A k \in Tasks :
        \/ audio[k].late = 0
        \/ /\ audio[k].late = 1 /\ k \in cancelled
           /\ audio[k].pc \in {"publish", "check", "ended"}

(* In an exchange during which the clock was not stepped T1 is its age ago, *)
(* and the server's stamp is between T1 and now.                            *)
ExchangeOK ==
    \A k \in Tasks :
        ntp[k].fresh /\ ntp[k].net # "none" =>
            /\ ntp[k].t1 + ntp[k].age = wall
            /\ ntp[k].net = "response" => ntp[k].t1 <= ntp[k].t2 + skew /\ ntp[k].t2 <= now

(* Offsets, posted or in use, are right up to the round trip *)
Accurate(o) ==
    o.fresh => LET e == o.doubled + 2 * skew IN -MaxTrip <= e /\ e <= MaxTrip
QueueAccurate == \A i \in DOMAIN queue : "offset" \in DOMAIN queue[i] => Accurate(queue[i].offset)

Inv ==
    /\ TypeOK /\ LifeOK /\ TasksOK /\ ReadsOwn /\ LateOK
    /\ ExchangeOK /\ QueueAccurate /\ OffsetAccurate

LEMMA InitInv == Init => Inv
  <1> SUFFICES ASSUME Init PROVE Inv
    OBVIOUS
  <1> USE ActivityAssumption
  <1>1. TypeOK
    <2>1. audio \in [Tasks -> AudioTask] /\ ntp \in [Tasks -> NtpTask]
      BY DEF Init, AudioTask, NtpTask
    <2>2. queue \in Seq(Message) /\ Len(queue) <= MaxQueue /\ clock_offset \in Offset
      BY DEF Init, Offset
    <2>3. sock \in {"open", "null", "closed"}
      BY DEF Init
    <2>4. starts \in 0 .. MaxStarts /\ cancelled = {} /\ rec \in 0 .. MaxStarts /\ recording = 0
      BY DEF Init
    <2>5. now \in 0 .. MaxTime /\ skew \in Skews /\ steps \in 0 .. MaxSteps
      BY DEF Init
    <2>6. ui = "created" /\ located = FALSE
      BY DEF Init
    <2> QED
      BY <2>1, <2>2, <2>3, <2>4, <2>5, <2>6 DEF TypeOK
  <1>2. LifeOK /\ TasksOK /\ ReadsOwn /\ LateOK
    BY DEF Init, LifeOK, TasksOK, ReadsOwn, LateOK, Alive, Tasks
  <1>3. ExchangeOK /\ QueueAccurate /\ OffsetAccurate
    BY DEF Init, ExchangeOK, QueueAccurate, OffsetAccurate
  <1> QED
    BY <1>1, <1>2, <1>3 DEF Inv

-----------------------------------------------------------------------------
(* The messages to the UI thread: their kinds, and what a queue of them     *)
(* keeps when it is added to, taken from, or marked after the clock was     *)
(* stepped.                                                                 *)
LEMMA PeakIsMessage ==
    ASSUME NEW k \in Tasks
    PROVE  [audio |-> k] \in Message /\ "offset" \notin DOMAIN [audio |-> k]
  BY DEF Message

LEMMA OffsetIsMessage ==
    ASSUME NEW o \in Offset
    PROVE  /\ [offset |-> o] \in Message /\ "offset" \in DOMAIN [offset |-> o]
           /\ [offset |-> o].offset = o
  BY DEF Message

LEMMA MessageOffset ==
    ASSUME NEW m \in Message, "offset" \in DOMAIN m
    PROVE  /\ m.offset \in Offset /\ [m EXCEPT !.offset.fresh = FALSE] \in Message
           /\ ~[m EXCEPT !.offset.fresh = FALSE].offset.fresh
  <1>1. m \in [offset : Offset]
    BY DEF Message
  <1>2. ~[m EXCEPT !.offset.fresh = FALSE].offset.fresh
    BY <1>1 DEF Offset
  <1> QED
    BY <1>1, <1>2 DEF Message, Offset

LEMMA Appended ==
    ASSUME NEW S, NEW q \in Seq(S), NEW m \in S
    PROVE  /\ Append(q, m) \in Seq(S) /\ Len(Append(q, m)) = Len(q) + 1
           /\ DOMAIN Append(q, m) = DOMAIN q \cup {Len(q) + 1}
           /\ \A i \in DOMAIN q : Append(q, m)[i] = q[i]
           /\ Append(q, m)[Len(q) + 1] = m
  OBVIOUS

LEMMA Taken ==
    ASSUME NEW S, NEW q \in Seq(S), q # <<>>
    PROVE  /\ Head(q) \in S /\ 1 \in DOMAIN q /\ Head(q) = q[1]
           /\ Tail(q) \in Seq(S) /\ Len(Tail(q)) <= Len(q)
           /\ \A i \in DOMAIN Tail(q) : i + 1 \in DOMAIN q /\ Tail(q)[i] = q[i + 1]
  OBVIOUS

-----------------------------------------------------------------------------
(* What the tables of tasks become *)

AudioPlaces == {"none", "queued", "check", "check_rec", "load_rec", "read", "publish", "ended"}
Moved(a, k, s) ==
    /\ a \in [Tasks -> AudioTask]
    /\ a[k].pc = s /\ a[k].rec = audio[k].rec /\ a[k].late = audio[k].late
    /\ \A j \in Tasks : j # k => a[j] = audio[j]

LEMMA AudioMoved ==
    ASSUME TypeOK, NEW k \in Tasks, NEW s \in AudioPlaces
    PROVE  Moved([audio EXCEPT ![k].pc = s], k, s)
  BY DEF TypeOK, AudioTask, AudioPlaces, Moved

LEMMA AudioGone ==
    ASSUME TypeOK, NEW k \in Tasks, NEW s \in AudioPlaces, AudioGoto(k, s)
    PROVE  Moved(audio', k, s)
  BY DEF TypeOK, AudioTask, AudioPlaces, Moved, AudioGoto

LEMMA NtpMoved ==
    ASSUME TypeOK, NEW k \in Tasks, 
           NEW s \in {"none", "queued", "check", "receive", "sleep", "ended"}
    PROVE  LET x == [ntp EXCEPT ![k].pc = s]
           IN  /\ x \in [Tasks -> NtpTask]
               /\ x[k].pc = s /\ x[k].net = ntp[k].net /\ x[k].t1 = ntp[k].t1
               /\ x[k].t2 = ntp[k].t2 /\ x[k].age = ntp[k].age /\ x[k].fresh = ntp[k].fresh
               /\ \A j \in Tasks : j # k => x[j] = ntp[j]
  <1> DEFINE y == [ntp[k] EXCEPT !.pc = s]
             x == [ntp EXCEPT ![k].pc = s]
  <1>1. ntp \in [Tasks -> NtpTask] /\ ntp[k] \in NtpTask
    BY DEF TypeOK
  <1>2. /\ y \in NtpTask /\ y.pc = s /\ y.net = ntp[k].net /\ y.t1 = ntp[k].t1
        /\ y.t2 = ntp[k].t2 /\ y.age = ntp[k].age /\ y.fresh = ntp[k].fresh
    <2>1. ntp[k] \in NtpTask
      BY <1>1
    <2> QED
      BY <2>1 DEF NtpTask
  <1>3. x = [ntp EXCEPT ![k] = y]
    OBVIOUS
  <1> HIDE DEF y
  <1>4. x \in [Tasks -> NtpTask] /\ x[k] = y /\ \A j \in Tasks : j # k => x[j] = ntp[j]
    BY <1>1, <1>2, <1>3
  <1> HIDE DEF x
  <1>5. /\ x \in [Tasks -> NtpTask]
        /\ x[k].pc = s /\ x[k].net = ntp[k].net /\ x[k].t1 = ntp[k].t1
        /\ x[k].t2 = ntp[k].t2 /\ x[k].age = ntp[k].age /\ x[k].fresh = ntp[k].fresh
        /\ \A j \in Tasks : j # k => x[j] = ntp[j]
    BY <1>2, <1>4
  <1> QED
    BY <1>5 DEF x

LEMMA LostType ==
    ASSUME NEW x \in NtpTask
    PROVE  /\ Lost(x) \in NtpTask /\ Lost(x).pc = x.pc /\ Lost(x).net = "none"
           /\ ~Lost(x).fresh
  <1>1. 0 \in 0 .. MaxTrip
    BY ActivityAssumption
  <1> DEFINE a == [x EXCEPT !.net = "none"]
             b == [a EXCEPT !.t1 = 0]
             c == [b EXCEPT !.t2 = 0]
             d == [c EXCEPT !.age = 0]
             e == [d EXCEPT !.fresh = FALSE]
  <1>2. a \in NtpTask
    BY DEF NtpTask
  <1> HIDE DEF a
  <1>3. b \in NtpTask
    BY <1>2 DEF NtpTask
  <1> HIDE DEF b
  <1>4. c \in NtpTask
    BY <1>3 DEF NtpTask
  <1> HIDE DEF c
  <1>5. d \in NtpTask
    BY <1>1, <1>4 DEF NtpTask
  <1> HIDE DEF d
  <1>6. e \in NtpTask
    BY <1>5 DEF NtpTask
  <1>7. Lost(x) \in NtpTask
    BY <1>6 DEF Lost, a, b, c, d
  <1>8. Lost(x).pc = x.pc /\ Lost(x).net = "none" /\ ~Lost(x).fresh
    BY DEF NtpTask, Lost
  <1> QED
    BY <1>7, <1>8

LEMMA AgedType ==
    ASSUME NEW x \in NtpTask
    PROVE  /\ Aged(x) \in NtpTask /\ Aged(x).pc = x.pc
           /\ Aged(x).net # "none" =>
                  /\ Aged(x).net = x.net /\ Aged(x).t1 = x.t1 /\ Aged(x).t2 = x.t2
                  /\ Aged(x).age = x.age + 1 /\ (Aged(x).fresh <=> x.fresh)
  <1>1. CASE x.net = "none"
    BY <1>1 DEF Aged
  <1>2. CASE x.net # "none" /\ x.age = MaxTrip
    BY <1>2, LostType DEF Aged
  <1>3. CASE x.net # "none" /\ x.age # MaxTrip
    <2>1. Aged(x) = [x EXCEPT !.age = x.age + 1]
      BY <1>3 DEF Aged
    <2>2. x.age + 1 \in 0 .. MaxTrip
      BY <1>3, ActivityAssumption DEF NtpTask
    <2> QED
      BY <2>1, <2>2 DEF NtpTask
  <1> QED
    BY <1>1, <1>2, <1>3

LEMMA StaleType ==
    ASSUME NEW x \in NtpTask
    PROVE  LET y == [x EXCEPT !.fresh = FALSE]
           IN  y \in NtpTask /\ y.pc = x.pc /\ ~y.fresh
  <1>1. [x EXCEPT !.fresh = FALSE] \in NtpTask
    BY DEF NtpTask
  <1>2. [x EXCEPT !.fresh = FALSE].pc = x.pc /\ ~[x EXCEPT !.fresh = FALSE].fresh
    BY DEF NtpTask
  <1> QED
    BY <1>1, <1>2

LEMMA ServedType ==
    ASSUME TypeOK, NEW x \in NtpTask,
           NEW y, y = [x EXCEPT !.net = "response", !.t2 = now]
    PROVE  /\ y \in NtpTask /\ y.pc = x.pc /\ y.net = "response" /\ y.t1 = x.t1
           /\ y.t2 = now /\ y.age = x.age /\ (y.fresh <=> x.fresh)
  <1> DEFINE a == [x EXCEPT !.net = "response"]
  <1>1. a \in NtpTask /\ a.pc = x.pc /\ a.net = "response" /\ a.t1 = x.t1 /\ a.age = x.age
    BY DEF NtpTask
  <1>2. a.fresh <=> x.fresh
    BY DEF NtpTask
  <1> DEFINE b == [a EXCEPT !.t2 = now]
  <1> HIDE DEF a
  <1>3. now \in Int
    BY ActivityAssumption DEF TypeOK
  <1>4. b \in NtpTask
    BY <1>1, <1>3 DEF NtpTask
  <1>5. b.pc = a.pc /\ b.net = a.net /\ b.t1 = a.t1 /\ b.t2 = now /\ b.age = a.age
    BY <1>1 DEF NtpTask
  <1>6. b.fresh <=> a.fresh
    BY <1>1 DEF NtpTask
  <1>7. b = y
    BY DEF a
  <1> HIDE DEF b
  <1> QED
    BY <1>1, <1>2, <1>4, <1>5, <1>6, <1>7

(* onStart creates both tasks, and onStop drops those that have not begun *)
LEMMA ExecutedTasks ==
    ASSUME TypeOK, starts < MaxStarts
    PROVE  /\ starts + 1 \in Tasks
           /\ Executed(audio, "audio") \in [Tasks -> AudioTask]
           /\ Executed(ntp, "ntp") \in [Tasks -> NtpTask]
           /\ \A j \in Tasks : j # starts + 1 =>
                  Executed(audio, "audio")[j] = audio[j] /\ Executed(ntp, "ntp")[j] = ntp[j]
           /\ LET a == Executed(audio, "audio")[starts + 1]
                  x == Executed(ntp, "ntp")[starts + 1]
              IN  /\ a.pc \in {"queued", "ended"} /\ a.late = audio[starts + 1].late
                  /\ x = [ntp[starts + 1] EXCEPT !.pc = x.pc]
  <1>1. starts + 1 \in Tasks
    BY ActivityAssumption DEF TypeOK, Tasks
  <1> DEFINE p == IF "audio" \in followed THEN "queued" ELSE "ended"
             r == IF "ntp" \in followed THEN "queued" ELSE "ended"
  <1>2. /\ p \in {"queued", "ended"} /\ p \in AudioPlaces
        /\ r \in {"none", "queued", "check", "receive", "sleep", "ended"}
    BY DEF AudioPlaces
  <1>3. /\ Executed(audio, "audio") = [audio EXCEPT ![starts + 1].pc = p]
        /\ Executed(ntp, "ntp") = [ntp EXCEPT ![starts + 1].pc = r]
    BY DEF Executed
  <1> HIDE DEF p, r
  <1>4. /\ Executed(audio, "audio") \in [Tasks -> AudioTask]
        /\ Executed(ntp, "ntp") \in [Tasks -> NtpTask]
    <2>1. [audio EXCEPT ![starts + 1].pc = p] \in [Tasks -> AudioTask]
      BY <1>1, <1>2, AudioMoved DEF Moved
    <2>2. \A k \in Tasks : [ntp EXCEPT ![k].pc = r] \in [Tasks -> NtpTask]
      BY <1>2, NtpMoved
    <2> QED
      BY <2>1, <2>2, <1>1, <1>3, Zenon
  <1>5. /\ Executed(audio, "audio")[starts + 1].pc = p
        /\ Executed(audio, "audio")[starts + 1].late = audio[starts + 1].late
        /\ Executed(ntp, "ntp")[starts + 1] = [ntp[starts + 1] EXCEPT !.pc = r]
        /\ Executed(ntp, "ntp")[starts + 1].pc = r
    BY <1>1, <1>3 DEF TypeOK, AudioTask, NtpTask
  <1>6. \A j \in Tasks : j # starts + 1 =>
           Executed(audio, "audio")[j] = audio[j] /\ Executed(ntp, "ntp")[j] = ntp[j]
    BY <1>1, <1>3 DEF TypeOK
  <1> QED
    BY <1>1, <1>2, <1>4, <1>5, <1>6

LEMMA DroppedTasks ==
    ASSUME TypeOK, starts > 0
    PROVE  /\ starts \in Tasks
           /\ Dropped(audio) \in [Tasks -> AudioTask] /\ Dropped(ntp) \in [Tasks -> NtpTask]
           /\ \A j \in Tasks : j # starts => Dropped(audio)[j] = audio[j] /\ Dropped(ntp)[j] = ntp[j]
           /\ LET a == Dropped(audio)[starts]
                  x == Dropped(ntp)[starts]
              IN  /\ a.pc = IF audio[starts].pc = "queued" THEN "ended" ELSE audio[starts].pc
                  /\ a = [audio[starts] EXCEPT !.pc = a.pc]
                  /\ x.pc = IF ntp[starts].pc = "queued" THEN "ended" ELSE ntp[starts].pc
                  /\ x = [ntp[starts] EXCEPT !.pc = x.pc]
  <1>1. starts \in Tasks
    BY ActivityAssumption DEF TypeOK, Tasks
  <1> DEFINE p == IF audio[starts].pc = "queued" THEN "ended" ELSE audio[starts].pc
             r == IF ntp[starts].pc = "queued" THEN "ended" ELSE ntp[starts].pc
  <1>2. p \in AudioPlaces
    BY <1>1 DEF TypeOK, AudioTask, AudioPlaces
  <1>3. r \in {"none", "queued", "check", "receive", "sleep", "ended"}
    BY <1>1 DEF TypeOK, NtpTask
  <1>4. /\ Dropped(audio) = [audio EXCEPT ![starts].pc = p]
        /\ Dropped(ntp) = [ntp EXCEPT ![starts].pc = r]
    BY <1>1 DEF TypeOK, Dropped
  <1> HIDE DEF p, r
  <1>5. /\ Dropped(audio) \in [Tasks -> AudioTask]
        /\ Dropped(ntp) \in [Tasks -> NtpTask]
    <2>1. [audio EXCEPT ![starts].pc = p] \in [Tasks -> AudioTask]
      BY <1>1, <1>2, AudioMoved DEF Moved
    <2>2. [ntp EXCEPT ![starts].pc = r] \in [Tasks -> NtpTask]
      BY <1>1, <1>2, <1>3, NtpMoved
    <2> QED
      BY <2>1, <2>2, <1>4, Zenon
  <1>6. /\ Dropped(audio)[starts] = [audio[starts] EXCEPT !.pc = p]
        /\ Dropped(ntp)[starts] = [ntp[starts] EXCEPT !.pc = r]
        /\ Dropped(audio)[starts].pc = p /\ Dropped(ntp)[starts].pc = r
    BY <1>1, <1>4 DEF TypeOK, AudioTask, NtpTask
  <1>7. \A j \in Tasks : j # starts => Dropped(audio)[j] = audio[j] /\ Dropped(ntp)[j] = ntp[j]
    BY <1>1, <1>4 DEF TypeOK
  <1> QED
    BY <1>1, <1>5, <1>6, <1>7 DEF p, r

(* The path of an audio task through its loop *)
LEMMA AudioStep ==
    ASSUME TypeOK, NEW k \in Tasks, Audio(k)
    PROVE  /\ audio' \in [Tasks -> AudioTask]
           /\ \A j \in Tasks : j # k => audio'[j] = audio[j]
           /\ \/ audio' = audio /\ ui' = "crashed"
              \/ /\ ui' = ui
                 /\ audio[k].pc # "none" /\ audio'[k].pc \notin {"none", "queued"}
                 /\ audio'[k].pc = "check_rec" => k \notin cancelled
                 /\ audio'[k].pc = "load_rec" => audio[k].pc = "check_rec"
                 /\ audio'[k].pc = "read" => audio[k].pc = "load_rec" /\ audio'[k].rec = rec
                 /\ audio[k].pc = "publish" => audio'[k].pc = "check"
                 /\ audio[k].pc = "check" => k \notin cancelled \/ audio'[k].pc = "ended"
                 /\ audio[k].pc # "ended"
                 /\ \/ audio'[k].late = audio[k].late
                    \/ /\ audio'[k].late = audio[k].late + 1 /\ k \in cancelled
                       /\ audio[k].pc = "read" /\ audio'[k].pc = "publish"
  <1>1. CASE AudioStart(k)
    <2>1. AudioGoto(k, "check") /\ audio[k].pc = "queued" /\ ui' = ui
      BY <1>1 DEF AudioStart, AudioAt, life
    <2>2. Moved(audio', k, "check")
      BY <2>1, AudioGone DEF AudioPlaces
    <2> QED
      BY <2>1, <2>2 DEF Moved
  <1>2. CASE AudioCheck(k)
    <2>1. CASE k \notin cancelled
      <3>1. AudioGoto(k, "check_rec") /\ audio[k].pc = "check" /\ ui' = ui
        BY <1>2, <2>1 DEF AudioCheck, AudioAt, GoesOn, life
      <3>2. Moved(audio', k, "check_rec")
        BY <3>1, AudioGone DEF AudioPlaces
      <3> QED
        BY <3>1, <3>2, <2>1 DEF Moved
    <2>2. CASE k \in cancelled
      <3>1. AudioGoto(k, "ended") /\ audio[k].pc = "check" /\ ui' = ui
        BY <1>2, <2>2 DEF AudioCheck, AudioAt, GoesOn, life
      <3>2. Moved(audio', k, "ended")
        BY <3>1, AudioGone DEF AudioPlaces
      <3> QED
        BY <3>1, <3>2, <2>2 DEF Moved
    <2> QED
      BY <2>1, <2>2
  <1>3. CASE AudioCheckRec(k)
    <2>1. CASE rec = 0
      <3>1. AudioGoto(k, "ended") /\ audio[k].pc = "check_rec" /\ ui' = ui
        BY <1>3, <2>1 DEF AudioCheckRec, AudioAt, life
      <3>2. Moved(audio', k, "ended")
        BY <3>1, AudioGone DEF AudioPlaces
      <3> QED
        BY <3>1, <3>2, <2>1 DEF Moved
    <2>2. CASE rec # 0
      <3>1. AudioGoto(k, "load_rec") /\ audio[k].pc = "check_rec" /\ ui' = ui
        BY <1>3, <2>2 DEF AudioCheckRec, AudioAt, life
      <3>2. Moved(audio', k, "load_rec")
        BY <3>1, AudioGone DEF AudioPlaces
      <3> QED
        BY <3>1, <3>2, <2>2 DEF Moved
    <2> QED
      BY <2>1, <2>2
  <1>4. CASE AudioLoadRec(k)
    <2>1. CASE rec = 0
      <3>1. CASE k \in cancelled
        <4>1. AudioGoto(k, "ended") /\ audio[k].pc = "load_rec" /\ ui' = ui
          BY <1>4, <2>1, <3>1 DEF AudioLoadRec, Throws, AudioAt, life
        <4>2. Moved(audio', k, "ended")
          BY <4>1, AudioGone DEF AudioPlaces
        <4> QED
          BY <4>1, <4>2 DEF Moved
      <3>2. CASE k \notin cancelled
        <4>1. UNCHANGED audio /\ ui' = "crashed"
          BY <1>4, <2>1, <3>2 DEF AudioLoadRec, Throws, Crash
        <4> QED
          BY <4>1 DEF TypeOK
      <3> QED
        BY <3>1, <3>2
    <2>2. CASE rec # 0
      <3> DEFINE b == [pc |-> "read", rec |-> rec, late |-> audio[k].late]
      <3>1. audio' = [audio EXCEPT ![k] = b]
        BY <1>4, <2>2 DEF AudioLoadRec, TypeOK, AudioTask
      <3>2. b \in AudioTask
        BY DEF TypeOK, AudioTask
      <3>3. audio[k].pc = "load_rec" /\ ui' = ui
        BY <1>4, <2>2 DEF AudioLoadRec, AudioAt, life
      <3>4. audio'[k] = b /\ \A j \in Tasks : j # k => audio'[j] = audio[j]
        BY <3>1 DEF TypeOK
      <3> QED
        BY <3>1, <3>2, <3>3, <3>4 DEF TypeOK
    <2> QED
      BY <2>1, <2>2
  <1>5. CASE AudioRead(k)
    <2>1. CASE recording = audio[k].rec
      <3> DEFINE l == IF k \in cancelled THEN audio[k].late + 1 ELSE audio[k].late
                 a == [audio EXCEPT ![k].pc = "publish"]
      <3>1. audio' = [a EXCEPT ![k].late = l]
        BY <1>5, <2>1 DEF AudioRead, TypeOK, AudioTask
      <3>2. /\ a \in [Tasks -> AudioTask] /\ a[k].pc = "publish"
            /\ \A j \in Tasks : j # k => a[j] = audio[j]
        BY AudioMoved DEF AudioPlaces, Moved
      <3>3. l \in Nat
        BY DEF TypeOK, AudioTask
      <3>4. audio[k].pc = "read" /\ ui' = ui
        BY <1>5 DEF AudioRead, AudioAt, life
      <3> HIDE DEF a, l
      <3>5. audio' \in [Tasks -> AudioTask]
        BY <3>1, <3>2, <3>3 DEF AudioTask
      <3>6. /\ audio'[k].pc = "publish" /\ audio'[k].late = l
            /\ \A j \in Tasks : j # k => audio'[j] = audio[j]
        BY <3>1, <3>2 DEF AudioTask
      <3> QED
        BY <3>4, <3>5, <3>6 DEF l
    <2>2. CASE recording # audio[k].rec
      <3>1. AudioGoto(k, "check") /\ audio[k].pc = "read" /\ ui' = ui
        BY <1>5, <2>2 DEF AudioRead, AudioAt, AudioGoto, life
      <3>2. Moved(audio', k, "check")
        BY <3>1, AudioGone DEF AudioPlaces
      <3> QED
        BY <3>1, <3>2 DEF Moved
    <2> QED
      BY <2>1, <2>2
  <1>6. CASE AudioPublish(k)
    <2>1. AudioGoto(k, "check") /\ audio[k].pc = "publish" /\ ui' = ui
      BY <1>6 DEF AudioPublish, AudioAt, life
    <2>2. Moved(audio', k, "check")
      BY <2>1, AudioGone DEF AudioPlaces
    <2> QED
      BY <2>1, <2>2 DEF Moved
  <1> QED
    BY <1>1, <1>2, <1>3, <1>4, <1>5, <1>6 DEF Audio

(* The path of an NTP task, and what becomes of its exchange *)
SameExchange(x, y) ==
    y.net = x.net /\ y.t1 = x.t1 /\ y.t2 = x.t2 /\ y.age = x.age /\ (y.fresh <=> x.fresh)

LEMMA SameButPlace ==
    ASSUME NEW x \in NtpTask, NEW y, NEW s, y = x \/ y = [x EXCEPT !.pc = s]
    PROVE  SameExchange(x, y)
  BY DEF SameExchange, NtpTask

LEMMA NtpStep ==
    ASSUME TypeOK, NEW k \in Tasks, Ntp(k)
    PROVE  /\ ntp' \in [Tasks -> NtpTask]
           /\ \A j \in Tasks : j # k => ntp'[j] = ntp[j]
           /\ ntp[k].pc # "none" /\ ntp'[k].pc \notin {"none", "queued"}
           /\ \/ SameExchange(ntp[k], ntp'[k])
              \/ ntp'[k].net = "request" /\ ntp'[k].t1 = wall /\ ntp'[k].age = 0
              \/ ntp'[k].net = "none"
  <1>1. CASE NtpStart(k) \/ NtpEnd(k) \/ NtpWake(k)
    <2>1. PICK s \in {"check", "ended"} : ntp' = [ntp EXCEPT ![k].pc = s]
      BY <1>1 DEF NtpStart, NtpEnd, NtpWake
    <2>2. ntp[k].pc # "none"
      BY <1>1 DEF NtpStart, NtpEnd, NtpWake, NtpAt
    <2>3. ntp' \in [Tasks -> NtpTask]
      BY <2>1, NtpMoved
    <2>4. ntp'[k].pc = s /\ \A j \in Tasks : j # k => ntp'[j] = ntp[j]
      BY <2>1 DEF TypeOK, NtpTask
    <2>5. SameExchange(ntp[k], ntp'[k])
      BY <2>1, NtpMoved DEF SameExchange
    <2> QED
      BY <2>1, <2>2, <2>3, <2>4, <2>5
  <1>2. CASE NtpSend(k)
    <2> DEFINE b == [pc |-> "receive", net |-> "request", t1 |-> wall, t2 |-> 0,
                     age |-> 0, fresh |-> TRUE]
    <2>1. b \in NtpTask
      BY ActivityAssumption DEF NtpTask, TypeOK, wall
    <2>2. ntp' = [ntp EXCEPT ![k] = b] /\ ntp[k].pc = "check"
      BY <1>2 DEF NtpSend, NtpAt
    <2>3. b.pc = "receive" /\ b.net = "request" /\ b.t1 = wall /\ b.age = 0
      OBVIOUS
    <2> HIDE DEF b
    <2> QED
      BY <2>1, <2>2, <2>3 DEF TypeOK
  <1>3. CASE NtpReceive(k)
    <2> DEFINE x == [ntp[k] EXCEPT !.pc = "sleep"]
    <2>1. ntp' = [ntp EXCEPT ![k] = Lost(x)] /\ ntp[k].pc = "receive"
      BY <1>3 DEF NtpReceive, NtpAt, Lost, TypeOK, NtpTask
    <2>2. x \in NtpTask /\ x.pc = "sleep"
      BY DEF TypeOK, NtpTask
    <2> HIDE DEF x
    <2>3. Lost(x) \in NtpTask /\ Lost(x).pc = "sleep" /\ Lost(x).net = "none"
      BY <2>2, LostType
    <2> QED
      BY <2>1, <2>3 DEF TypeOK
  <1> QED
    BY <1>1, <1>2, <1>3 DEF Ntp

-----------------------------------------------------------------------------
(* Every variable keeps its type *)
LEMMA TypeStep == TypeOK /\ LifeOK /\ [Next]_vars => TypeOK'
  <1> SUFFICES ASSUME TypeOK, LifeOK, [Next]_vars PROVE TypeOK'
    OBVIOUS
  <1> USE ActivityAssumption
  <1>1. CASE OnStart
    BY <1>1 DEF OnStart, SendEvent, Crash, TypeOK, clock
  <1>2. CASE StartAudio
    <2>1. starts + 1 \in 0 .. MaxStarts
      BY <1>2 DEF StartAudio, LifeOK, TypeOK
    <2> QED
      BY <1>2, <2>1 DEF StartAudio, TypeOK, clock
  <1>3. CASE StartTasks
    <2>1. starts' \in 0 .. MaxStarts /\ cancelled' \subseteq 1 .. starts'
      BY <1>3 DEF StartTasks, LifeOK, TypeOK
    <2>2. audio' \in [Tasks -> AudioTask] /\ ntp' \in [Tasks -> NtpTask]
      BY <1>3, ExecutedTasks DEF StartTasks, LifeOK
    <2> QED
      BY <1>3, <2>1, <2>2 DEF StartTasks, TypeOK, fields, clock
  <1>4. CASE StopCancel
    <2>1. ui = "started" /\ ui' = "release"
      BY <1>4 DEF StopCancel, Stops, StopSteps
    <2>2. cancelled' \subseteq 1 .. starts
      BY <1>4, <2>1 DEF StopCancel, LifeOK, TypeOK
    <2>3. audio' \in [Tasks -> AudioTask] /\ ntp' \in [Tasks -> NtpTask]
      BY <1>4, <2>1, DroppedTasks DEF StopCancel, LifeOK
    <2> QED
      BY <1>4, <2>1, <2>2, <2>3 DEF StopCancel, Stops, TypeOK, clock
  <1>5. CASE StopRelease
    <2>1. ui' = "null"
      BY <1>5 DEF StopRelease, Stops, StopSteps
    <2> QED
      BY <1>5, <2>1 DEF StopRelease, Stops, TypeOK, clock
  <1>6. CASE StopNull
    <2>1. ui = "null" /\ ui' = "stopped"
      BY <1>6 DEF StopNull, Stops, StopSteps
    <2> QED
      BY <1>6, <2>1 DEF StopNull, Stops, LifeOK, TypeOK, clock
  <1>7. CASE OnDestroy
    BY <1>7 DEF OnDestroy, SendEvent, Crash, TypeOK, clock
  <1>8. CASE OnLocationChanged
    BY <1>8 DEF OnLocationChanged, SendEvent, Crash, TypeOK, clock
  <1>9. CASE OnPeak
    <2>1. queue' \in Seq(Message) /\ Len(queue') <= MaxQueue
      BY <1>9, Taken DEF OnPeak, TypeOK
    <2> QED
      BY <1>9, <2>1 DEF OnPeak, Crash, TypeOK, life, fields, clock
  <1>10. CASE OnOffset
    <2>1. queue' \in Seq(Message) /\ Len(queue') <= MaxQueue
      BY <1>10, Taken DEF OnOffset, TypeOK
    <2>2. Head(queue) \in Message /\ "offset" \in DOMAIN Head(queue)
      BY <1>10, Taken DEF OnOffset, TypeOK
    <2>3. clock_offset' \in Offset
      BY <1>10, <2>2, MessageOffset DEF OnOffset
    <2> QED
      BY <1>10, <2>1, <2>3 DEF OnOffset, SendEvent, Crash, TypeOK, clock
  <1>11. ASSUME NEW k \in Tasks, Audio(k) PROVE TypeOK'
    <2>1. audio' \in [Tasks -> AudioTask]
      BY <1>11, AudioStep
    <2>2. queue' \in Seq(Message) /\ Len(queue') <= MaxQueue
      <3>1. CASE AudioPublish(k)
        BY <3>1, PeakIsMessage, Appended DEF AudioPublish, Post, TypeOK
      <3> QED
        BY <1>11, <3>1
           DEF Audio, AudioStart, AudioCheck, AudioCheckRec, AudioLoadRec, AudioRead, TypeOK
    <2>3. ui' \in {ui, "crashed"} /\ UNCHANGED <<starts, cancelled, fields, ntp, clock>>
      BY <1>11
         DEF Audio, AudioStart, AudioCheck, AudioCheckRec, AudioLoadRec, AudioRead, AudioPublish,
             Throws, Crash, life
    <2> QED
      BY <2>1, <2>2, <2>3 DEF TypeOK, fields, clock
  <1>12. ASSUME NEW k \in Tasks, Ntp(k) PROVE TypeOK'
    <2>1. ntp' \in [Tasks -> NtpTask]
      BY <1>12, NtpStep
    <2>2. queue' \in Seq(Message) /\ Len(queue') <= MaxQueue
      <3>1. CASE NtpReceive(k)
        <4> DEFINE o == [doubled |-> DoubledOffset(ntp[k]), fresh |-> ntp[k].fresh]
        <4>1. o \in Offset
          BY DEF Offset, DoubledOffset, TypeOK, NtpTask, wall
        <4>2. Len(queue) < MaxQueue /\ queue' = Append(queue, [offset |-> o])
          BY <3>1 DEF NtpReceive, Post
        <4> HIDE DEF o
        <4> QED
          BY <4>1, <4>2, OffsetIsMessage, Appended DEF TypeOK
      <3> QED
        BY <1>12, <3>1 DEF Ntp, NtpStart, NtpSend, NtpEnd, NtpWake, TypeOK
    <2>3. UNCHANGED <<life, fields, audio, clock>>
      BY <1>12 DEF Ntp, NtpStart, NtpSend, NtpEnd, NtpReceive, NtpWake
    <2> QED
      BY <2>1, <2>2, <2>3 DEF TypeOK, life, fields, clock
  <1>13. CASE Tick
    <2>1. ntp' \in [Tasks -> NtpTask]
      BY <1>13, AgedType DEF Tick, TypeOK
    <2> QED
      BY <1>13, <2>1 DEF Tick, TypeOK, life, fields
  <1>14. CASE StepClock
    <2>1. ntp' \in [Tasks -> NtpTask]
      <3>1. \A k \in Tasks : [ntp[k] EXCEPT !.fresh = FALSE] \in NtpTask
        BY StaleType DEF TypeOK
      <3> QED
        BY <1>14, <3>1 DEF StepClock
    <2>2. queue' \in Seq(Message) /\ Len(queue') <= MaxQueue
      <3>1. queue' = [i \in 1 .. Len(queue) |-> queue'[i]]
        BY <1>14 DEF StepClock, TypeOK
      <3>2. ASSUME NEW i \in 1 .. Len(queue) PROVE queue'[i] \in Message
        <4>1. queue[i] \in Message
          BY DEF TypeOK
        <4>2. CASE "offset" \in DOMAIN queue[i]
          <5>1. queue'[i] = [queue[i] EXCEPT !.offset.fresh = FALSE]
            <6>1. i \in DOMAIN queue
              BY DEF TypeOK
            <6> QED
              BY <1>14, <4>2, <6>1, Zenon DEF StepClock
          <5> QED
            BY <4>1, <4>2, <5>1, MessageOffset
        <4>3. CASE "offset" \notin DOMAIN queue[i]
          BY <1>14, <4>1, <4>3 DEF StepClock, TypeOK
        <4> QED
          BY <4>2, <4>3
      <3> QED
        BY <3>1, <3>2 DEF TypeOK
    <2>3. clock_offset' \in Offset
      BY <1>14 DEF StepClock, TypeOK, Offset
    <2>4. /\ UNCHANGED <<ui, starts, cancelled, sock, located, rec, recording, audio, now>>
          /\ skew' \in Skews /\ steps' = steps + 1 /\ steps < MaxSteps
      BY <1>14 DEF StepClock, life
    <2>5. steps' \in 0 .. MaxSteps
      BY <2>4, ActivityAssumption DEF TypeOK
    <2> QED
      BY <2>1, <2>2, <2>3, <2>4, <2>5 DEF TypeOK
  <1>15. ASSUME NEW k \in Tasks, NtpFails(k) PROVE TypeOK'
    BY <1>15 DEF NtpFails, Crash, TypeOK, fields, clock
  <1>16. ASSUME NEW k \in Tasks, Serve(k) PROVE TypeOK'
    <2>1. ntp' \in [Tasks -> NtpTask]
      <3>1. ntp' = [ntp EXCEPT ![k] = [ntp[k] EXCEPT !.net = "response", !.t2 = now]]
        BY <1>16 DEF Serve, TypeOK, NtpTask
      <3> QED
        BY <3>1, ServedType DEF TypeOK
    <2> QED
      BY <1>16, <2>1 DEF Serve, TypeOK, life, fields, clock
  <1>17. ASSUME NEW k \in Tasks, Lose(k) PROVE TypeOK'
    <2>1. ntp' \in [Tasks -> NtpTask]
      BY <1>17, LostType DEF Lose, TypeOK
    <2> QED
      BY <1>17, <2>1 DEF Lose, TypeOK, life, fields, clock
  <1>18. CASE UNCHANGED vars
    BY <1>18 DEF TypeOK, vars, life, fields, clock
  <1> QED
    BY <1>1, <1>2, <1>3, <1>4, <1>5, <1>6, <1>7, <1>8, <1>9, <1>10, <1>11, <1>12, <1>13, <1>14,
       <1>15, <1>16, <1>17, <1>18 DEF Next, LifeCycle, Messages, Environment, Rest

-----------------------------------------------------------------------------
(* The life cycle: what other actions do to it is nothing, or a crash *)
LEMMA LifeFrame ==
    ASSUME [Next]_vars, ~LifeCycle
    PROVE  /\ UNCHANGED <<starts, cancelled, rec, recording>>
           /\ ui' \in {ui, "crashed"}
  <1> DEFINE Framed == /\ UNCHANGED <<starts, cancelled, rec, recording>>
                       /\ ui' \in {ui, "crashed"}
  <1>1. ASSUME NEW k \in Tasks, Audio(k) PROVE Framed
    BY <1>1
       DEF Audio, AudioStart, AudioCheck, AudioCheckRec, AudioLoadRec, AudioRead, AudioPublish,
           Throws, Crash, life, fields
  <1>2. ASSUME NEW k \in Tasks, Ntp(k) PROVE Framed
    BY <1>2 DEF Ntp, NtpStart, NtpSend, NtpEnd, NtpReceive, NtpWake, life, fields
  <1>3. CASE Messages
    BY <1>3 DEF Messages, OnPeak, OnOffset, SendEvent, Crash, life, fields
  <1>4. CASE Environment
    BY <1>4 DEF Environment, Tick, StepClock, NtpFails, Serve, Lose, Crash, life, fields
  <1>5. CASE UNCHANGED vars
    BY <1>5 DEF vars, life, fields
  <1> QED
    BY <1>1, <1>2, <1>3, <1>4, <1>5 DEF Next, Rest

LEMMA LifeStep == TypeOK /\ LifeOK /\ [Next]_vars => LifeOK'
  <1> SUFFICES ASSUME TypeOK, LifeOK, [Next]_vars PROVE LifeOK'
    OBVIOUS
  <1> USE ActivityAssumption
  <1>1. CASE OnStart
    BY <1>1 DEF OnStart, SendEvent, Crash, LifeOK, TypeOK, Alive
  <1>2. CASE StartAudio
    BY <1>2 DEF StartAudio, LifeOK, TypeOK, Alive
  <1>3. CASE StartTasks
    BY <1>3 DEF StartTasks, LifeOK, TypeOK, Alive, fields
  <1>4. CASE StopCancel
    <2>1. ui = "started" /\ ui' = "release"
      BY <1>4 DEF StopCancel, Stops, StopSteps
    <2>2. cancelled' = 1 .. starts
      BY <1>4, <2>1 DEF StopCancel, LifeOK, TypeOK, Alive
    <2> QED
      BY <1>4, <2>1, <2>2 DEF StopCancel, Stops, LifeOK, TypeOK, Alive
  <1>5. CASE StopRelease
    <2>1. ui = "release" /\ ui' = "null"
      BY <1>5 DEF StopRelease, Stops, StopSteps
    <2> QED
      BY <1>5, <2>1 DEF StopRelease, Stops, LifeOK, TypeOK, Alive
  <1>6. CASE StopNull
    <2>1. ui = "null" /\ ui' = "stopped"
      BY <1>6 DEF StopNull, Stops, StopSteps
    <2> QED
      BY <1>6, <2>1 DEF StopNull, Stops, LifeOK, TypeOK, Alive
  <1>7. CASE OnDestroy
    BY <1>7 DEF OnDestroy, SendEvent, Crash, LifeOK, TypeOK, Alive
  <1>8. CASE OnLocationChanged
    BY <1>8 DEF OnLocationChanged, SendEvent, Crash, LifeOK, TypeOK, Alive
  <1>9. CASE ~LifeCycle
    <2>1. UNCHANGED <<starts, cancelled, rec, recording>> /\ ui' \in {ui, "crashed"}
      BY <1>9, LifeFrame
    <2> QED
      BY <2>1 DEF LifeOK, Alive
  <1> QED
    BY <1>1, <1>2, <1>3, <1>4, <1>5, <1>6, <1>7, <1>8, <1>9 DEF LifeCycle

-----------------------------------------------------------------------------
(* The tasks: apart from onStart and onStop each is moved by its own thread *)
LEMMA TaskFrame ==
    ASSUME TypeOK, [Next]_vars, ~StartTasks, ~StopCancel
    PROVE  /\ UNCHANGED <<starts, cancelled>>
           /\ audio' = audio \/ \E k \in Tasks : Audio(k)
           /\ \/ \A k \in Tasks : ntp'[k].pc = ntp[k].pc
              \/ \E k \in Tasks : Ntp(k)
  <1> DEFINE NtpStays == \A k \in Tasks : ntp'[k].pc = ntp[k].pc
  <1>1. CASE LifeCycle
    BY <1>1
       DEF LifeCycle, OnStart, StartAudio, StopRelease, StopNull, Stops, OnDestroy,
           OnLocationChanged, SendEvent, Crash
  <1>2. CASE ~LifeCycle
    <2>1. UNCHANGED <<starts, cancelled>>
      BY <1>2, LifeFrame
    <2>2. audio' = audio \/ \E k \in Tasks : Audio(k)
      BY <1>2
         DEF Next, Messages, OnPeak, OnOffset, Environment, Tick, StepClock, NtpFails, Serve, Lose,
             Ntp, NtpStart, NtpSend, NtpEnd, NtpReceive, NtpWake, Rest, vars
    <2>3. ASSUME Tick PROVE NtpStays
      BY <2>3, AgedType DEF Tick, TypeOK
    <2>4. ASSUME StepClock PROVE NtpStays
      BY <2>4, StaleType DEF StepClock, TypeOK
    <2>5. ASSUME NEW k \in Tasks, Serve(k) PROVE NtpStays
      BY <2>5 DEF Serve, TypeOK, NtpTask
    <2>6. ASSUME NEW k \in Tasks, Lose(k) PROVE NtpStays
      BY <2>6, LostType DEF Lose, TypeOK
    <2>7. NtpStays \/ \E k \in Tasks : Ntp(k)
      BY <1>2, <2>3, <2>4, <2>5, <2>6
         DEF Next, Messages, OnPeak, OnOffset, Environment, NtpFails, Rest, vars,
             Audio, AudioStart, AudioCheck, AudioCheckRec, AudioLoadRec, AudioRead, AudioPublish
    <2> QED
      BY <2>1, <2>2, <2>7
  <1> QED
    BY <1>1, <1>2

LEMMA TasksStep == TypeOK /\ LifeOK /\ TasksOK /\ [Next]_vars => TasksOK'
  <1> SUFFICES ASSUME TypeOK, LifeOK, TasksOK, [Next]_vars PROVE TasksOK'
    OBVIOUS
  <1>1. CASE StartTasks
    <2>1. /\ starts < MaxStarts /\ starts' = starts + 1 /\ cancelled' = cancelled
          /\ audio' = Executed(audio, "audio") /\ ntp' = Executed(ntp, "ntp")
      BY <1>1 DEF StartTasks, LifeOK
    <2>2. ASSUME NEW k \in Tasks, k # starts + 1
          PROVE  /\ k > starts' => audio'[k].pc = "none" /\ ntp'[k].pc = "none"
                 /\ k \in cancelled' => audio'[k].pc # "queued" /\ ntp'[k].pc # "queued"
      BY <2>1, <2>2, ExecutedTasks DEF TasksOK, TypeOK, Tasks
    <2>3. ~(starts + 1 > starts') /\ starts + 1 \notin cancelled'
      BY <2>1 DEF TypeOK
    <2> QED
      BY <2>2, <2>3 DEF TasksOK
  <1>2. CASE StopCancel
    <2>1. /\ starts > 0 /\ starts' = starts /\ cancelled' = cancelled \cup {starts}
          /\ audio' = Dropped(audio) /\ ntp' = Dropped(ntp)
      BY <1>2 DEF StopCancel, Stops, StopSteps, LifeOK
    <2>2. ASSUME NEW k \in Tasks, k # starts
          PROVE  /\ k > starts' => audio'[k].pc = "none" /\ ntp'[k].pc = "none"
                 /\ k \in cancelled' => audio'[k].pc # "queued" /\ ntp'[k].pc # "queued"
      BY <2>1, <2>2, DroppedTasks DEF TasksOK
    <2>3. ~(starts > starts') /\ audio'[starts].pc # "queued" /\ ntp'[starts].pc # "queued"
      BY <2>1, DroppedTasks DEF TypeOK
    <2> QED
      BY <2>2, <2>3 DEF TasksOK
  <1>3. CASE ~StartTasks /\ ~StopCancel
    <2>1. UNCHANGED <<starts, cancelled>>
      BY <1>3, TaskFrame
    <2>2. \A k \in Tasks :
             \/ audio'[k].pc = audio[k].pc
             \/ audio[k].pc # "none" /\ audio'[k].pc \notin {"none", "queued"}
      <3>1. CASE audio' = audio
        BY <3>1
      <3>2. ASSUME NEW j \in Tasks, Audio(j), NEW k \in Tasks
            PROVE  \/ audio'[k].pc = audio[k].pc
                   \/ audio[k].pc # "none" /\ audio'[k].pc \notin {"none", "queued"}
        BY <3>2, AudioStep
      <3> QED
        BY <1>3, <3>1, <3>2, TaskFrame
    <2>3. \A k \in Tasks :
             \/ ntp'[k].pc = ntp[k].pc
             \/ ntp[k].pc # "none" /\ ntp'[k].pc \notin {"none", "queued"}
      <3>1. ASSUME NEW j \in Tasks, Ntp(j), NEW k \in Tasks
            PROVE  \/ ntp'[k].pc = ntp[k].pc
                   \/ ntp[k].pc # "none" /\ ntp'[k].pc \notin {"none", "queued"}
        BY <3>1, NtpStep
      <3> QED
        BY <1>3, <3>1, TaskFrame
    <2> QED
      BY <2>1, <2>2, <2>3 DEF TasksOK
  <1> QED
    BY <1>1, <1>2, <1>3

-----------------------------------------------------------------------------
(* The recorders, and the blocks that tasks read *)

(* A task that is not cancelled and on its way has the latest recorder *)
LEMMA LiveTask ==
    ASSUME TypeOK, LifeOK, TasksOK, NEW k \in Tasks, k \notin cancelled, audio[k].pc # "none", Alive
    PROVE  ui = "started" /\ k = starts /\ rec = k /\ recording = k
  BY DEF TypeOK, LifeOK, TasksOK, Alive, Tasks

(* In each of the steps that starts or cancels tasks *)
LEMMA CreatedOrCancelled ==
    ASSUME TypeOK, LifeOK, TasksOK, NEW k \in Tasks,
           StartTasks \/ StopCancel
    PROVE  /\ cancelled \subseteq cancelled'
           /\ audio'[k].late = audio[k].late
           /\ \/ audio'[k] = audio[k]
              \/ k \notin cancelled /\ audio[k].pc = "none" /\ audio'[k].pc \in {"queued", "ended"}
              \/ k \in cancelled' /\ audio'[k].pc \in {audio[k].pc, "ended"}
  <1>1. CASE StartTasks
    <2>1. starts < MaxStarts /\ cancelled' = cancelled /\ audio' = Executed(audio, "audio")
      BY <1>1 DEF StartTasks, LifeOK
    <2>2. starts + 1 \notin cancelled /\ audio[starts + 1].pc = "none"
      BY <2>1, ExecutedTasks DEF TypeOK, TasksOK
    <2> QED
      BY <2>1, <2>2, ExecutedTasks
  <1>2. CASE StopCancel
    <2>1. starts > 0 /\ cancelled' = cancelled \cup {starts} /\ audio' = Dropped(audio)
      BY <1>2 DEF StopCancel, Stops, StopSteps, LifeOK
    <2>2. audio'[starts].late = audio[starts].late
      BY <2>1, DroppedTasks DEF TypeOK, AudioTask
    <2> QED
      BY <2>1, <2>2, DroppedTasks
  <1> QED
    BY <1>1, <1>2

LEMMA ReadsStep == TypeOK /\ LifeOK /\ TasksOK /\ ReadsOwn /\ [Next]_vars => ReadsOwn'
  <1> SUFFICES ASSUME TypeOK, LifeOK, TasksOK, ReadsOwn, [Next]_vars,
                      NEW k \in Tasks, audio'[k].pc = "read"
               PROVE  k \in cancelled' \/ audio'[k].rec = k
    BY DEF ReadsOwn
  <1>1. CASE StartTasks \/ StopCancel
    BY <1>1, CreatedOrCancelled DEF ReadsOwn
  <1>2. CASE ~StartTasks /\ ~StopCancel
    <2>1. cancelled' = cancelled
      BY <1>2, TaskFrame
    <2>2. CASE audio'[k] = audio[k]
      BY <2>1, <2>2 DEF ReadsOwn
    <2>3. CASE audio'[k] # audio[k]
      <3>1. Audio(k)
        BY <1>2, <2>3, TaskFrame, AudioStep
      <3>2. audio[k].pc = "load_rec" /\ audio'[k].rec = rec
        BY <2>3, <3>1, AudioStep
      <3>3. Alive
        BY <3>1
           DEF Audio, AudioStart, AudioCheck, AudioCheckRec, AudioLoadRec, AudioRead, AudioPublish,
               AudioAt
      <3> QED
        BY <2>1, <3>2, <3>3, LiveTask
    <2> QED
      BY <2>2, <2>3
  <1> QED
    BY <1>1, <1>2

LEMMA LateStep == TypeOK /\ LifeOK /\ TasksOK /\ LateOK /\ [Next]_vars => LateOK'
  <1> SUFFICES ASSUME TypeOK, LifeOK, TasksOK, LateOK, [Next]_vars, NEW k \in Tasks
               PROVE  \/ audio'[k].late = 0
                      \/ /\ audio'[k].late = 1 /\ k \in cancelled'
                         /\ audio'[k].pc \in {"publish", "check", "ended"}
    BY DEF LateOK
  <1>1. CASE StartTasks \/ StopCancel
    BY <1>1, CreatedOrCancelled DEF LateOK
  <1>2. CASE ~StartTasks /\ ~StopCancel
    <2>1. cancelled' = cancelled
      BY <1>2, TaskFrame
    <2>2. CASE audio'[k] = audio[k]
      BY <2>1, <2>2 DEF LateOK
    <2>3. CASE audio'[k] # audio[k]
      <3>1. Audio(k)
        BY <1>2, <2>3, TaskFrame, AudioStep
      <3> QED
        BY <2>1, <2>3, <3>1, AudioStep DEF LateOK
    <2> QED
      BY <2>2, <2>3
  <1> QED
    BY <1>1, <1>2

-----------------------------------------------------------------------------
(* The offsets *)

(* The measurement of an exchange: T2 is between T1 and now *)
LEMMA OffsetBound ==
    ASSUME NEW t1 \in Int, NEW t2 \in Int, NEW n \in Int, NEW s \in Int, NEW a \in Int,
           NEW max \in Int, t1 + a = n + s, a <= max, t1 <= t2 + s, t2 <= n
    PROVE  LET e == (t2 - t1) + (t2 - (n + s)) + 2 * s IN -max <= e /\ e <= max
  OBVIOUS

LEMMA MeasuredAccurate ==
    ASSUME TypeOK, ExchangeOK, NEW k \in Tasks, ntp[k].net = "response"
    PROVE  Accurate([doubled |-> DoubledOffset(ntp[k]), fresh |-> ntp[k].fresh])
  <1> SUFFICES ASSUME ntp[k].fresh
               PROVE  LET e == DoubledOffset(ntp[k]) + 2 * skew IN -MaxTrip <= e /\ e <= MaxTrip
    BY DEF Accurate
  <1>1. /\ ntp[k].t1 + ntp[k].age = now + skew
        /\ ntp[k].t1 <= ntp[k].t2 + skew /\ ntp[k].t2 <= now
    BY DEF ExchangeOK, wall
  <1>2. /\ ntp[k].t1 \in Int /\ ntp[k].t2 \in Int /\ ntp[k].age \in Int /\ ntp[k].age <= MaxTrip
        /\ now \in Int /\ skew \in Int /\ MaxTrip \in Int
    BY ActivityAssumption DEF TypeOK, NtpTask
  <1> QED
    BY <1>1, <1>2, OffsetBound DEF DoubledOffset, wall

LEMMA ClockFrame ==
    ASSUME [Next]_vars, ~Tick, ~StepClock
    PROVE  UNCHANGED <<now, skew>>
  <1>1. CASE LifeCycle
    BY <1>1
       DEF LifeCycle, OnStart, StartAudio, StartTasks, StopCancel, StopRelease, StopNull, Stops,
           OnDestroy, OnLocationChanged, clock
  <1>2. ASSUME NEW k \in Tasks, Audio(k) PROVE UNCHANGED <<now, skew>>
    BY <1>2
       DEF Audio, AudioStart, AudioCheck, AudioCheckRec, AudioLoadRec, AudioRead, AudioPublish,
           clock
  <1>3. ASSUME NEW k \in Tasks, Ntp(k) PROVE UNCHANGED <<now, skew>>
    BY <1>3 DEF Ntp, NtpStart, NtpSend, NtpEnd, NtpReceive, NtpWake, clock
  <1> QED
    BY <1>1, <1>2, <1>3
       DEF Next, Messages, OnPeak, OnOffset, Environment, NtpFails, Serve, Lose, Rest, vars, clock

LEMMA ExchangeFrame ==
    ASSUME TypeOK, LifeOK, [Next]_vars, ~Tick, ~StepClock, NEW k \in Tasks
    PROVE  \/ SameExchange(ntp[k], ntp'[k])
           \/ ntp'[k].net = "request" /\ ntp'[k].t1 = wall /\ ntp'[k].age = 0
           \/ ntp'[k].net = "none"
           \/ /\ ntp[k].net = "request" /\ ntp'[k].net = "response" /\ ntp'[k].t2 = now
              /\ ntp'[k].t1 = ntp[k].t1 /\ ntp'[k].age = ntp[k].age
              /\ (ntp'[k].fresh <=> ntp[k].fresh)
  <1> DEFINE Framed ==
               \/ SameExchange(ntp[k], ntp'[k])
               \/ ntp'[k].net = "request" /\ ntp'[k].t1 = wall /\ ntp'[k].age = 0
               \/ ntp'[k].net = "none"
               \/ /\ ntp[k].net = "request" /\ ntp'[k].net = "response" /\ ntp'[k].t2 = now
                  /\ ntp'[k].t1 = ntp[k].t1 /\ ntp'[k].age = ntp[k].age
                  /\ (ntp'[k].fresh <=> ntp[k].fresh)
  <1>1. CASE StartTasks
    <2>1. starts < MaxStarts /\ ntp' = Executed(ntp, "ntp")
      BY <1>1 DEF StartTasks, LifeOK
    <2>2. ntp'[k] = ntp[k] \/ ntp'[k] = [ntp[k] EXCEPT !.pc = ntp'[k].pc]
      BY <2>1, ExecutedTasks
    <2>3. ntp[k] \in NtpTask
      BY DEF TypeOK
    <2> QED
      BY <2>2, <2>3, SameButPlace
  <1>2. CASE StopCancel
    <2>1. starts > 0 /\ ntp' = Dropped(ntp)
      BY <1>2 DEF StopCancel, Stops, StopSteps, LifeOK
    <2>2. ntp'[k] = ntp[k] \/ ntp'[k] = [ntp[k] EXCEPT !.pc = ntp'[k].pc]
      BY <2>1, DroppedTasks
    <2>3. ntp[k] \in NtpTask
      BY DEF TypeOK
    <2> QED
      BY <2>2, <2>3, SameButPlace
  <1>3. ASSUME NEW j \in Tasks, Ntp(j) PROVE Framed
    BY <1>3, NtpStep DEF SameExchange
  <1>4. ASSUME NEW j \in Tasks, Serve(j) PROVE Framed
    <2>1. ntp' = [ntp EXCEPT ![j] = [ntp[j] EXCEPT !.net = "response", !.t2 = now]]
      BY <1>4 DEF Serve, TypeOK, NtpTask
    <2>2. CASE k = j
      <3>1. ntp[k].net = "request" /\ ntp[k] \in NtpTask
        BY <1>4, <2>2 DEF Serve, TypeOK
      <3>2. ntp'[k] = [ntp[k] EXCEPT !.net = "response", !.t2 = now]
        BY <2>1, <2>2 DEF TypeOK
      <3>3. /\ ntp'[k].net = "response" /\ ntp'[k].t2 = now /\ ntp'[k].t1 = ntp[k].t1
            /\ ntp'[k].age = ntp[k].age /\ (ntp'[k].fresh <=> ntp[k].fresh)
        BY <3>1, <3>2, ServedType
      <3> QED
        BY <3>1, <3>3
    <2>3. CASE k # j
      BY <2>1, <2>3 DEF SameExchange, TypeOK
    <2> QED
      BY <2>2, <2>3
  <1>5. ASSUME NEW j \in Tasks, Lose(j) PROVE Framed
    BY <1>5, LostType DEF Lose, SameExchange, TypeOK
  <1>6. CASE ntp' = ntp
    BY <1>6 DEF SameExchange
  <1>7. \/ StartTasks \/ StopCancel \/ ntp' = ntp
        \/ \E j \in Tasks : Ntp(j) \/ Serve(j) \/ Lose(j)
    <2>1. CASE LifeCycle
      BY <2>1
         DEF LifeCycle, OnStart, StartAudio, StopRelease, StopNull, OnDestroy, OnLocationChanged
    <2>2. ASSUME NEW j \in Tasks, Audio(j) PROVE ntp' = ntp
      BY <2>2
         DEF Audio, AudioStart, AudioCheck, AudioCheckRec, AudioLoadRec, AudioRead, AudioPublish
    <2> QED
      BY <2>1, <2>2 DEF Next, Messages, OnPeak, OnOffset, Environment, NtpFails, Rest, vars
  <1> QED
    BY <1>1, <1>2, <1>3, <1>4, <1>5, <1>6, <1>7

LEMMA ExchangeStep == TypeOK /\ LifeOK /\ ExchangeOK /\ [Next]_vars => ExchangeOK'
  <1> SUFFICES ASSUME TypeOK, LifeOK, ExchangeOK, [Next]_vars, NEW k \in Tasks,
                      ntp'[k].fresh, ntp'[k].net # "none"
               PROVE  /\ ntp'[k].t1 + ntp'[k].age = wall'
                      /\ ntp'[k].net = "response" =>
                            ntp'[k].t1 <= ntp'[k].t2 + skew' /\ ntp'[k].t2 <= now'
    BY DEF ExchangeOK
  <1>1. ntp[k] \in NtpTask /\ now \in Int /\ skew \in Int
    BY ActivityAssumption DEF TypeOK
  <1>2. CASE Tick
    <2>1. ntp'[k] = Aged(ntp[k]) /\ now' = now + 1 /\ skew' = skew
      BY <1>2 DEF Tick
    <2>2. /\ ntp'[k].net = ntp[k].net /\ ntp'[k].t1 = ntp[k].t1 /\ ntp'[k].t2 = ntp[k].t2
          /\ ntp'[k].age = ntp[k].age + 1 /\ ntp[k].fresh
      BY <1>1, <2>1, AgedType
    <2> QED
      BY <1>1, <2>1, <2>2 DEF ExchangeOK, NtpTask, wall
  <1>3. CASE StepClock
    BY <1>3, StaleType DEF StepClock, TypeOK
  <1>4. CASE ~Tick /\ ~StepClock
    <2>1. now' = now /\ skew' = skew
      BY <1>4, ClockFrame
    <2>2. CASE SameExchange(ntp[k], ntp'[k])
      BY <1>1, <2>1, <2>2 DEF ExchangeOK, SameExchange, NtpTask, wall
    <2>3. CASE ntp'[k].net = "request" /\ ntp'[k].t1 = wall /\ ntp'[k].age = 0
      BY <1>1, <2>1, <2>3 DEF wall
    <2>4. CASE /\ ntp[k].net = "request" /\ ntp'[k].net = "response" /\ ntp'[k].t2 = now
               /\ ntp'[k].t1 = ntp[k].t1 /\ ntp'[k].age = ntp[k].age
               /\ (ntp'[k].fresh <=> ntp[k].fresh)
      BY <1>1, <2>1, <2>4 DEF ExchangeOK, NtpTask, wall
    <2> QED
      BY <1>4, <2>2, <2>3, <2>4, ExchangeFrame
  <1> QED
    BY <1>2, <1>3, <1>4

(* Offsets are posted when they are measured, and used in order *)
LEMMA OffsetsFrame ==
    ASSUME [Next]_vars, ~OnPeak, ~OnOffset, ~StepClock,
           \A k \in Tasks : ~AudioPublish(k) /\ ~NtpReceive(k)
    PROVE  UNCHANGED <<queue, clock_offset, skew>>
  <1>1. CASE LifeCycle
    BY <1>1
       DEF LifeCycle, OnStart, StartAudio, StartTasks, StopCancel, StopRelease, StopNull, Stops,
           OnDestroy, OnLocationChanged, clock, fields
  <1>2. ASSUME NEW k \in Tasks, Audio(k) PROVE UNCHANGED <<queue, clock_offset, skew>>
    BY <1>2 DEF Audio, AudioStart, AudioCheck, AudioCheckRec, AudioLoadRec, AudioRead, clock, fields
  <1>3. ASSUME NEW k \in Tasks, Ntp(k) PROVE UNCHANGED <<queue, clock_offset, skew>>
    BY <1>3 DEF Ntp, NtpStart, NtpSend, NtpEnd, NtpWake, clock, fields
  <1> QED
    BY <1>1, <1>2, <1>3
       DEF Next, Messages, Environment, Tick, NtpFails, Serve, Lose, Rest, vars, clock, fields

LEMMA TailAccurate ==
    ASSUME TypeOK, QueueAccurate, queue # <<>>, queue' = Tail(queue), skew' = skew
    PROVE  QueueAccurate'
  <1> SUFFICES ASSUME NEW i \in DOMAIN Tail(queue), "offset" \in DOMAIN Tail(queue)[i]
               PROVE  Accurate(Tail(queue)[i].offset)
    BY DEF QueueAccurate, Accurate
  <1>1. i + 1 \in DOMAIN queue /\ Tail(queue)[i] = queue[i + 1]
    BY Taken DEF TypeOK
  <1> QED
    BY <1>1 DEF QueueAccurate

LEMMA AppendAccurate ==
    ASSUME TypeOK, QueueAccurate, NEW m \in Message, queue' = Append(queue, m), skew' = skew,
           "offset" \in DOMAIN m => Accurate(m.offset)
    PROVE  QueueAccurate'
  <1> SUFFICES ASSUME NEW i \in DOMAIN Append(queue, m), "offset" \in DOMAIN Append(queue, m)[i]
               PROVE  Accurate(Append(queue, m)[i].offset)
    BY DEF QueueAccurate, Accurate
  <1>1. CASE i \in DOMAIN queue
    BY <1>1, Appended DEF QueueAccurate, TypeOK
  <1>2. CASE i = Len(queue) + 1
    BY <1>2, Appended DEF TypeOK
  <1> QED
    BY <1>1, <1>2, Appended DEF TypeOK

LEMMA OffsetsStep ==
    TypeOK /\ ExchangeOK /\ QueueAccurate /\ OffsetAccurate /\ [Next]_vars
        => QueueAccurate' /\ OffsetAccurate'
  <1> SUFFICES ASSUME TypeOK, ExchangeOK, QueueAccurate, OffsetAccurate, [Next]_vars
               PROVE  QueueAccurate' /\ OffsetAccurate'
    OBVIOUS
  <1>1. CASE OnPeak
    <2>1. queue # <<>> /\ queue' = Tail(queue) /\ clock_offset' = clock_offset /\ skew' = skew
      BY <1>1 DEF OnPeak, fields, clock
    <2> QED
      BY <2>1, TailAccurate DEF OffsetAccurate
  <1>2. CASE OnOffset
    <2>1. /\ queue # <<>> /\ queue' = Tail(queue) /\ skew' = skew
          /\ clock_offset' = Head(queue).offset /\ "offset" \in DOMAIN Head(queue)
      BY <1>2 DEF OnOffset, clock
    <2>2. Accurate(Head(queue).offset)
      BY <2>1, Taken DEF QueueAccurate, TypeOK
    <2>3. OffsetAccurate'
      BY <2>1, <2>2 DEF OffsetAccurate, Accurate
    <2> QED
      BY <2>1, <2>3, TailAccurate
  <1>3. CASE StepClock
    <2>1. OffsetAccurate'
      BY <1>3 DEF StepClock, OffsetAccurate, TypeOK, Offset
    <2>2. ASSUME NEW i \in DOMAIN queue', "offset" \in DOMAIN queue'[i]
          PROVE  Accurate(queue[i].offset)'
      <3>1. i \in DOMAIN queue /\ queue[i] \in Message
        BY <1>3, <2>2 DEF StepClock, TypeOK
      <3>2. CASE "offset" \in DOMAIN queue[i]
        <4>1. queue'[i] = [queue[i] EXCEPT !.offset.fresh = FALSE]
          BY <1>3, <3>1, <3>2, Zenon DEF StepClock
        <4> QED
          BY <3>1, <3>2, <4>1, MessageOffset DEF Accurate
      <3>3. CASE "offset" \notin DOMAIN queue[i]
        <4>1. queue'[i] = queue[i]
          BY <1>3, <3>1, <3>3, Zenon DEF StepClock
        <4> QED
          BY <2>2, <3>3, <4>1
      <3> QED
        BY <3>2, <3>3
    <2> QED
      BY <2>1, <2>2 DEF QueueAccurate
  <1>4. ASSUME NEW k \in Tasks, AudioPublish(k) PROVE QueueAccurate' /\ OffsetAccurate'
    <2>1. queue' = Append(queue, [audio |-> k]) /\ clock_offset' = clock_offset /\ skew' = skew
      BY <1>4 DEF AudioPublish, Post, fields, clock
    <2>2. "offset" \notin DOMAIN [audio |-> k] /\ [audio |-> k] \in Message
      BY PeakIsMessage
    <2>3. QueueAccurate'
      BY <2>1, <2>2, AppendAccurate
    <2> QED
      BY <2>1, <2>3 DEF OffsetAccurate
  <1>5. ASSUME NEW k \in Tasks, NtpReceive(k) PROVE QueueAccurate' /\ OffsetAccurate'
    <2> DEFINE o == [doubled |-> DoubledOffset(ntp[k]), fresh |-> ntp[k].fresh]
    <2>1. queue' = Append(queue, [offset |-> o]) /\ clock_offset' = clock_offset /\ skew' = skew
      BY <1>5 DEF NtpReceive, Post, fields, clock
    <2>2. Accurate(o)
      BY <1>5, MeasuredAccurate DEF NtpReceive
    <2>3. o \in Offset
      <3>1. DoubledOffset(ntp[k]) \in Int /\ ntp[k].fresh \in BOOLEAN
        BY ActivityAssumption DEF DoubledOffset, TypeOK, NtpTask, wall
      <3> QED
        BY <3>1 DEF Offset
    <2> HIDE DEF o
    <2>4. [offset |-> o] \in Message /\ [offset |-> o].offset = o
      BY <2>3, OffsetIsMessage
    <2>5. QueueAccurate'
      BY <2>1, <2>2, <2>4, AppendAccurate
    <2> QED
      BY <2>1, <2>5 DEF OffsetAccurate
  <1>6. CASE UNCHANGED <<queue, clock_offset, skew>>
    BY <1>6 DEF QueueAccurate, OffsetAccurate, Accurate
  <1> QED
    BY <1>1, <1>2, <1>3, <1>4, <1>5, <1>6, OffsetsFrame

-----------------------------------------------------------------------------
(* The strengthened invariant, and what follows from it *)

LEMMA InvStep == Inv /\ [Next]_vars => Inv'
  BY TypeStep, LifeStep, TasksStep, ReadsStep, LateStep, ExchangeStep, OffsetsStep DEF Inv

LEMMA Invariant == Spec => []Inv
  BY InitInv, InvStep, PTL DEF Spec

(* Every variable has its type, and cancelled tasks are tasks that were     *)
(* started: onStart and onStop never index past the tables.                 *)
THEOREM TypeCorrect == Spec => []TypeOK
  <1>1. Inv => TypeOK
    BY DEF Inv
  <1> QED
    BY <1>1, Invariant, PTL

(* A task that is not cancelled finds rec set to its own recorder, which is *)
(* recording, at every step of its loop, whatever starts and stops there    *)
(* were before.                                                             *)
THEOREM LiveTasksRecord == Spec => []LiveTaskHasRecorder
  <1>1. Inv => LiveTaskHasRecorder
    <2> SUFFICES ASSUME Inv, Alive, NEW k \in Tasks, k \notin cancelled, audio[k].pc # "none"
                 PROVE  rec = k /\ (audio[k].pc = "read" => audio[k].rec = recording)
      BY DEF LiveTaskHasRecorder, AudioAt
    <2>1. rec = k /\ recording = k
      BY LiveTask DEF Inv
    <2> QED
      BY <2>1 DEF Inv, ReadsOwn
  <1> QED
    BY <1>1, Invariant, PTL

(* A cancelled task takes at most one more block of audio, although its     *)
(* loop looks at isCancelled and at rec in separate steps and the activity  *)
(* may be started again in between.                                         *)
THEOREM LateReadsBounded == Spec => []OneLateRead
  <1>1. Inv => OneLateRead
    BY DEF Inv, LateOK, OneLateRead
  <1> QED
    BY <1>1, Invariant, PTL

(* The offset in use is off by the round trip at most, for every clock      *)
(* error and trip time, unless the clock was stepped since its request.     *)
THEOREM OffsetsAccurate == Spec => []OffsetAccurate
  <1>1. Inv => OffsetAccurate
    BY DEF Inv
  <1> QED
    BY <1>1, Invariant, PTL
===============================================================================
