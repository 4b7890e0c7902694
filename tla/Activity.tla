------------------------------- MODULE Activity -------------------------------
(***************************************************************************)
(* The Android application (android/src/com/zevv/fwloc/fwloc.java): the    *)
(* UI thread with its life cycle and its message queue, and for every      *)
(* start of the activity an audio task and an NTP task, each on a thread   *)
(* of its own.  They share the fields of the activity.                     *)
(*                                                                         *)
(* Task k is the one of the k-th start, and so is recorder k.  now is the  *)
(* server's clock and now + skew the device's; offsets are kept doubled,   *)
(* before the division by 2 of fwloc.java:139.  Android, the network and   *)
(* the server are external.                                                *)
(*                                                                         *)
(* A definition whose name starts with Mut is the one that follows it with *)
(* a bug in it; the specification does not use them.                       *)
(***************************************************************************)
EXTENDS Integers, Sequences

CONSTANTS
    MaxStarts,     \* bound on the starts of the activity
    MaxQueue,      \* bound on the messages to the UI thread
    MaxTrip,       \* longest time from a request to the receipt of its answer
    Skews,         \* what the device's clock may be off by
    MaxSteps,      \* bound on the steps of that clock
    MaxTime,       \* bound on the server's clock
    Failures,      \* what may go wrong: "socket", "location", "network"
    Followed       \* sets of the kinds of tasks that one behaviour starts:
                   \* "audio" and "ntp"; the code starts both

ASSUME ActivityAssumption ==
    /\ MaxStarts \in Nat \ {0} /\ MaxQueue \in Nat \ {0} /\ MaxTrip \in Nat
    /\ Skews \subseteq Int /\ MaxSteps \in Nat /\ MaxTime \in Nat
    /\ Failures \subseteq {"socket", "location", "network"}
    /\ Followed \subseteq SUBSET {"audio", "ntp"}

VARIABLES
    followed,      \* one of Followed
    ui,            \* where the UI thread is
    starts,        \* how often onStart has run
    cancelled,     \* the tasks that were cancelled
    sock,          \* the socket for events
    located,       \* location is not null
    rec,           \* the field: a recorder, or 0 for null
    recording,     \* the recorder that is recording, or 0
    audio,         \* the audio tasks
    ntp,           \* the NTP tasks, each with the exchange it is in
    queue,         \* what publishProgress has posted
    clock_offset,  \* and whether it is of an exchange since the clock was stepped
    now, skew, steps

clock  == <<followed, now, skew, steps>>
fields == <<sock, located, rec, recording, clock_offset>>
life   == <<ui, starts, cancelled>>
vars   == <<life, fields, audio, ntp, queue, clock>>

Tasks == 1 .. MaxStarts
wall == now + skew

(* late is history: blocks of audio that a task took after it was cancelled *)
AudioTask ==
    [pc : {"none", "queued", "check", "check_rec", "load_rec", "read", "publish", "ended"},
     rec : 0 .. MaxStarts, late : Nat]

(* net is where the datagram of the exchange is; age and fresh are history  *)
NtpTask ==
    [pc : {"none", "queued", "check", "receive", "sleep", "ended"},
     net : {"none", "request", "response"},
     t1 : Int, t2 : Int, age : 0 .. MaxTrip, fresh : BOOLEAN]

Offset == [doubled : Int, fresh : BOOLEAN]
Message == [audio : Tasks] \cup [offset : Offset]

(* onCreate opens the socket *)
Init ==
    /\ followed \in Followed
    /\ ui = "created" /\ starts = 0 /\ cancelled = {}
    /\ sock \in {"open"} \cup {s \in {"null"} : "socket" \in Failures}
    /\ located = FALSE /\ rec = 0 /\ recording = 0
    /\ audio = [k \in Tasks |-> [pc |-> "none", rec |-> 0, late |-> 0]]
    /\ ntp = [k \in Tasks |-> [pc |-> "none", net |-> "none", t1 |-> 0, t2 |-> 0,
                               age |-> 0, fresh |-> FALSE]]
    /\ queue = <<>>
    /\ clock_offset = [doubled |-> 0, fresh |-> FALSE]
    /\ now = 0 /\ skew \in Skews /\ steps = 0

-----------------------------------------------------------------------------
(* The UI thread *)

Alive == ui # "crashed"
Idle == ui \in {"created", "started", "stopped", "destroyed"}

(* An exception that nobody catches ends the process: those of the UI       *)
(* thread, and of a task unless it was cancelled                             *)
Crash == ui' = "crashed" /\ UNCHANGED <<starts, cancelled>>

(* send_event: without a socket there is an exception nobody catches, with  *)
(* a closed one the event is lost.                                          *)
SendEvent(next) ==
    IF sock = "null" THEN Crash ELSE ui' = next /\ UNCHANGED <<starts, cancelled>>

(* onStart, in three steps: the last known location, the recorder, the tasks *)
OnStart ==
    /\ ui \in {"created", "stopped"} /\ starts < MaxStarts
    /\ located' \in {TRUE} \cup {l \in {FALSE} : "location" \in Failures}
    /\ IF located' THEN SendEvent("start_audio")
       ELSE ui' = "start_audio" /\ UNCHANGED <<starts, cancelled>>
    /\ UNCHANGED <<sock, rec, recording, clock_offset, audio, ntp, queue, clock>>

StartAudio ==
    /\ ui = "start_audio"
    /\ rec' = starts + 1 /\ recording' = starts + 1
    /\ ui' = "start_tasks"
    /\ UNCHANGED <<starts, cancelled, sock, located, clock_offset, audio, ntp, queue, clock>>

Executed(tasks, kind) ==
    [tasks EXCEPT ![starts + 1].pc = IF kind \in followed THEN "queued" ELSE "ended"]
StartTasks ==
    /\ ui = "start_tasks"
    /\ starts' = starts + 1
    /\ audio' = Executed(audio, "audio") /\ ntp' = Executed(ntp, "ntp")
    /\ ui' = "started"
    /\ UNCHANGED <<cancelled, fields, queue, clock>>

(* onStop: cancel both tasks, then stop and release the recorder, then      *)
(* forget it                                                                *)
MutStopSteps == <<"null", "release", "cancel">>
StopSteps == <<"cancel", "release", "null">>

Stops(s) ==
    /\ \E i \in 1 .. 3 :
          /\ StopSteps[i] = s
          /\ ui = (IF i = 1 THEN "started" ELSE StopSteps[i])
          /\ ui' = IF i = 3 THEN "stopped" ELSE StopSteps[i + 1]
    /\ UNCHANGED <<starts, sock, located, clock_offset, queue, clock>>

(* A task that has not begun is dropped, and a sleep is interrupted; an     *)
(* interrupt ends neither read nor receive.                                 *)
Dropped(tasks) == [tasks EXCEPT ![starts].pc = IF @ = "queued" THEN "ended" ELSE @]

StopCancel ==
    /\ Stops("cancel")
    /\ cancelled' = cancelled \cup {starts}
    /\ audio' = Dropped(audio) /\ ntp' = Dropped(ntp)
    /\ UNCHANGED <<rec, recording>>

StopRelease ==
    /\ Stops("release")
    /\ recording' = 0
    /\ UNCHANGED <<cancelled, rec, audio, ntp>>

StopNull ==
    /\ Stops("null")
    /\ rec' = 0
    /\ UNCHANGED <<cancelled, recording, audio, ntp>>

OnDestroy ==
    /\ ui = "stopped"
    /\ SendEvent("destroyed")
    /\ sock' = IF sock = "null" THEN sock ELSE "closed"
    /\ UNCHANGED <<located, rec, recording, clock_offset, audio, ntp, queue, clock>>

(* The updates that onStart asks for are never ended *)
OnLocationChanged ==
    /\ Idle /\ starts > 0
    /\ located' = TRUE
    /\ SendEvent(ui)
    /\ UNCHANGED <<sock, rec, recording, clock_offset, audio, ntp, queue, clock>>

(* AudioTask.onProgressUpdate: a peak, which may be a boom *)
OnPeak ==
    /\ Idle /\ queue # <<>> /\ "audio" \in DOMAIN Head(queue)
    /\ \/ UNCHANGED life
       \/ IF sock # "null" /\ ~located THEN Crash ELSE UNCHANGED life
    /\ queue' = Tail(queue)
    /\ UNCHANGED <<fields, audio, ntp, clock>>

(* NtpTask.onProgressUpdate *)
OnOffset ==
    /\ Idle /\ queue # <<>> /\ "offset" \in DOMAIN Head(queue)
    /\ clock_offset' = Head(queue).offset
    /\ SendEvent(ui)
    /\ queue' = Tail(queue)
    /\ UNCHANGED <<sock, located, rec, recording, audio, ntp, clock>>

Post(m) == Len(queue) < MaxQueue /\ queue' = Append(queue, m)

-----------------------------------------------------------------------------
(* AudioTask.doInBackground *)

AudioAt(k, s) == Alive /\ audio[k].pc = s
AudioGoto(k, s) == audio' = [audio EXCEPT ![k].pc = s]

AudioStart(k) ==
    /\ AudioAt(k, "queued") /\ AudioGoto(k, "check")
    /\ UNCHANGED <<life, fields, ntp, queue, clock>>

MutGoesOn(k) == rec # 0
GoesOn(k) == k \notin cancelled

(* The loop looks at isCancelled, then at rec, and then reads from what rec *)
(* has become by then.                                                      *)
AudioCheck(k) ==
    /\ AudioAt(k, "check")
    /\ AudioGoto(k, IF GoesOn(k) THEN "check_rec" ELSE "ended")
    /\ UNCHANGED <<life, fields, ntp, queue, clock>>

AudioCheckRec(k) ==
    /\ AudioAt(k, "check_rec")
    /\ AudioGoto(k, IF rec # 0 THEN "load_rec" ELSE "ended")
    /\ UNCHANGED <<life, fields, ntp, queue, clock>>

(* An exception of a task: nobody hears of it when the task was cancelled   *)
Throws(k) ==
    IF k \in cancelled THEN AudioGoto(k, "ended") /\ UNCHANGED life
    ELSE Crash /\ UNCHANGED audio

AudioLoadRec(k) ==
    /\ AudioAt(k, "load_rec")
    /\ IF rec = 0 THEN Throws(k)
       ELSE /\ audio' = [audio EXCEPT ![k].pc = "read", ![k].rec = rec]
            /\ UNCHANGED life
    /\ UNCHANGED <<fields, ntp, queue, clock>>

(* read returns a block, or an error when the recorder is released *)
AudioRead(k) ==
    /\ AudioAt(k, "read")
    /\ audio' = IF recording = audio[k].rec
                THEN [audio EXCEPT ![k].pc = "publish",
                                   ![k].late = IF k \in cancelled THEN @ + 1 ELSE @]
                ELSE [audio EXCEPT ![k].pc = "check"]
    /\ UNCHANGED <<life, fields, ntp, queue, clock>>

AudioPublish(k) ==
    /\ AudioAt(k, "publish") /\ AudioGoto(k, "check")
    /\ Post([audio |-> k])
    /\ UNCHANGED <<life, fields, ntp, clock>>

-----------------------------------------------------------------------------
(* NtpTask.doInBackground *)

NtpAt(k, s) == Alive /\ ntp[k].pc = s

NtpStart(k) ==
    /\ NtpAt(k, "queued")
    /\ ntp' = [ntp EXCEPT ![k].pc = "check"]
    /\ UNCHANGED <<life, fields, audio, queue, clock>>

MutNtpGoesOn(k) == TRUE
NtpGoesOn(k) == k \notin cancelled

(* A socket of its own for every exchange: what is still under way from the *)
(* one before reaches nobody.                                               *)
NtpSend(k) ==
    /\ NtpAt(k, "check") /\ NtpGoesOn(k)
    /\ ntp' = [ntp EXCEPT ![k] = [pc |-> "receive", net |-> "request", t1 |-> wall, t2 |-> 0,
                                  age |-> 0, fresh |-> TRUE]]
    /\ UNCHANGED <<life, fields, audio, queue, clock>>

(* The error message needs a Looper, which the thread of a task has not *)
NtpFails(k) ==
    /\ NtpAt(k, "check") /\ NtpGoesOn(k)
    /\ "network" \in Failures
    /\ Crash
    /\ UNCHANGED <<fields, audio, ntp, queue, clock>>

NtpEnd(k) ==
    /\ NtpAt(k, "check") /\ ~NtpGoesOn(k)
    /\ ntp' = [ntp EXCEPT ![k].pc = "ended"]
    /\ UNCHANGED <<life, fields, audio, queue, clock>>

(* Twice the offset: ((T2 - T1) + (T3 - T4)), T1 as the server returns it   *)
MutDoubledOffset(x) == (x.t2 - x.t1) + (wall - x.t2)
DoubledOffset(x) == (x.t2 - x.t1) + (x.t2 - wall)

NtpReceive(k) ==
    /\ NtpAt(k, "receive") /\ ntp[k].net = "response"
    /\ Post([offset |-> [doubled |-> DoubledOffset(ntp[k]), fresh |-> ntp[k].fresh]])
    /\ ntp' = [ntp EXCEPT ![k] = [@ EXCEPT !.pc = "sleep", !.net = "none", !.t1 = 0, !.t2 = 0,
                                           !.age = 0, !.fresh = FALSE]]
    /\ UNCHANGED <<life, fields, audio, clock>>

(* The sleep is over, or interrupted *)
NtpWake(k) ==
    /\ NtpAt(k, "sleep")
    /\ ntp' = [ntp EXCEPT ![k].pc = "check"]
    /\ UNCHANGED <<life, fields, audio, queue, clock>>

-----------------------------------------------------------------------------
(* The server, the network and the clock, which only NTP tasks look at here *)

Serve(k) ==
    /\ Alive /\ ntp[k].net = "request"
    /\ ntp' = [ntp EXCEPT ![k].net = "response", ![k].t2 = now]
    /\ UNCHANGED <<life, fields, audio, queue, clock>>

Lost(x) == [x EXCEPT !.net = "none", !.t1 = 0, !.t2 = 0, !.age = 0, !.fresh = FALSE]
Lose(k) ==
    /\ Alive /\ ntp[k].net # "none"
    /\ ntp' = [ntp EXCEPT ![k] = Lost(@)]
    /\ UNCHANGED <<life, fields, audio, queue, clock>>

Aged(x) ==
    IF x.net = "none" THEN x
    ELSE IF x.age = MaxTrip THEN Lost(x) ELSE [x EXCEPT !.age = @ + 1]
Tick ==
    /\ Alive /\ now < MaxTime /\ "ntp" \in followed
    /\ now' = now + 1
    /\ ntp' = [k \in Tasks |-> Aged(ntp[k])]
    /\ UNCHANGED <<life, fields, audio, queue, followed, skew, steps>>

(* The clock of the device is set *)
StepClock ==
    /\ Alive /\ steps < MaxSteps /\ "ntp" \in followed
    /\ skew' \in Skews \ {skew} /\ steps' = steps + 1
    /\ ntp' = [k \in Tasks |-> [ntp[k] EXCEPT !.fresh = FALSE]]
    /\ queue' = [i \in DOMAIN queue |-> IF "offset" \in DOMAIN queue[i]
                                        THEN [queue[i] EXCEPT !.offset.fresh = FALSE]
                                        ELSE queue[i]]
    /\ clock_offset' = [clock_offset EXCEPT !.fresh = FALSE]
    /\ UNCHANGED <<life, sock, located, rec, recording, audio, followed, now>>

-----------------------------------------------------------------------------
LifeCycle ==
    \/ OnStart \/ StartAudio \/ StartTasks
    \/ StopCancel \/ StopRelease \/ StopNull
    \/ OnDestroy \/ OnLocationChanged
Messages == OnPeak \/ OnOffset
Audio(k) ==
    \/ AudioStart(k) \/ AudioCheck(k) \/ AudioCheckRec(k) \/ AudioLoadRec(k)
    \/ AudioRead(k) \/ AudioPublish(k)
Ntp(k) == NtpStart(k) \/ NtpSend(k) \/ NtpEnd(k) \/ NtpReceive(k) \/ NtpWake(k)

(* A user who does nothing, and the end *)
Rest == UNCHANGED vars

Environment == Tick \/ StepClock \/ \E k \in Tasks : NtpFails(k) \/ Serve(k) \/ Lose(k)

Next ==
    \/ LifeCycle \/ Messages \/ Environment
    \/ \E k \in Tasks : Audio(k) \/ Ntp(k)
    \/ Rest

Spec == Init /\ [][Next]_vars

(* All threads are scheduled, a life cycle callback that has begun goes on, *)
(* and the server answers requests that are not lost.  publishProgress      *)
(* never waits: strong fairness keeps the bound of Post from starving it.   *)
FairSpec ==
    /\ Spec
    /\ WF_vars(Messages) /\ WF_vars(~Idle /\ LifeCycle)
    /\ \A k \in Tasks : SF_vars(Audio(k)) /\ SF_vars(Ntp(k)) /\ WF_vars(Serve(k))

-----------------------------------------------------------------------------
(* Properties *)

(* Every variable has its type *)
TypeOK ==
    /\ ui \in {"created", "start_audio", "start_tasks", "started", "cancel", "release", "null",
               "stopped", "destroyed", "crashed"}
    /\ starts \in 0 .. MaxStarts /\ cancelled \subseteq 1 .. starts
    /\ sock \in {"open", "null", "closed"} /\ located \in BOOLEAN
    /\ rec \in 0 .. MaxStarts /\ recording \in {0, rec}
    /\ audio \in [Tasks -> AudioTask] /\ ntp \in [Tasks -> NtpTask]
    /\ queue \in Seq(Message) /\ Len(queue) <= MaxQueue
    /\ clock_offset \in Offset
    /\ now \in 0 .. MaxTime /\ skew \in Skews /\ steps \in 0 .. MaxSteps

(* A task that is not cancelled has a recorder that records, whatever       *)
(* starts and stops there were before: only a task that is about to end     *)
(* meets a released recorder, or null between its test of rec and its use,  *)
(* where the exception ends a live task's process.                          *)
LiveTaskHasRecorder ==
    Alive => \A k \in Tasks :
        /\ AudioAt(k, "check_rec") \/ AudioAt(k, "load_rec") => k \in cancelled \/ rec = k
        /\ AudioAt(k, "read") => k \in cancelled \/ audio[k].rec = recording

(* A cancelled task takes at most one more block of audio - even when the   *)
(* activity was started again while it was on its way to read, and the      *)
(* block belongs to the recorder of its successor.                          *)
OneLateRead == \A k \in Tasks : audio[k].late <= 1

(* Cancelled tasks end, so that restarts do not pile up threads - except    *)
(* for an NTP task whose request or response was lost.                      *)
TasksEnd ==
    \A k \in Tasks :
        k \in cancelled ~>
            \/ ~Alive
            \/ /\ audio[k].pc = "ended"
               /\ ntp[k].pc = "ended" \/ (ntp[k].pc = "receive" /\ ntp[k].net = "none")

(* The offset that events are corrected by is right up to the round trip,   *)
(* unless the clock was stepped since its request was sent - with old and   *)
(* new tasks measuring side by side, losses and restarts.                   *)
OffsetAccurate ==
    clock_offset.fresh =>
        LET e == clock_offset.doubled + 2 * skew IN -MaxTrip <= e /\ e <= MaxTrip

(* "Time is synchronized with the server" (README.md:7): the NTP task of a  *)
(* running activity always gets on to its next exchange.                    *)
SyncGoesOn ==
    \A k \in Tasks :
        NtpAt(k, "receive") /\ k \notin cancelled
            ~> ntp[k].pc # "receive" \/ k \in cancelled \/ ~Alive
===============================================================================
