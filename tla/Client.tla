-------------------------------- MODULE Client --------------------------------
(***************************************************************************)
(* The client program (client/main.c, event.c) on top of its event loop,   *)
(* with the audio capture that feeds it (audio-android.c or audio-linux.c, *)
(* audio.c).                                                               *)
(*                                                                         *)
(* The main thread sets everything up, one call at a time, and then passes *)
(* through the phases of mainloop_poll.  Beside it run the recorder and    *)
(* its callback (Recorder), the wall clock, the network and whoever        *)
(* sends signals.  Timers are those that the event loop promises           *)
(* (TimerService); Mainloop is shown to keep that promise, and has the     *)
(* details of registration and of signals.  Ntp has those of on_fd_ntp.    *)
(*                                                                         *)
(* A definition whose name starts with Mut is the one that follows it with *)
(* a bug in it; the specification does not use them.                       *)
(***************************************************************************)
EXTENDS Detector, Recorder, FiniteSets

CONSTANTS
    PingInterval, NtpInterval,  \* 60 and 5 seconds, in clock ticks
    DspSize,                    \* samples that /dev/dsp returns at most
    Delivered,                  \* the signals that may come
    MaxSetbacks, MaxTime        \* bounds on the clock

ASSUME ClientAssumption ==
    /\ PingInterval \in Nat \ {0} /\ NtpInterval \in Nat \ {0}
    /\ Delivered \subseteq {"SIGINT", "SIGTERM", "SIGQUIT"}
    /\ DspSize \in Nat /\ MaxSetbacks \in Nat /\ MaxTime \in Nat

VARIABLES
    platform,      \* what the program was built for
    main,          \* where the main thread is
    step,          \* the next call of main, during set-up
    watched,       \* descriptors registered with the loop
    walk,          \* what the walk of the descriptors or signals has still to reach
    running,       \* mainloop_running
    caught,        \* signals with a handler
    signaled,      \* signals taken and not yet handled
    backoff,       \* audio.c
    event,         \* the event that the latest step has sent
    pending, firing, displaced, now, steady,    \* TimerService
    setbacks,      \* how often the clock was set back
    last           \* history: the latest sample that on_audio has handled

Timers == INSTANCE TimerService WITH
    TimerCbs <- {"on_tick", "on_ntp_timer"},
    Intervals <- {PingInterval, NtpInterval},
    AllocFails <- FALSE

loop   == <<watched, walk, running, caught, signaled>>
timers == <<pending, firing, displaced>>
clock  == <<now, steady, setbacks>>
vars   == <<recorder, platform, main, step, loop, backoff, event, timers, clock, last>>

Signums == {"SIGINT", "SIGTERM", "SIGQUIT"}
Events == {"none", "e:hello", "e:ping", "e:ntp", "e:boom", "e:bye"}

Init ==
    /\ RecorderInit
    /\ Timers!Init
    /\ platform \in {"android", "linux"}
    /\ main = "setup" /\ step = 1
    /\ watched = {} /\ walk = {} /\ running = TRUE /\ caught = {} /\ signaled = {}
    /\ backoff = 0 /\ event = "none"
    /\ setbacks = 0 /\ last = 0

-----------------------------------------------------------------------------
(* main, up to mainloop_run; audio_dev_init is "record" to "watch" *)

MutSetup ==
    <<"ntp_init", "record", "enqueue", "watch", "pipe", "ping", "int", "term", "hello", "run">>
Setup ==
    <<"ntp_init", "record", "enqueue", "pipe", "watch", "ping", "int", "term", "hello", "run">>

Calls(s) == main = "setup" /\ Setup[step] = s
Goto(s) == main' = "setup" /\ step' = CHOOSE i \in 1 .. Len(Setup) : Setup[i] = s
Continue == main' = "setup" /\ step' = step + 1

Send(e) == event' = e
SendNothing == event' = "none"

(* ntp_init watches the socket, arms the timer and asks for the first time; *)
(* event_init before it only opens a socket.                                *)
NtpInit ==
    /\ Calls("ntp_init") /\ Continue
    /\ watched' = watched \cup {"ntp"}
    /\ Timers!Set("on_ntp_timer", NtpInterval)
    /\ SendNothing
    /\ UNCHANGED <<recorder, platform, walk, running, caught, signaled, backoff, setbacks, last>>

AudioUnchanged ==
    SendNothing /\ UNCHANGED <<platform, loop, backoff, timers, clock, last>>

(* audio_dev_init gives up at a call that fails: on Android any of those up *)
(* to Enqueue, on Linux open.                                               *)
AudioFails ==
    /\ main = "setup" /\ Setup[step] \in {"record", "enqueue"}
    /\ platform = "linux" => Setup[step] = "record"
    /\ Goto("ping")
    /\ UNCHANGED recorder /\ AudioUnchanged

AudioRecord ==
    /\ Calls("record")
    /\ IF platform = "android" THEN Continue /\ StartRecording
       ELSE Goto("watch") /\ UNCHANGED recorder
    /\ AudioUnchanged

AudioEnqueue == Calls("enqueue") /\ Continue /\ EnqueueFirst /\ AudioUnchanged

AudioPipe == Calls("pipe") /\ Continue /\ OpenPipe /\ AudioUnchanged

(* mainloop_fd_add(fd[0]); before pipe(), fd[0] is descriptor 0 *)
AudioWatch ==
    /\ Calls("watch") /\ Continue
    /\ watched' = IF fd \/ platform = "linux" THEN watched \cup {"audio"} ELSE watched
    /\ SendNothing
    /\ UNCHANGED <<recorder, platform, walk, running, caught, signaled, backoff, timers, clock, last>>

TimerAdd ==
    /\ Calls("ping") /\ Continue
    /\ Timers!Set("on_tick", PingInterval)
    /\ SendNothing
    /\ UNCHANGED <<recorder, platform, loop, backoff, setbacks, last>>

SignalAdd(n) ==
    /\ Calls(IF n = "SIGINT" THEN "int" ELSE "term") /\ Continue
    /\ caught' = caught \cup {n}
    /\ SendNothing
    /\ UNCHANGED <<recorder, platform, watched, walk, running, signaled, backoff, timers, clock, last>>

Hello ==
    /\ Calls("hello") /\ Continue
    /\ Send("e:hello")
    /\ UNCHANGED <<recorder, platform, loop, backoff, timers, clock, last>>

MainloopRun ==
    /\ Calls("run")
    /\ main' = "entry"
    /\ running' = TRUE /\ caught' = caught \cup {"SIGQUIT"}
    /\ SendNothing
    /\ UNCHANGED <<recorder, platform, step, watched, walk, signaled, backoff, timers, clock, last>>

-----------------------------------------------------------------------------
(* mainloop_poll *)

Move(from, to) == main = from /\ main' = to /\ UNCHANGED step

Quiet == SendNothing /\ UNCHANGED <<recorder, platform, backoff, timers, clock, last>>

PollEntry ==
    /\ running
    /\ Move("entry", "select")
    /\ UNCHANGED loop /\ Quiet

(* Between "select" and "blocked" a signal comes too early to interrupt *)
SelectBlock ==
    /\ Move("select", "blocked")
    /\ UNCHANGED loop /\ Quiet

(* select has waited for the first timer, or 10000 s without one.  At the   *)
(* bound MaxTime the modelled clock stands still, but not select's.         *)
TimedOut == pending = {} \/ now = MaxTime \/ \E t \in pending : t.when <= now

(* Blocks in the pipe are ready.  Other data may be there at any time: late *)
(* and duplicated datagrams too, and what /dev/dsp has.                     *)
InPipe == {f \in watched \cap {"audio"} : pipe # <<>>}
MayHaveData == {f \in watched : f = "audio" => platform = "linux"}

SelectReturns ==
    /\ walk' \in {InPipe \cup data : data \in SUBSET MayHaveData}
    /\ walk' # {} \/ TimedOut
    /\ Move("blocked", "fds")
    /\ UNCHANGED <<watched, running, caught, signaled>> /\ Quiet

MutServe(f) == walk' = {g \in walk : g # f \/ g \in MayHaveData}
Serve(f) == walk' = walk \ {f}

(* audio_handle over a block: any of its samples may exceed the average *)
AudioHandle(samples) ==
    \E louds \in SUBSET (1 .. samples) :
        LET h == Handled(backoff, samples, louds)
        IN  /\ backoff' = h.backoff
            /\ IF h.booms # {} THEN Send("e:boom") ELSE SendNothing

(* on_audio, or on_fd_audio: half as many samples as there were bytes, none *)
(* after an error.  The walk comes to it first: it was registered last.     *)
OnAudio ==
    /\ Move("fds", "fds")
    /\ "audio" \in walk
    /\ IF platform = "android"
       THEN \E block \in Range(pipe) :
                ReadPipe(block) /\ AudioHandle(BLOCKSIZE) /\ last' = block[BLOCKSIZE]
       ELSE \E samples \in 0 .. DspSize :
                AudioHandle(samples) /\ UNCHANGED <<recorder, last>>
    /\ Serve("audio")
    /\ UNCHANGED <<platform, watched, running, caught, signaled, timers, clock>>

(* on_fd_ntp: asks again within a burst, ends it with a measurement of      *)
(* which on_ntp_offset tells the server, or ignores the datagram            *)
OnNtp ==
    /\ Move("fds", "fds")
    /\ "ntp" \in walk /\ "audio" \notin walk
    /\ Send("e:ntp") \/ SendNothing
    /\ Serve("ntp")
    /\ UNCHANGED <<recorder, platform, watched, running, caught, signaled, backoff, timers, clock,
                   last>>

FdsDone ==
    /\ walk = {}
    /\ Move("fds", "signals")
    /\ walk' = caught
    /\ UNCHANGED <<watched, running, caught, signaled>> /\ Quiet

(* on_sigint stops the loop; on_sigquit, which the loop registers, does not *)
MutOnSignal(n) ==
    /\ signaled' = {}
    /\ running' = IF n \in {"SIGINT", "SIGTERM"} THEN FALSE ELSE running
OnSignal(n) ==
    /\ signaled' = signaled \ {n}
    /\ running' = IF n \in {"SIGINT", "SIGTERM"} THEN FALSE ELSE running

(* The signals whose handler was registered after that of n come first *)
Ahead(n) ==
    IF n = "SIGINT" THEN {"SIGTERM", "SIGQUIT"} ELSE IF n = "SIGTERM" THEN {"SIGQUIT"} ELSE {}

SigCall(n) ==
    /\ Move("signals", "signals")
    /\ n \in walk \cap signaled
    /\ Ahead(n) \cap walk \cap signaled = {}
    /\ OnSignal(n)
    /\ walk' = walk \ (Ahead(n) \cup {n})
    /\ UNCHANGED <<watched, caught>> /\ Quiet

SigsDone ==
    /\ walk \cap signaled = {}
    /\ Move("signals", "timers")
    /\ walk' = {}
    /\ UNCHANGED <<watched, running, caught, signaled>> /\ Quiet

TimerCall(t) ==
    /\ t.when < now
    /\ Move("timers", "handler")
    /\ Timers!Fire(t)
    /\ SendNothing
    /\ UNCHANGED <<recorder, platform, loop, backoff, setbacks, last>>

(* on_tick sends a ping, on_ntp_timer asks the server; both return 1 *)
MutHandlerReturns(t) == IF t.cb = "on_tick" THEN Timers!Return(t) ELSE Timers!ReturnAgain(t)
HandlerReturns(t) == Timers!ReturnAgain(t)

TimerReturn(t) ==
    /\ Move("handler", "timers")
    /\ HandlerReturns(t)
    /\ IF t.cb = "on_tick" THEN Send("e:ping") ELSE SendNothing
    /\ UNCHANGED <<recorder, platform, loop, backoff, setbacks, last>>

(* Past the timers and the sweep; mainloop_run looks at mainloop_running *)
TimersDone ==
    /\ \A t \in pending : t.when >= now
    /\ Move("timers", IF running THEN "entry" ELSE "bye")
    /\ UNCHANGED loop /\ Quiet

Bye ==
    /\ Move("bye", "exited")
    /\ Send("e:bye")
    /\ UNCHANGED <<recorder, platform, loop, backoff, timers, clock, last>>

-----------------------------------------------------------------------------
(* What goes on beside the main thread *)

Alive == main \notin {"exited", "killed"}

MainUnchanged == SendNothing /\ UNCHANGED <<platform, main, step, loop, backoff, timers, clock, last>>

Microphone == Alive /\ Sample /\ MainUnchanged
Callback == Alive /\ RecorderThread /\ MainUnchanged

Tick ==
    /\ Alive /\ now < MaxTime
    /\ Timers!Pass
    /\ SendNothing
    /\ UNCHANGED <<recorder, platform, main, step, loop, backoff, setbacks, last>>

(* The wall clock is set back *)
SetBack ==
    /\ Alive /\ setbacks < MaxSetbacks
    /\ Timers!SetBack
    /\ setbacks' = setbacks + 1
    /\ SendNothing
    /\ UNCHANGED <<recorder, platform, main, step, loop, backoff, last>>

(* mainloop_signal_handler marks the signal and interrupts select, unless   *)
(* that has data to return; a signal that is not caught ends the process.   *)
Deliver(n) ==
    /\ Alive
    /\ IF n \in caught
       THEN /\ signaled' = signaled \cup {n}
            /\ IF main = "blocked" /\ InPipe = {} THEN main' = "signals" /\ walk' = caught
               ELSE UNCHANGED <<main, walk>>
       ELSE main' = "killed" /\ UNCHANGED <<signaled, walk>>
    /\ UNCHANGED <<step, watched, running, caught>> /\ Quiet

Ended == ~Alive /\ UNCHANGED vars

Main ==
    \/ NtpInit \/ AudioFails \/ AudioRecord \/ AudioEnqueue \/ AudioPipe \/ AudioWatch
    \/ TimerAdd \/ Hello \/ MainloopRun
    \/ \E n \in {"SIGINT", "SIGTERM"} : SignalAdd(n)
    \/ PollEntry \/ SelectBlock \/ SelectReturns
    \/ OnAudio \/ OnNtp \/ FdsDone
    \/ SigsDone \/ \E n \in Signums : SigCall(n)
    \/ \E t \in pending : TimerCall(t)
    \/ \E t \in firing : TimerReturn(t)
    \/ TimersDone \/ Bye

Next ==
    \/ Main \/ Microphone \/ Callback
    \/ Tick \/ SetBack
    \/ \E n \in Delivered : Deliver(n)
    \/ Ended

Spec == Init /\ [][Next]_vars

(* Both threads are scheduled, and time goes on: select returns when there  *)
(* is a block in the pipe or its time is over.  Nothing is assumed of the   *)
(* microphone, the network, /dev/dsp and the signals.                       *)
Scheduled == Main /\ (main = "blocked" => InPipe # {} \/ TimedOut)
FairSpec == Spec /\ WF_vars(Scheduled) /\ WF_vars(Callback) /\ WF_vars(Tick)

-----------------------------------------------------------------------------
(* Properties *)

(* Every variable has its type *)
TypeOK ==
    /\ main \in {"setup", "entry", "select", "blocked", "fds", "signals", "timers", "handler",
                 "bye", "exited", "killed"}
    /\ step \in 1 .. Len(Setup)
    /\ walk \subseteq watched \cup caught /\ watched \subseteq {"ntp", "audio"}
    /\ running \in BOOLEAN /\ caught \subseteq Signums /\ signaled \subseteq caught
    /\ backoff \in 0 .. BACKOFF - 1
    /\ event \in Events
    /\ pending \subseteq Timers!Timer /\ firing \subseteq Timers!Timer /\ ~displaced
    /\ fill \in 0 .. BLOCKSIZE /\ rstep \in 0 .. 1 /\ Len(pipe) <= PipeSize
    /\ last \in 0 .. MaxSamples

(* A block that the main thread reads holds consecutive samples, all of     *)
(* them later than those it has handled: the recorder does not refill its   *)
(* only buffer before the callback has copied it, and no block is handled   *)
(* twice or out of order.                                                   *)
Whole(block) == \A i \in DOMAIN block : block[i] = block[1] + i - 1
SamplesInOrder ==
    \A k \in DOMAIN pipe :
        /\ Whole(pipe[k])
        /\ pipe[k][1] > (IF k = 1 THEN last ELSE pipe[k - 1][BLOCKSIZE])

(* Capture does not dry up: a full buffer is given back to the recorder,    *)
(* although the callback may wait for room in the pipe and the main thread  *)
(* has other things to do.                                                  *)
CaptureGoesOn == Full ~> ~Full \/ ~Alive

(* SIGINT and SIGTERM end the program with e:bye, as soon as their handler  *)
(* is registered: also when they come before mainloop_run, which sets       *)
(* mainloop_running, or right before select, and whatever audio there is.   *)
SignalEndsRun ==
    \A n \in {"SIGINT", "SIGTERM"} :
        n \in signaled ~> (main = "exited" /\ event = "e:bye") \/ main = "killed"

(* A timer that is due is served, however much audio there is *)
Due(c) == \E t \in pending : t.cb = c /\ t.when < now
DueTimerServed ==
    \A c \in {"on_tick", "on_ntp_timer"} : Due(c) ~> ~Due(c) \/ ~running \/ ~Alive

(* Once set up, the ping and the NTP timer are pending for good, unless the *)
(* clock is set back.                                                       *)
TimersKept ==
    steady /\ main \notin {"setup", "killed"} =>
        {t.cb : t \in pending \cup firing} = {"on_tick", "on_ntp_timer"}
===============================================================================
