------------------------------ MODULE ClientProofs ------------------------------
(***************************************************************************)
(* Proofs about Client, for every size of the blocks and of the pipe,      *)
(* every interval, back-off and clock.                                     *)
(***************************************************************************)
EXTENDS MCClient, DetectorProofs

(* The calls of main in their order *)
LEMMA SetupSteps ==
    /\ Len(Setup) = 10
    /\ Setup[1] = "ntp_init" /\ Setup[2] = "record" /\ Setup[3] = "enqueue" /\ Setup[4] = "pipe"
    /\ Setup[5] = "watch" /\ Setup[6] = "ping" /\ Setup[7] = "int" /\ Setup[8] = "term"
    /\ Setup[9] = "hello" /\ Setup[10] = "run"
    /\ \A i \in 1 .. 10 : Setup[i] = "watch" => i = 5
    /\ \A i \in 1 .. 10 : Setup[i] = "ping" => i = 6
  BY DEF Setup

(* The samples in a block, and the blocks that there can be *)
Samples == 0 .. MaxSamples
Block == [1 .. BLOCKSIZE -> Samples]

(* TypeOK, and the variables it leaves out because others bound them *)
Typed ==
    /\ TypeOK
    /\ platform \in {"android", "linux"}
    /\ recording \in BOOLEAN /\ queued \in BOOLEAN /\ fd \in BOOLEAN
    /\ buf \in Block /\ pipe \in Seq(Block) /\ mic \in Samples
    /\ now \in Nat /\ steady \in BOOLEAN
    /\ \A t \in pending \cup firing : t.interval > 0

(* The recorder has the buffer only while there is room in it, not before   *)
(* audio_dev_init has given it, nor while the callback runs.                *)
BufferOK ==
    /\ queued => fill < BLOCKSIZE
    /\ rstep = 1 => ~queued /\ fill = BLOCKSIZE
    /\ main = "setup" /\ step <= 3 => ~queued /\ fill = 0 /\ rstep = 0

(* The buffer holds the latest samples, those in the pipe are older *)
Written == IF rstep = 1 THEN mic ELSE mic - fill
FilledOK ==
    /\ fill <= mic
    /\ \A i \in 1 .. fill : buf[i] = mic - fill + i
    /\ last <= Written
    /\ \A k \in DOMAIN pipe : pipe[k][BLOCKSIZE] <= Written

(* The timers that set-up has armed so far are pending or firing.  As long  *)
(* as the clock is steady one that fires was due.                           *)
Cbs == {t.cb : t \in pending \cup firing}
TimersOK ==
    /\ \A t, u \in firing : t = u
    /\ steady => \A t \in firing : t.when < now
    /\ steady /\ main # "killed" =>
          /\ main # "setup" \/ step > 1 => "on_ntp_timer" \in Cbs
          /\ main # "setup" \/ step > 6 => "on_tick" \in Cbs

Inv == Typed /\ BufferOK /\ FilledOK /\ SamplesInOrder /\ TimersOK

-----------------------------------------------------------------------------
(* The parts of Typed, by who changes them *)
ControlTyped ==
    /\ main \in {"setup", "entry", "select", "blocked", "fds", "signals", "timers", "handler",
                 "bye", "exited", "killed"}
    /\ step \in 1 .. 10
    /\ walk \subseteq watched \cup caught /\ watched \subseteq {"ntp", "audio"}
    /\ running \in BOOLEAN /\ caught \subseteq Signums /\ signaled \subseteq caught
    /\ backoff \in 0 .. BACKOFF - 1
    /\ event \in Events
    /\ platform \in {"android", "linux"}
RecorderTyped ==
    /\ recording \in BOOLEAN /\ queued \in BOOLEAN /\ fd \in BOOLEAN
    /\ buf \in Block /\ fill \in 0 .. BLOCKSIZE /\ rstep \in 0 .. 1
    /\ pipe \in Seq(Block) /\ Len(pipe) <= PipeSize
    /\ mic \in Samples /\ last \in Samples
TimersTyped ==
    /\ pending \subseteq Timers!Timer /\ firing \subseteq Timers!Timer /\ ~displaced
    /\ now \in Nat /\ steady \in BOOLEAN
    /\ \A t \in pending \cup firing : t.interval > 0

LEMMA TypedParts == Typed <=> ControlTyped /\ RecorderTyped /\ TimersTyped
  BY SetupSteps DEF Typed, TypeOK, ControlTyped, RecorderTyped, TimersTyped, Samples

LEMMA InitInv == Init => Inv
  <1> SUFFICES ASSUME Init PROVE Inv
    OBVIOUS
  <1> USE RecorderAssumption, DetectorAssumption
  <1>1. ControlTyped
    BY DEF Init, ControlTyped, Events
  <1>2. RecorderTyped
    <2>1. 0 \in Samples
      BY DEF Samples
    <2>2. buf \in Block
      BY <2>1 DEF Init, RecorderInit, Block
    <2>3. pipe \in Seq(Block) /\ Len(pipe) = 0
      BY DEF Init, RecorderInit
    <2>4. mic = 0 /\ last = 0 /\ fill = 0 /\ rstep = 0
      BY DEF Init, RecorderInit
    <2>5. recording = FALSE /\ queued = FALSE /\ fd = FALSE
      BY DEF Init, RecorderInit
    <2>6. 0 \in 0 .. BLOCKSIZE /\ 0 \in 0 .. 1 /\ 0 <= PipeSize
      OBVIOUS
    <2> QED
      BY <2>1, <2>2, <2>3, <2>4, <2>5, <2>6 DEF RecorderTyped
  <1>3. TimersTyped
    BY DEF Init, Timers!Init, TimersTyped
  <1>4. BufferOK /\ FilledOK /\ SamplesInOrder
    BY DEF Init, RecorderInit, BufferOK, FilledOK, Written, SamplesInOrder
  <1>5. TimersOK
    BY DEF Init, Timers!Init, TimersOK
  <1> QED
    BY <1>1, <1>2, <1>3, <1>4, <1>5, TypedParts DEF Inv

-----------------------------------------------------------------------------
(* The main thread *)

(* audio_handle leaves a back-off that is not over BACKOFF - 1 *)
LEMMA AudioHandleType ==
    ASSUME ControlTyped, NEW n \in Nat, AudioHandle(n)
    PROVE  backoff' \in 0 .. BACKOFF - 1 /\ event' \in Events
  <1>1. PICK louds \in SUBSET (1 .. n) :
            /\ backoff' = Handled(backoff, n, louds).backoff
            /\ event' \in {"e:boom", "none"}
    BY DEF AudioHandle, Send, SendNothing
  <1>2. Handled(backoff, n, louds) \in State
    BY HandledOK DEF ControlTyped
  <1> QED
    BY <1>1, <1>2 DEF State, Events

LEMMA ControlStep == ControlTyped /\ [Next]_vars => ControlTyped'
  <1> SUFFICES ASSUME ControlTyped, [Next]_vars PROVE ControlTyped'
    OBVIOUS
  <1> USE DEF ControlTyped, Send, SendNothing, Events
  <1>1. CASE NtpInit
    BY <1>1, SetupSteps DEF NtpInit, Calls, Continue
  <1>2. CASE AudioFails
    BY <1>2, SetupSteps DEF AudioFails, Goto, AudioUnchanged, loop
  <1>3. CASE AudioRecord
    BY <1>3, SetupSteps DEF AudioRecord, Calls, Continue, Goto, AudioUnchanged, loop
  <1>4. CASE AudioEnqueue \/ AudioPipe
    <2>1. step + 1 \in 1 .. 10
      BY <1>4, SetupSteps DEF AudioEnqueue, AudioPipe, Calls
    <2> QED
      BY <1>4, <2>1 DEF AudioEnqueue, AudioPipe, Continue, AudioUnchanged, loop
  <1>5. CASE AudioWatch
    BY <1>5, SetupSteps DEF AudioWatch, Calls, Continue
  <1>6. CASE TimerAdd
    BY <1>6, SetupSteps DEF TimerAdd, Calls, Continue, loop
  <1>7. ASSUME NEW n \in {"SIGINT", "SIGTERM"}, SignalAdd(n) PROVE ControlTyped'
    BY <1>7, SetupSteps DEF SignalAdd, Calls, Continue, Signums
  <1>8. CASE Hello
    BY <1>8, SetupSteps DEF Hello, Calls, Continue, loop
  <1>9. CASE MainloopRun
    BY <1>9 DEF MainloopRun, Signums
  <1>10. CASE PollEntry \/ SelectBlock \/ TimersDone
    BY <1>10 DEF PollEntry, SelectBlock, TimersDone, Move, Quiet, loop
  <1>11. CASE SelectReturns
    BY <1>11 DEF SelectReturns, InPipe, MayHaveData, Move, Quiet
  <1>12. CASE OnAudio
    <2>1. backoff' \in 0 .. BACKOFF - 1 /\ event' \in Events
      <3>1. BLOCKSIZE \in Nat /\ 0 .. DspSize \subseteq Nat
        BY RecorderAssumption, ClientAssumption
      <3>2. \E n \in Nat : AudioHandle(n)
        BY <1>12, <3>1 DEF OnAudio
      <3> QED
        BY <3>2, AudioHandleType
    <2> QED
      BY <1>12, <2>1 DEF OnAudio, Move, Serve
  <1>13. CASE OnNtp
    BY <1>13 DEF OnNtp, Move, Serve
  <1>14. CASE FdsDone \/ SigsDone
    BY <1>14 DEF FdsDone, SigsDone, Move, Quiet
  <1>15. ASSUME NEW n \in Signums, SigCall(n) PROVE ControlTyped'
    BY <1>15 DEF SigCall, OnSignal, Move, Quiet
  <1>16. ASSUME NEW t \in pending, TimerCall(t) PROVE ControlTyped'
    BY <1>16 DEF TimerCall, Move, loop
  <1>17. ASSUME NEW t \in firing, TimerReturn(t) PROVE ControlTyped'
    BY <1>17 DEF TimerReturn, Move, loop
  <1>18. CASE Bye
    BY <1>18 DEF Bye, Move, loop
  <1>19. CASE Microphone \/ Callback
    BY <1>19 DEF Microphone, Callback, MainUnchanged, loop
  <1>20. CASE Tick \/ SetBack
    BY <1>20 DEF Tick, SetBack, loop
  <1>21. ASSUME NEW n \in Delivered, Deliver(n) PROVE ControlTyped'
    BY <1>21 DEF Deliver, Quiet
  <1>22. CASE UNCHANGED vars
    BY <1>22 DEF vars, loop
  <1> QED
    BY <1>1, <1>2, <1>3, <1>4, <1>5, <1>6, <1>7, <1>8, <1>9, <1>10, <1>11, <1>12, <1>13, <1>14,
       <1>15, <1>16, <1>17, <1>18, <1>19, <1>20, <1>21, <1>22 DEF Next, Main, Ended

-----------------------------------------------------------------------------
(* The recorder *)

(* Who touches it *)
LEMMA RecorderFrame ==
    ASSUME [Next]_vars,
           ~AudioRecord, ~AudioEnqueue, ~AudioPipe, ~OnAudio, ~Microphone, ~Callback
    PROVE  UNCHANGED <<recorder, last>>
  <1>1. CASE \/ NtpInit \/ AudioFails \/ AudioWatch \/ TimerAdd \/ Hello \/ MainloopRun
             \/ \E n \in {"SIGINT", "SIGTERM"} : SignalAdd(n)
    BY <1>1
       DEF NtpInit, AudioFails, AudioWatch, TimerAdd, Hello, MainloopRun, SignalAdd, AudioUnchanged
  <1>2. CASE \/ PollEntry \/ SelectBlock \/ SelectReturns \/ OnNtp \/ FdsDone \/ SigsDone
             \/ TimersDone \/ Bye
             \/ \E n \in Signums : SigCall(n)
             \/ \E t \in pending : TimerCall(t)
             \/ \E t \in firing : TimerReturn(t)
    BY <1>2
       DEF PollEntry, SelectBlock, SelectReturns, OnNtp, FdsDone, SigsDone, TimersDone, Bye,
           SigCall, TimerCall, TimerReturn, Quiet
  <1>3. CASE Tick \/ SetBack \/ \E n \in Delivered : Deliver(n)
    BY <1>3 DEF Tick, SetBack, Deliver, Quiet
  <1>4. CASE UNCHANGED vars
    BY <1>4 DEF vars
  <1> QED
    BY <1>1, <1>2, <1>3, <1>4 DEF Next, Main, Ended

(* on_audio takes the first block out of the pipe, or leaves it alone *)
LEMMA OnAudioPipe ==
    ASSUME RecorderTyped, OnAudio
    PROVE  /\ UNCHANGED <<recording, queued, buf, fill, rstep, fd, mic>>
           /\ \/ UNCHANGED <<pipe, last>>
              \/ pipe # <<>> /\ pipe' = Tail(pipe) /\ last' = pipe[1][BLOCKSIZE]
  <1>1. CASE platform = "android"
    BY <1>1 DEF OnAudio, ReadPipe, RecorderTyped
  <1>2. CASE platform # "android"
    BY <1>2 DEF OnAudio, recorder
  <1> QED
    BY <1>1, <1>2

LEMMA Tailed ==
    ASSUME NEW S, NEW q \in Seq(S), q # <<>>
    PROVE  /\ Tail(q) \in Seq(S) /\ Len(q) \in Nat \ {0} /\ Len(Tail(q)) = Len(q) - 1
           /\ DOMAIN Tail(q) = 1 .. Len(q) - 1
           /\ \A i \in 1 .. Len(q) - 1 : Tail(q)[i] = q[i + 1]
           /\ q[1] \in S
  OBVIOUS

LEMMA CallbackPipe ==
    ASSUME RecorderTyped, BufferOK, RecorderThread
    PROVE  /\ UNCHANGED <<recording, buf, fd, mic>>
           /\ \/ /\ Full /\ rstep = 0 /\ rstep' = 1 /\ UNCHANGED <<queued, fill>>
                 /\ pipe' = pipe \/ (Len(pipe) < PipeSize /\ pipe' = Append(pipe, buf))
              \/ rstep = 1 /\ rstep' = 0 /\ queued' = TRUE /\ fill' = 0 /\ pipe' = pipe
  <1>0. rstep \in {0, 1}
    BY DEF RecorderTyped
  <1>1. CASE CallbackWrite
    <2>1. rstep = 0 /\ Full /\ rstep' = 1
      BY <1>0, <1>1 DEF CallbackWrite, InCallback, CallbackSteps
    <2>2. UNCHANGED <<recording, queued, buf, fill, fd, mic>>
      BY <1>1 DEF CallbackWrite
    <2>3. pipe' = pipe \/ (Len(pipe) < PipeSize /\ pipe' = Append(pipe, buf))
      <3>1. CASE fd
        BY <1>1, <3>1 DEF CallbackWrite
      <3>2. CASE ~fd
        BY <1>1, <3>2 DEF CallbackWrite
      <3> QED
        BY <3>1, <3>2
    <2> QED
      BY <2>1, <2>2, <2>3
  <1>2. CASE CallbackEnqueue
    <2>1. rstep = 1 /\ rstep' = 0
      BY <1>0, <1>2 DEF CallbackEnqueue, InCallback, CallbackSteps
    <2>2. UNCHANGED <<recording, buf, fd, pipe, mic>> /\ queued' = TRUE /\ fill' = 0
      BY <1>2 DEF CallbackEnqueue, Enqueued
    <2> QED
      BY <2>1, <2>2
  <1> QED
    BY <1>1, <1>2 DEF RecorderThread

LEMMA RecorderStep == RecorderTyped /\ BufferOK /\ [Next]_vars => RecorderTyped'
  <1> SUFFICES ASSUME RecorderTyped, BufferOK, [Next]_vars PROVE RecorderTyped'
    OBVIOUS
  <1> USE RecorderAssumption
  <1>1. CASE AudioRecord
    <2>1. recording' \in BOOLEAN
      BY <1>1 DEF AudioRecord, StartRecording, recorder, RecorderTyped
    <2>2. UNCHANGED <<queued, buf, fill, rstep, fd, pipe, mic, last>>
      BY <1>1 DEF AudioRecord, StartRecording, recorder, AudioUnchanged
    <2> QED
      BY <2>1, <2>2 DEF RecorderTyped
  <1>2. CASE AudioEnqueue
    BY <1>2 DEF AudioEnqueue, EnqueueFirst, Enqueued, AudioUnchanged, RecorderTyped
  <1>3. CASE AudioPipe
    BY <1>3 DEF AudioPipe, OpenPipe, AudioUnchanged, RecorderTyped
  <1>4. CASE OnAudio
    <2>1. UNCHANGED <<recording, queued, buf, fill, rstep, fd, mic>>
      BY <1>4, OnAudioPipe
    <2>2. pipe' \in Seq(Block) /\ Len(pipe') <= PipeSize /\ last' \in Samples
      <3>1. CASE UNCHANGED <<pipe, last>>
        BY <3>1 DEF RecorderTyped
      <3>2. CASE pipe # <<>> /\ pipe' = Tail(pipe) /\ last' = pipe[1][BLOCKSIZE]
        <4>1. pipe' \in Seq(Block) /\ Len(pipe') = Len(pipe) - 1 /\ pipe[1] \in Block
              /\ Len(pipe) \in Nat
          BY <3>2, Tailed DEF RecorderTyped
        <4>2. last' \in Samples
          BY <3>2, <4>1 DEF Block
        <4> QED
          BY <4>1, <4>2 DEF RecorderTyped
      <3> QED
        BY <1>4, <3>1, <3>2, OnAudioPipe
    <2> QED
      BY <2>1, <2>2 DEF RecorderTyped
  <1>5. CASE Microphone
    <2>1. fill + 1 \in 1 .. BLOCKSIZE /\ mic + 1 \in Samples
      BY <1>5 DEF Microphone, Sample, BufferOK, RecorderTyped, Samples
    <2>2. buf' = [buf EXCEPT ![fill + 1] = mic + 1] /\ fill' = fill + 1 /\ mic' = mic + 1
      BY <1>5 DEF Microphone, Sample
    <2>3. buf' \in Block
      BY <2>1, <2>2 DEF RecorderTyped, Block
    <2>4. queued' \in BOOLEAN /\ UNCHANGED <<recording, rstep, fd, pipe, last>>
      BY <1>5 DEF Microphone, Sample, MainUnchanged
    <2>5. fill' \in 0 .. BLOCKSIZE /\ mic' \in Samples
      BY <2>1, <2>2
    <2> QED
      BY <2>3, <2>4, <2>5 DEF RecorderTyped
  <1>6. CASE Callback
    <2>1. RecorderThread /\ UNCHANGED last
      BY <1>6 DEF Callback, MainUnchanged
    <2>2. UNCHANGED <<recording, buf, fd, mic>> /\ queued' \in BOOLEAN
          /\ fill' \in 0 .. BLOCKSIZE /\ rstep' \in 0 .. 1
      <3>1. CASE rstep' = 1 /\ UNCHANGED <<recording, buf, fd, mic, queued, fill>>
        BY <3>1 DEF RecorderTyped
      <3>2. CASE rstep' = 0 /\ queued' = TRUE /\ fill' = 0 /\ UNCHANGED <<recording, buf, fd, mic>>
        BY <3>2
      <3> QED
        BY <2>1, <3>1, <3>2, CallbackPipe
    <2>3. pipe' \in Seq(Block) /\ Len(pipe') <= PipeSize
      <3>1. CASE pipe' = pipe
        BY <3>1 DEF RecorderTyped
      <3>2. CASE Len(pipe) < PipeSize /\ pipe' = Append(pipe, buf)
        <4>1. pipe' \in Seq(Block) /\ Len(pipe') = Len(pipe) + 1 /\ Len(pipe) \in Nat
          BY <3>2 DEF RecorderTyped
        <4> QED
          BY <3>2, <4>1
      <3> QED
        BY <2>1, <3>1, <3>2, CallbackPipe
    <2> QED
      BY <2>1, <2>2, <2>3 DEF RecorderTyped
  <1>7. CASE UNCHANGED <<recorder, last>>
    BY <1>7 DEF recorder, RecorderTyped
  <1> QED
    BY <1>1, <1>2, <1>3, <1>4, <1>5, <1>6, <1>7, RecorderFrame

(* Set-up goes forward *)
LEMMA SetupMoves ==
    ASSUME ControlTyped, [Next]_vars, main' = "setup"
    PROVE  main = "setup" /\ step' >= step
  <1> USE DEF ControlTyped
  <1>1. CASE NtpInit \/ AudioEnqueue \/ AudioPipe \/ AudioWatch \/ TimerAdd \/ Hello
             \/ \E n \in {"SIGINT", "SIGTERM"} : SignalAdd(n)
    BY <1>1
       DEF NtpInit, AudioEnqueue, AudioPipe, AudioWatch, TimerAdd, Hello, SignalAdd, Calls, Continue
  <1>2. CASE AudioFails \/ AudioRecord
    BY <1>2, SetupSteps DEF AudioFails, AudioRecord, Calls, Continue, Goto
  <1>3. CASE MainloopRun \/ TimersDone
    BY <1>3 DEF MainloopRun, TimersDone, Move
  <1>4. CASE \/ PollEntry \/ SelectBlock \/ SelectReturns \/ OnAudio \/ OnNtp \/ FdsDone \/ SigsDone
             \/ Bye
             \/ \E n \in Signums : SigCall(n)
             \/ \E t \in pending : TimerCall(t)
             \/ \E t \in firing : TimerReturn(t)
    BY <1>4
       DEF PollEntry, SelectBlock, SelectReturns, OnAudio, OnNtp, FdsDone, SigsDone, Bye,
           SigCall, TimerCall, TimerReturn, Move
  <1>5. CASE Tick \/ SetBack \/ Microphone \/ Callback \/ UNCHANGED vars
    BY <1>5 DEF Tick, SetBack, Microphone, Callback, MainUnchanged, vars
  <1>6. CASE \E n \in Delivered : Deliver(n)
    BY <1>6 DEF Deliver
  <1> QED
    BY <1>1, <1>2, <1>3, <1>4, <1>5, <1>6 DEF Next, Main, Ended

LEMMA BufferStep == ControlTyped /\ RecorderTyped /\ BufferOK /\ [Next]_vars => BufferOK'
  <1> SUFFICES ASSUME ControlTyped, RecorderTyped, BufferOK, [Next]_vars PROVE BufferOK'
    OBVIOUS
  <1> USE RecorderAssumption
  <1> DEFINE Early == main = "setup" /\ step <= 3
  <1>1. Early' => Early
    BY SetupMoves, ControlStep DEF ControlTyped
  <1>2. CASE AudioEnqueue
    <2>1. step = 3 /\ main = "setup" /\ step' = 4
      BY <1>2, SetupSteps DEF AudioEnqueue, Calls, Continue, ControlTyped
    <2>2. queued' = TRUE /\ fill' = 0 /\ rstep' = rstep /\ rstep = 0
      BY <1>2, <2>1 DEF AudioEnqueue, EnqueueFirst, Enqueued, BufferOK
    <2> QED
      BY <2>1, <2>2 DEF BufferOK
  <1>3. CASE Microphone
    <2>1. queued /\ fill' = fill + 1 /\ queued' = (fill' < BLOCKSIZE) /\ rstep' = rstep
      BY <1>3 DEF Microphone, Sample
    <2>2. ~Early /\ rstep # 1
      BY <2>1 DEF BufferOK
    <2> QED
      BY <1>1, <2>1, <2>2 DEF BufferOK
  <1>4. CASE Callback
    <2>1. RecorderThread
      BY <1>4 DEF Callback
    <2>2. ~Early
      BY <2>1, CallbackPipe DEF BufferOK, Full
    <2>3. CASE Full /\ rstep = 0 /\ rstep' = 1 /\ UNCHANGED <<queued, fill>>
      BY <1>1, <2>2, <2>3 DEF BufferOK, Full
    <2>4. CASE rstep' = 0 /\ fill' = 0
      BY <1>1, <2>2, <2>4 DEF BufferOK
    <2> QED
      BY <2>1, <2>3, <2>4, CallbackPipe
  <1>5. CASE UNCHANGED <<queued, fill, rstep>>
    BY <1>1, <1>5 DEF BufferOK
  <1>6. CASE AudioRecord \/ AudioPipe
    <2>1. UNCHANGED <<queued, fill, rstep>>
      BY <1>6 DEF AudioRecord, StartRecording, AudioPipe, OpenPipe, recorder
    <2> QED
      BY <1>5, <2>1
  <1>7. CASE OnAudio
    BY <1>5, <1>7, OnAudioPipe
  <1> QED
    BY <1>2, <1>3, <1>4, <1>5, <1>6, <1>7, RecorderFrame DEF recorder

-----------------------------------------------------------------------------
(* The order of the samples *)

LEMMA Appended ==
    ASSUME NEW S, NEW q \in Seq(S), NEW e \in S
    PROVE  /\ Len(q) \in Nat /\ DOMAIN Append(q, e) = 1 .. Len(q) + 1
           /\ \A i \in 1 .. Len(q) : Append(q, e)[i] = q[i]
           /\ Append(q, e)[Len(q) + 1] = e
  OBVIOUS

OrderOK == FilledOK /\ SamplesInOrder

(* The callback writes a full buffer: its samples are later than any that  *)
(* were written before.                                                    *)
LEMMA OrderWrite ==
    ASSUME RecorderTyped, OrderOK, Full, rstep = 0, rstep' = 1,
           UNCHANGED <<buf, fill, mic, last>>,
           pipe' = pipe \/ pipe' = Append(pipe, buf)
    PROVE  OrderOK'
  <1> USE RecorderAssumption
  <1>1. BLOCKSIZE \in Nat \ {0} /\ mic \in Nat /\ last \in Nat /\ fill = BLOCKSIZE
    BY DEF RecorderTyped, Samples, Full
  <1>2. Written = mic - BLOCKSIZE /\ Written' = mic
    BY <1>1 DEF Written
  <1>3. last' <= Written' /\ fill' <= mic'
    BY <1>1, <1>2 DEF OrderOK, FilledOK
  <1>4. \A i \in 1 .. fill' : buf'[i] = mic' - fill' + i
    BY DEF OrderOK, FilledOK
  <1>5. CASE pipe' = pipe
    <2>1. \A k \in DOMAIN pipe : pipe[k][BLOCKSIZE] \in Nat
      BY <1>1 DEF RecorderTyped, Block, Samples
    <2>2. \A k \in DOMAIN pipe' : pipe'[k][BLOCKSIZE] <= Written'
      BY <1>1, <1>2, <1>5, <2>1 DEF OrderOK, FilledOK
    <2>3. SamplesInOrder'
      BY <1>5 DEF OrderOK, SamplesInOrder, Whole
    <2> QED
      BY <1>3, <1>4, <2>2, <2>3 DEF OrderOK, FilledOK
  <1>6. CASE pipe' = Append(pipe, buf)
    <2> DEFINE n == Len(pipe)
    <2>1. /\ n \in Nat /\ DOMAIN pipe = 1 .. n /\ DOMAIN pipe' = 1 .. n + 1
          /\ \A k \in 1 .. n : pipe'[k] = pipe[k] /\ pipe[k] \in Block
          /\ pipe'[n + 1] = buf
      BY <1>6, Appended DEF RecorderTyped
    <2> HIDE DEF n
    <2>2. \A i \in 1 .. BLOCKSIZE : buf[i] = mic - BLOCKSIZE + i
      BY <1>1 DEF OrderOK, FilledOK
    <2>3. \A k \in 1 .. n : pipe[k][BLOCKSIZE] \in Nat /\ pipe[k][BLOCKSIZE] <= mic - BLOCKSIZE
      <3>1. \A k \in 1 .. n : pipe[k][BLOCKSIZE] \in Nat
        BY <1>1, <2>1 DEF Block, Samples
      <3>2. \A k \in 1 .. n : pipe[k][BLOCKSIZE] <= mic - BLOCKSIZE
        BY <1>2, <2>1 DEF OrderOK, FilledOK
      <3> QED
        BY <3>1, <3>2
    <2>4. \A k \in DOMAIN pipe' : pipe'[k][BLOCKSIZE] <= Written'
      <3> SUFFICES ASSUME NEW k \in 1 .. n + 1 PROVE pipe'[k][BLOCKSIZE] <= mic
        BY <1>2, <2>1
      <3>1. CASE k \in 1 .. n
        BY <1>1, <2>1, <2>3, <3>1
      <3>2. CASE k = n + 1
        BY <1>1, <2>1, <2>2, <3>2
      <3> QED
        BY <2>1, <3>1, <3>2
    <2>5. Whole(buf)
      <3>1. DOMAIN buf = 1 .. BLOCKSIZE
        BY DEF RecorderTyped, Block
      <3> QED
        BY <1>1, <2>2, <3>1 DEF Whole
    <2>6. buf[1] > mic - BLOCKSIZE /\ last <= mic - BLOCKSIZE
      BY <1>1, <1>2, <2>2 DEF OrderOK, FilledOK
    <2>7. SamplesInOrder'
      <3> SUFFICES ASSUME NEW k \in 1 .. n + 1
                   PROVE  /\ Whole(pipe'[k])
                          /\ pipe'[k][1] > (IF k = 1 THEN last' ELSE pipe'[k - 1][BLOCKSIZE])
        BY <2>1 DEF SamplesInOrder, Whole
      <3>1. CASE k \in 1 .. n
        <4>1. Whole(pipe[k]) /\ pipe[k][1] > (IF k = 1 THEN last ELSE pipe[k - 1][BLOCKSIZE])
          BY <2>1, <3>1 DEF OrderOK, SamplesInOrder
        <4>2. k # 1 => k - 1 \in 1 .. n
          BY <2>1, <3>1
        <4> QED
          BY <2>1, <3>1, <4>1, <4>2
      <3>2. CASE k = n + 1
        <4>1. pipe'[k] = buf
          BY <2>1, <3>2
        <4>2. CASE k = 1
          <5>1. buf[1] \in Nat /\ last' = last
            BY <1>1 DEF RecorderTyped, Block, Samples
          <5>2. buf[1] > last'
            BY <1>1, <2>6, <5>1
          <5> QED
            BY <2>5, <4>1, <4>2, <5>2
        <4>3. CASE k # 1
          <5>1. k - 1 \in 1 .. n /\ pipe'[k - 1] = pipe[k - 1]
            BY <2>1, <3>2, <4>3
          <5>2. buf[1] \in Nat /\ buf[1] = mic - BLOCKSIZE + 1
            BY <1>1, <2>2 DEF RecorderTyped, Block, Samples
          <5>3. buf[1] > pipe[k - 1][BLOCKSIZE]
            BY <1>1, <2>3, <5>1, <5>2
          <5> QED
            BY <2>5, <4>1, <4>3, <5>1, <5>3
        <4> QED
          BY <4>2, <4>3
      <3> QED
        BY <2>1, <3>1, <3>2
    <2> QED
      BY <1>3, <1>4, <2>4, <2>7 DEF OrderOK, FilledOK
  <1> QED
    BY <1>5, <1>6

(* on_audio takes a block: what was the second comes after it *)
LEMMA OrderRead ==
    ASSUME RecorderTyped, OrderOK, UNCHANGED <<buf, fill, rstep, mic>>,
           pipe # <<>>, pipe' = Tail(pipe), last' = pipe[1][BLOCKSIZE]
    PROVE  OrderOK'
  <1> DEFINE n == Len(pipe)
  <1>1. /\ n \in Nat \ {0} /\ DOMAIN pipe = 1 .. n /\ DOMAIN pipe' = 1 .. n - 1
        /\ \A k \in 1 .. n - 1 : pipe'[k] = pipe[k + 1]
    BY Tailed DEF RecorderTyped
  <1> HIDE DEF n
  <1>2. Written' = Written
    BY DEF Written
  <1>3. last' <= Written'
    BY <1>1, <1>2 DEF OrderOK, FilledOK
  <1>4. \A k \in DOMAIN pipe' : pipe'[k][BLOCKSIZE] <= Written'
    <2> SUFFICES ASSUME NEW k \in 1 .. n - 1 PROVE pipe[k + 1][BLOCKSIZE] <= Written
      BY <1>1, <1>2
    <2>1. k + 1 \in DOMAIN pipe
      BY <1>1
    <2> QED
      BY <2>1 DEF OrderOK, FilledOK
  <1>5. SamplesInOrder'
    <2> SUFFICES ASSUME NEW k \in 1 .. n - 1
                 PROVE  /\ Whole(pipe'[k])
                        /\ pipe'[k][1] > (IF k = 1 THEN last' ELSE pipe'[k - 1][BLOCKSIZE])
      BY <1>1 DEF SamplesInOrder, Whole
    <2>1. k + 1 \in 1 .. n /\ k + 1 # 1 /\ (k + 1) - 1 = k /\ pipe'[k] = pipe[k + 1]
      BY <1>1
    <2>2. Whole(pipe[k + 1]) /\ pipe[k + 1][1] > pipe[k][BLOCKSIZE]
      BY <1>1, <2>1 DEF OrderOK, SamplesInOrder
    <2>3. CASE k = 1
      BY <2>1, <2>2, <2>3
    <2>4. CASE k # 1
      <3>1. k - 1 \in 1 .. n - 1 /\ (k - 1) + 1 = k
        BY <1>1, <2>4
      <3>2. pipe'[k - 1] = pipe[k]
        BY <1>1, <3>1
      <3> QED
        BY <2>1, <2>2, <2>4, <3>2
    <2> QED
      BY <2>3, <2>4
  <1> QED
    BY <1>2, <1>3, <1>4, <1>5 DEF OrderOK, FilledOK

LEMMA OrderStep == RecorderTyped /\ BufferOK /\ ControlTyped /\ OrderOK /\ [Next]_vars => OrderOK'
  <1> SUFFICES ASSUME RecorderTyped, BufferOK, ControlTyped, OrderOK, [Next]_vars PROVE OrderOK'
    OBVIOUS
  <1> USE RecorderAssumption
  <1>0. CASE UNCHANGED <<buf, fill, rstep, mic, pipe, last>>
    BY <1>0 DEF OrderOK, FilledOK, Written, SamplesInOrder, Whole
  <1>1. CASE AudioRecord \/ AudioPipe
    BY <1>0, <1>1 DEF AudioRecord, StartRecording, AudioPipe, OpenPipe, recorder, AudioUnchanged
  <1>2. CASE AudioEnqueue
    <2>1. step = 3 /\ main = "setup"
      BY <1>2, SetupSteps DEF AudioEnqueue, Calls, ControlTyped
    <2>2. fill = 0 /\ fill' = 0 /\ UNCHANGED <<buf, rstep, mic, pipe, last>>
      BY <1>2, <2>1 DEF AudioEnqueue, EnqueueFirst, Enqueued, BufferOK, AudioUnchanged
    <2> QED
      BY <1>0, <2>2
  <1>4. CASE OnAudio
    <2>1. UNCHANGED <<buf, fill, rstep, mic>>
      BY <1>4, OnAudioPipe
    <2> QED
      BY <1>0, <1>4, <2>1, OnAudioPipe, OrderRead
  <1>5. CASE Microphone
    <2>1. /\ buf' = [buf EXCEPT ![fill + 1] = mic + 1] /\ fill' = fill + 1 /\ mic' = mic + 1
          /\ UNCHANGED <<rstep, pipe, last>> /\ queued
      BY <1>5 DEF Microphone, Sample, MainUnchanged
    <2>2. rstep # 1 /\ fill + 1 \in 1 .. BLOCKSIZE /\ fill \in Nat /\ mic \in Nat /\ buf \in Block
      BY <2>1 DEF BufferOK, RecorderTyped, Samples
    <2>3. Written' = Written
      BY <2>1, <2>2 DEF Written
    <2>4. fill' <= mic'
      BY <2>1, <2>2 DEF OrderOK, FilledOK
    <2>5. ASSUME NEW i \in 1 .. fill' PROVE buf'[i] = mic' - fill' + i
      <3>1. CASE i = fill + 1
        BY <2>1, <2>2, <3>1 DEF Block
      <3>2. CASE i \in 1 .. fill
        <4>1. buf'[i] = buf[i]
          BY <2>1, <2>2, <3>2 DEF Block
        <4>2. buf[i] = mic - fill + i
          BY <3>2 DEF OrderOK, FilledOK
        <4> QED
          BY <2>1, <2>2, <4>1, <4>2
      <3> QED
        BY <2>1, <2>2, <3>1, <3>2
    <2>6. last' <= Written' /\ \A k \in DOMAIN pipe' : pipe'[k][BLOCKSIZE] <= Written'
      BY <2>1, <2>3 DEF OrderOK, FilledOK
    <2>7. SamplesInOrder'
      BY <2>1 DEF OrderOK, SamplesInOrder, Whole
    <2> QED
      BY <2>4, <2>5, <2>6, <2>7 DEF OrderOK, FilledOK
  <1>6. CASE Callback
    <2>1. RecorderThread /\ UNCHANGED last
      BY <1>6 DEF Callback, MainUnchanged
    <2>2. CASE /\ Full /\ rstep = 0 /\ rstep' = 1 /\ UNCHANGED <<fill, buf, mic>>
               /\ pipe' = pipe \/ pipe' = Append(pipe, buf)
      BY <2>1, <2>2, OrderWrite
    <2>3. CASE rstep = 1 /\ rstep' = 0 /\ fill' = 0 /\ pipe' = pipe /\ UNCHANGED <<buf, mic>>
      <3>1. Written' = Written
        BY <2>3 DEF Written, RecorderTyped, Samples
      <3>2. fill' <= mic' /\ \A i \in 1 .. fill' : buf'[i] = mic' - fill' + i
        BY <2>3 DEF RecorderTyped, Samples
      <3>3. last' <= Written' /\ \A k \in DOMAIN pipe' : pipe'[k][BLOCKSIZE] <= Written'
        BY <2>1, <2>3, <3>1 DEF OrderOK, FilledOK
      <3>4. SamplesInOrder'
        BY <2>1, <2>3 DEF OrderOK, SamplesInOrder, Whole
      <3> QED
        BY <3>2, <3>3, <3>4 DEF OrderOK, FilledOK
    <2> QED
      BY <2>1, <2>2, <2>3, CallbackPipe
  <1>7. CASE UNCHANGED <<recorder, last>>
    BY <1>0, <1>7 DEF recorder
  <1> QED
    BY <1>1, <1>2, <1>4, <1>5, <1>6, <1>7, RecorderFrame

-----------------------------------------------------------------------------
(* The timers *)

Past(i) == main # "setup" \/ step > i

(* Nothing but its own call gets past the set-up of a timer, and a process  *)
(* that was killed does not come back.                                      *)
LEMMA PastStep ==
    ASSUME ControlTyped, [Next]_vars, main' # "killed"
    PROVE  /\ main # "killed"
           /\ Past(1)' => Past(1) \/ NtpInit
           /\ Past(6)' => Past(6) \/ TimerAdd
  <1> USE DEF ControlTyped, Past
  <1>1. CASE \/ NtpInit \/ AudioEnqueue \/ AudioPipe \/ AudioWatch \/ TimerAdd \/ Hello \/ MainloopRun
             \/ \E n \in {"SIGINT", "SIGTERM"} : SignalAdd(n)
    BY <1>1, SetupSteps
       DEF NtpInit, AudioEnqueue, AudioPipe, AudioWatch, TimerAdd, Hello, MainloopRun, SignalAdd,
           Calls, Continue
  <1>2. CASE AudioFails \/ AudioRecord
    BY <1>2, SetupSteps DEF AudioFails, AudioRecord, Calls, Continue, Goto
  <1>3. CASE \/ PollEntry \/ SelectBlock \/ SelectReturns \/ OnAudio \/ OnNtp \/ FdsDone \/ SigsDone
             \/ TimersDone \/ Bye
             \/ \E n \in Signums : SigCall(n)
             \/ \E t \in pending : TimerCall(t)
             \/ \E t \in firing : TimerReturn(t)
    BY <1>3
       DEF PollEntry, SelectBlock, SelectReturns, OnAudio, OnNtp, FdsDone, SigsDone, Bye,
           TimersDone, SigCall, TimerCall, TimerReturn, Move
  <1>4. CASE Tick \/ SetBack \/ Microphone \/ Callback \/ UNCHANGED vars
    BY <1>4 DEF Tick, SetBack, Microphone, Callback, MainUnchanged, Alive, vars
  <1>5. CASE \E n \in Delivered : Deliver(n)
    BY <1>5 DEF Deliver, Alive
  <1> QED
    BY <1>1, <1>2, <1>3, <1>4, <1>5 DEF Next, Main, Ended

(* Who touches the timers and the clock *)
LEMMA TimersFrame ==
    ASSUME [Next]_vars, ~NtpInit, ~TimerAdd, ~Tick, ~SetBack,
           \A t \in pending : ~TimerCall(t), \A t \in firing : ~TimerReturn(t)
    PROVE  UNCHANGED <<pending, firing, displaced, now, steady>>
  <1> USE DEF timers, clock
  <1>1. CASE \/ AudioFails \/ AudioRecord \/ AudioEnqueue \/ AudioPipe \/ AudioWatch \/ Hello \/ MainloopRun
             \/ \E n \in {"SIGINT", "SIGTERM"} : SignalAdd(n)
    BY <1>1
       DEF AudioFails, AudioRecord, AudioEnqueue, AudioPipe, AudioWatch, Hello, MainloopRun, SignalAdd,
           AudioUnchanged
  <1>2. CASE \/ PollEntry \/ SelectBlock \/ SelectReturns \/ OnAudio \/ OnNtp \/ FdsDone \/ SigsDone
             \/ TimersDone \/ Bye
             \/ \E n \in Signums : SigCall(n)
    BY <1>2
       DEF PollEntry, SelectBlock, SelectReturns, OnAudio, OnNtp, FdsDone, SigsDone, TimersDone, Bye,
           SigCall, Quiet
  <1>3. CASE Microphone \/ Callback \/ \E n \in Delivered : Deliver(n)
    BY <1>3 DEF Microphone, Callback, Deliver, MainUnchanged, Quiet
  <1>4. CASE UNCHANGED vars
    BY <1>4 DEF vars
  <1> QED
    BY <1>1, <1>2, <1>3, <1>4 DEF Next, Main, Ended

(* Arming a timer adds its callback to those pending or firing *)
LEMMA SetTimer ==
    ASSUME TimersTyped, NEW c \in {"on_tick", "on_ntp_timer"}, NEW d \in {PingInterval, NtpInterval},
           Timers!Set(c, d)
    PROVE  /\ TimersTyped' /\ Cbs \cup {c} \subseteq Cbs'
           /\ UNCHANGED <<firing, now, steady>>
  <1>1. /\ pending' = Timers!Others(c) \cup {Timers!TimerAt(c, d)}
        /\ UNCHANGED <<firing, displaced, now, steady>>
    BY DEF Timers!Set
  <1>2. Timers!TimerAt(c, d) \in Timers!Timer /\ Timers!TimerAt(c, d).cb = c
        /\ Timers!TimerAt(c, d).interval > 0
    BY ClientAssumption DEF TimersTyped, Timers!TimerAt, Timers!Timer
  <1>3. Timers!Others(c) \subseteq Timers!Timer /\ \A t \in Timers!Others(c) : t.interval > 0
    BY DEF TimersTyped, Timers!Others
  <1>4. TimersTyped'
    BY <1>1, <1>2, <1>3 DEF TimersTyped
  <1>5. \A t \in pending : t.cb = c \/ t \in Timers!Others(c)
    BY DEF Timers!Others
  <1>6. Cbs \cup {c} \subseteq Cbs'
    BY <1>1, <1>2, <1>5 DEF Cbs
  <1> QED
    BY <1>1, <1>4, <1>6

(* A timer whose handler is called stays among them, and so it does when    *)
(* the handler returns, unless the clock was set back.                      *)
LEMMA TimerRuns ==
    ASSUME TimersTyped, TimersOK, NEW t \in pending, Timers!Fire(t)
    PROVE  /\ TimersTyped' /\ Cbs' = Cbs /\ firing' = {t}
           /\ steady => t.when < now
           /\ UNCHANGED <<now, steady>>
  <1>1. /\ firing = {} /\ firing' = {t} /\ pending' = pending \ {t}
        /\ steady => t.when < now
        /\ UNCHANGED <<displaced, now, steady>>
    BY DEF Timers!Fire
  <1>2. pending' \cup firing' = pending \cup firing
    BY <1>1
  <1>3. Cbs' = Cbs
    BY <1>2 DEF Cbs
  <1>4. TimersTyped'
    BY <1>1 DEF TimersTyped
  <1> QED
    BY <1>1, <1>3, <1>4

LEMMA TimerEnds ==
    ASSUME TimersTyped, TimersOK, NEW t \in firing, Timers!ReturnAgain(t)
    PROVE  /\ TimersTyped' /\ firing' = {} /\ UNCHANGED <<now, steady>>
           /\ steady => Cbs \subseteq Cbs'
  <1>1. t \in Timers!Timer /\ t.cb \in {"on_tick", "on_ntp_timer"} /\ t.when \in Nat
        /\ t.interval \in Nat \ {0} /\ now \in Nat
    <2>1. t \in Timers!Timer /\ now \in Nat
      BY DEF TimersTyped
    <2>2. t.cb \in {"on_tick", "on_ntp_timer"}
      BY <2>1 DEF Timers!Timer
    <2>3. t.when \in Nat
      BY <2>1 DEF Timers!Timer
    <2>4. t.interval \in Nat
      BY <2>1 DEF Timers!Timer
    <2>5. t.interval > 0
      BY DEF TimersTyped
    <2> QED
      BY <2>1, <2>2, <2>3, <2>4, <2>5
  <1>2. firing' = {} /\ UNCHANGED <<displaced, now, steady>>
    BY DEF Timers!ReturnAgain
  <1> DEFINE u == Timers!TimerAt(t.cb, t.interval)
  <1>3. u \in Timers!Timer /\ u.cb = t.cb /\ u.interval > 0
    BY <1>1, ClientAssumption DEF Timers!TimerAt, Timers!Timer
  <1>4. Timers!Others(t.cb) \subseteq Timers!Timer /\ \A s \in Timers!Others(t.cb) : s.interval > 0
    BY DEF TimersTyped, Timers!Others
  <1>5. \/ pending' = Timers!Others(t.cb) \cup {u}
        \/ pending' = Timers!Others(t.cb) /\ now + t.interval <= t.when
    BY DEF Timers!ReturnAgain
  <1>6. TimersTyped'
    BY <1>2, <1>3, <1>4, <1>5 DEF TimersTyped
  <1> HIDE DEF u
  <1>7. ASSUME steady PROVE Cbs \subseteq Cbs'
    <2>1. t.when < now
      BY <1>7 DEF TimersOK
    <2>2. ~(now + t.interval <= t.when)
      BY <1>1, <2>1, ClientAssumption
    <2>3. pending' = Timers!Others(t.cb) \cup {u}
      BY <1>5, <2>2
    <2>4. \A s \in pending : s.cb = t.cb \/ s \in Timers!Others(t.cb)
      BY DEF Timers!Others
    <2>5. \A s \in firing : s = t
      BY DEF TimersOK
    <2> QED
      BY <1>3, <2>3, <2>4, <2>5 DEF Cbs
  <1> QED
    BY <1>2, <1>6, <1>7

LEMMA TimersStep ==
    ControlTyped /\ TimersTyped /\ TimersOK /\ [Next]_vars => TimersTyped' /\ TimersOK'
  <1> SUFFICES ASSUME ControlTyped, TimersTyped, TimersOK, [Next]_vars PROVE TimersTyped' /\ TimersOK'
    OBVIOUS
  <1> DEFINE Kept == steady /\ main # "killed" =>
                        /\ Past(1) => "on_ntp_timer" \in Cbs
                        /\ Past(6) => "on_tick" \in Cbs
  <1>1. Kept
    BY DEF TimersOK, Past
  <1>2. /\ main' # "killed" => main # "killed"
        /\ main' # "killed" /\ ~NtpInit /\ Past(1)' => Past(1)
        /\ main' # "killed" /\ ~TimerAdd /\ Past(6)' => Past(6)
    BY PastStep
  <1>3. ASSUME TimersTyped', Kept',
               \A t, u \in firing' : t = u, steady' => \A t \in firing' : t.when < now'
        PROVE  TimersTyped' /\ TimersOK'
    BY <1>3 DEF TimersOK, Past
  <1>4. (\A t, u \in firing : t = u) /\ (steady => \A t \in firing : t.when < now)
    BY DEF TimersOK
  <1>5. ASSUME steady' => steady /\ Cbs \subseteq Cbs', ~NtpInit, ~TimerAdd PROVE Kept'
    BY <1>1, <1>2, <1>5
  <1>6. CASE NtpInit
    <2>1. /\ TimersTyped' /\ Cbs \cup {"on_ntp_timer"} \subseteq Cbs'
          /\ UNCHANGED <<firing, now, steady>>
      BY <1>6, SetTimer DEF NtpInit
    <2>2. ~TimerAdd
      BY <1>6, SetupSteps DEF NtpInit, TimerAdd, Calls, ControlTyped
    <2>3. Kept'
      BY <1>1, <1>2, <2>1, <2>2
    <2> QED
      BY <1>3, <1>4, <2>1, <2>3
  <1>7. CASE TimerAdd
    <2>1. /\ TimersTyped' /\ Cbs \cup {"on_tick"} \subseteq Cbs'
          /\ UNCHANGED <<firing, now, steady>>
      BY <1>7, SetTimer DEF TimerAdd
    <2>2. ~NtpInit
      BY <1>7, SetupSteps DEF NtpInit, TimerAdd, Calls, ControlTyped
    <2>3. Kept'
      BY <1>1, <1>2, <2>1, <2>2
    <2> QED
      BY <1>3, <1>4, <2>1, <2>3
  <1>8. CASE ~NtpInit /\ ~TimerAdd
    <2>1. CASE Tick
      <3>1. now' = now + 1 /\ UNCHANGED <<pending, firing, displaced, steady>>
        BY <2>1 DEF Tick, Timers!Pass
      <3>2. TimersTyped' /\ Cbs' = Cbs
        BY <3>1 DEF TimersTyped, Cbs
      <3>3. steady' => \A t \in firing' : t.when < now'
        BY <1>4, <3>1 DEF TimersTyped, Timers!Timer
      <3> QED
        BY <1>3, <1>4, <1>5, <1>8, <3>1, <3>2, <3>3
    <2>2. CASE SetBack
      <3>1. now' \in 0 .. now - 1 /\ steady' = FALSE /\ UNCHANGED <<pending, firing, displaced>>
        BY <2>2 DEF SetBack, Timers!SetBack
      <3>2. now \in Nat /\ 0 .. now - 1 \subseteq Nat
        BY DEF TimersTyped
      <3>3. TimersTyped'
        BY <3>1, <3>2 DEF TimersTyped
      <3> QED
        BY <1>3, <1>4, <1>5, <1>8, <3>1, <3>3
    <2>3. CASE \E t \in pending : TimerCall(t)
      <3>1. PICK t \in pending : TimerCall(t)
        BY <2>3
      <3>2. /\ TimersTyped' /\ Cbs' = Cbs /\ firing' = {t}
            /\ steady => t.when < now
            /\ UNCHANGED <<now, steady>>
        BY <3>1, TimerRuns DEF TimerCall
      <3> QED
        BY <1>3, <1>5, <1>8, <3>2
    <2>4. CASE \E t \in firing : TimerReturn(t)
      <3>1. PICK t \in firing : TimerReturn(t)
        BY <2>4
      <3>2. /\ TimersTyped' /\ firing' = {} /\ UNCHANGED <<now, steady>>
            /\ steady => Cbs \subseteq Cbs'
        BY <3>1, TimerEnds DEF TimerReturn, HandlerReturns
      <3> QED
        BY <1>3, <1>5, <1>8, <3>2
    <2>5. CASE UNCHANGED <<pending, firing, displaced, now, steady>>
      <3>1. TimersTyped' /\ Cbs' = Cbs
        BY <2>5 DEF TimersTyped, Cbs
      <3> QED
        BY <1>3, <1>4, <1>5, <1>8, <2>5, <3>1
    <2> QED
      BY <1>8, <2>1, <2>2, <2>3, <2>4, <2>5, TimersFrame
  <1> QED
    BY <1>6, <1>7, <1>8

-----------------------------------------------------------------------------
LEMMA InvStep == Inv /\ [Next]_vars => Inv'
  <1> SUFFICES ASSUME Inv, [Next]_vars PROVE Inv'
    OBVIOUS
  <1>1. ControlTyped /\ RecorderTyped /\ TimersTyped /\ BufferOK /\ OrderOK /\ TimersOK
    BY TypedParts DEF Inv, OrderOK
  <1>2. ControlTyped' /\ RecorderTyped' /\ TimersTyped'
    BY <1>1, ControlStep, RecorderStep, TimersStep
  <1>3. BufferOK' /\ OrderOK' /\ TimersOK'
    BY <1>1, BufferStep, OrderStep, TimersStep
  <1>4. Typed'
    BY <1>2, SetupSteps
       DEF Typed, TypeOK, ControlTyped, RecorderTyped, TimersTyped, Samples
  <1> QED
    BY <1>3, <1>4 DEF Inv, OrderOK

LEMMA Invariance == Spec => []Inv
  BY InitInv, InvStep, PTL DEF Spec

(* Every variable keeps its type, and the back-off stays below BACKOFF      *)
THEOREM TypeCorrect == Spec => []TypeOK
  <1>1. Inv => TypeOK
    BY DEF Inv, Typed
  <1> QED
    BY <1>1, Invariance, PTL

(* Each block in the pipe holds consecutive samples, later than those of    *)
(* the block before it and than those handled, whatever the size of the     *)
(* buffer and of the pipe: one buffer is enough, since bqRecorderCallback   *)
(* gives it back only after it has written it.                              *)
THEOREM AudioInOrder == Spec => []SamplesInOrder
  <1>1. Inv => SamplesInOrder
    BY DEF Inv
  <1> QED
    BY <1>1, Invariance, PTL

(* The ping and the NTP timer are pending, or their handler runs, from the  *)
(* end of set-up on, as long as the clock is not set back: whatever their   *)
(* intervals, the audio and the signals.                                    *)
THEOREM TimersStayPending == Spec => []TimersKept
  <1>1. Inv => TimersKept
    <2> SUFFICES ASSUME Inv, steady, main # "setup", main # "killed"
                 PROVE  Cbs = {"on_tick", "on_ntp_timer"}
      BY DEF TimersKept, Cbs
    <2>1. "on_tick" \in Cbs /\ "on_ntp_timer" \in Cbs
      BY DEF Inv, TimersOK
    <2>2. Cbs \subseteq {"on_tick", "on_ntp_timer"}
      BY DEF Inv, Typed, TypeOK, Cbs, Timers!Timer
    <2> QED
      BY <2>1, <2>2
  <1> QED
    BY <1>1, Invariance, PTL

-----------------------------------------------------------------------------
(* The detector with the back-off of the runs *)

ShortProofs == INSTANCE DetectorProofs WITH BACKOFF <- 3

LEMMA SameDetector == \A n \in Nat : Short!OncePerBackoff(n) <=> ShortProofs!OncePerBackoff(n)
  BY DEF Short!OncePerBackoff, ShortProofs!OncePerBackoff, Short!Reported, ShortProofs!Reported,
         Short!Handled, ShortProofs!Handled, Short!NextBackoff, ShortProofs!NextBackoff,
         Short!CountedDown, ShortProofs!CountedDown,
         Short!Reports, ShortProofs!Reports

(* Reports are a back-off apart and miss nothing in between.  It is an      *)
(* instance of OncePerBackoffAlways, which has it for every back-off and    *)
(* every number of samples.                                                 *)
THEOREM ReportsAsPromised == Spec => []ReportsOncePerBackoff
  <1>1. 3 \in Nat \ {0} /\ 8 \in Nat
    OBVIOUS
  <1>2. Short!OncePerBackoff(8)
    BY <1>1, SameDetector, ShortProofs!OncePerBackoffAlways DEF ShortProofs!DetectorAssumption
  <1>3. ReportsOncePerBackoff
    BY <1>2 DEF ReportsOncePerBackoff
  <1> QED
    BY <1>3, PTL

RealProofs == INSTANCE DetectorProofs WITH BACKOFF <- 4000

LEMMA SameListener == \A v0, v : Real!ReportedOnce(v0, v) <=> RealProofs!ReportedOnce(v0, v)
  BY DEF Real!ReportedOnce, RealProofs!ReportedOnce, Real!Listen, RealProofs!Listen,
         Real!Heard, RealProofs!Heard, Real!Ear, RealProofs!Ear, Real!Levels, RealProofs!Levels,
         Real!Average, RealProofs!Average, Real!Exceeds, RealProofs!Exceeds,
         Real!NextBackoff, RealProofs!NextBackoff, Real!CountedDown, RealProofs!CountedDown,
         Real!Reports, RealProofs!Reports,
         Real!THRESHOLD, RealProofs!THRESHOLD, Real!SCALE, RealProofs!SCALE

(* With the constants of the code a noise that goes on is reported once.    *)
(* LastingNoiseOnce has it for every pair of levels and every back-off long *)
(* enough.                                                                  *)
THEOREM LastingNoiseAsPromised == Spec => []LastingNoiseReportedOnce
  <1>1. 4000 \in Nat \ {0} /\ 4000 >= 2188
    OBVIOUS
  <1>2. \A v0, v \in RealProofs!Levels : RealProofs!ReportedOnce(v0, v)
    BY <1>1, RealProofs!LastingNoiseOnce DEF RealProofs!DetectorAssumption
  <1>3. /\ {0, 1, 60, 171, 175} \subseteq RealProofs!Levels
        /\ {0, 80, 81, 140, 141, 251, 252, 255} \subseteq RealProofs!Levels
    BY DEF RealProofs!Levels
  <1>4. LastingNoiseReportedOnce
    BY <1>2, <1>3, SameListener DEF LastingNoiseReportedOnce
  <1> QED
    BY <1>4, PTL
===============================================================================
