------------------------------- MODULE Recorder -------------------------------
(***************************************************************************)
(* Audio capture on Android (client/audio-android.c): the recorder fills   *)
(* the one buffer it is given, a callback on a thread of its own writes it *)
(* into a pipe and gives it back, and the main loop reads the pipe.        *)
(*                                                                         *)
(* The content of a buffer is the number of each of its samples, counting  *)
(* those that were recorded: what the microphone delivers while the        *)
(* recorder has no buffer is lost.  The Android library is external.       *)
(*                                                                         *)
(* A definition whose name starts with Mut is the one that follows it with *)
(* a bug in it; the specification does not use them.                       *)
(***************************************************************************)
EXTENDS Integers, SequencesExt

CONSTANTS
    BLOCKSIZE,     \* samples in the buffer
    PipeSize,      \* blocks that the pipe holds
    MaxSamples     \* bound on the samples that are recorded

ASSUME RecorderAssumption ==
    BLOCKSIZE \in Nat \ {0} /\ PipeSize \in Nat \ {0} /\ MaxSamples \in Nat

VARIABLES
    recording,     \* the recorder was set to recording
    queued,        \* the buffer is in the recorder's queue
    buf, fill,     \* the buffer, and how much of it the recorder has filled
    rstep,         \* steps of the callback that were taken; 0 when it is not running
    fd,            \* whether pipe() has returned; until then fd[1] is 0
    pipe,          \* blocks in the pipe
    mic            \* samples recorded so far

recorder == <<recording, queued, buf, fill, rstep, fd, pipe, mic>>

RecorderInit ==
    /\ recording = FALSE /\ queued = FALSE
    /\ buf = [i \in 1 .. BLOCKSIZE |-> 0] /\ fill = 0
    /\ rstep = 0 /\ fd = FALSE /\ pipe = <<>> /\ mic = 0

(* The recorder stores a sample; it hands the buffer out when it is full *)
Sample ==
    /\ recording /\ queued
    /\ mic < MaxSamples
    /\ mic' = mic + 1
    /\ buf' = [buf EXCEPT ![fill + 1] = mic']
    /\ fill' = fill + 1
    /\ queued' = (fill' < BLOCKSIZE)
    /\ UNCHANGED <<recording, rstep, fd, pipe>>

(* bqRecorderCallback: one step after the other *)
MutCallbackSteps == <<"enqueue", "write">>
CallbackSteps == <<"write", "enqueue">>

Full == fill = BLOCKSIZE /\ ~queued
InCallback(s) == (rstep > 0 \/ Full) /\ CallbackSteps[rstep + 1] = s

(* Blocks while the pipe is full.  Before the pipe is there the block goes  *)
(* to descriptor 0, and is lost.                                            *)
CallbackWrite ==
    /\ InCallback("write") /\ rstep' = (rstep + 1) % 2
    /\ IF fd THEN Len(pipe) < PipeSize /\ pipe' = Append(pipe, buf)
       ELSE UNCHANGED pipe
    /\ UNCHANGED <<recording, queued, buf, fill, fd, mic>>

Enqueued == queued' = TRUE /\ fill' = 0

CallbackEnqueue ==
    /\ InCallback("enqueue") /\ rstep' = (rstep + 1) % 2
    /\ Enqueued
    /\ UNCHANGED <<recording, buf, fd, pipe, mic>>

(* The calls of audio_dev_init: SetRecordState, Enqueue and pipe *)
StartRecording ==
    /\ recording' = TRUE
    /\ UNCHANGED <<queued, buf, fill, rstep, fd, pipe, mic>>

EnqueueFirst ==
    /\ Enqueued
    /\ UNCHANGED <<recording, buf, rstep, fd, pipe, mic>>

OpenPipe ==
    /\ fd' = TRUE
    /\ UNCHANGED <<recording, queued, buf, fill, rstep, pipe, mic>>

(* on_audio: the block that is read *)
ReadPipe(block) ==
    /\ pipe # <<>>
    /\ block = Head(pipe) /\ pipe' = Tail(pipe)
    /\ UNCHANGED <<recording, queued, buf, fill, rstep, fd, mic>>

RecorderThread == CallbackWrite \/ CallbackEnqueue
===============================================================================
