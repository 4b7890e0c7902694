# fwlocator in TLA+

fwlocator locates fireworks by sound: clients listen to a microphone, send an
event with a timestamp for every bang, and synchronise their clocks with a
server so that the timestamps of several clients can be compared. This
directory holds models of its code, the TLC configurations that check them on
small instances and TLAPS proofs for instances of any size.

Paths below are relative to the repository; l. is a line of the file named.

## Inventory

| component | code | state | operations |
|---|---|---|---|
| event loop | `client/mainloop.c`, `list.h` | lists of descriptors, timers, signals; `mainloop_running`; signal dispositions | `fd_add/del`, `timer_add/del`, `signal_add/del`, `start`, `stop`, `poll`, `run`, `cleanup`, the asynchronous signal handler |
| NTP client | `client/ntp.c` | latest request, `t_send`, counter `n` of the burst, ring of 10 offsets | `ntp_init`, `ntp_sync`, `on_ntp_timer` (every 5 s), `on_fd_ntp`, `handle_measurement` |
| client program, event sender | `client/main.c`, `client/event.c` | `clock_offset`, socket | start-up, ping every 60 s, SIGINT/SIGTERM, `event_send` |
| noise detector | `client/audio.c` | running average, `backoff`, `logtab` | `audio_init`, `audio_handle` |
| audio capture | `client/audio-android.c`, `audio-linux.c` | recorder buffer, pipe; `/dev/dsp` | recorder callback on a thread of its own, descriptor callbacks |
| Android activity | `android/.../fwloc.java` | `rec`, `buffer`, `clock_offset`, `location`, `sock`, two background tasks | life cycle, NTP task, audio task, UI callbacks |
| NTP message codec | `android/.../NtpMessage.java` | none | encode, decode |
| web page | `server/www` | none | static page with the vendored OpenLayers library |

How they interact: everything in the C client runs on the one thread of the
event loop, which calls back into the NTP client (descriptor and timer), the
audio code (descriptor) and the program (timer and signals). The NTP client
calls the program back with the average offset; `event_send` adds that offset
to the wall clock. Only POSIX signals and the native Android recorder's thread
interrupt this order. The Java application is a second client with the same
protocol, with two background tasks beside the UI thread. Clients and server
exchange UDP datagrams: NTP (port 123) and events (port 9339). The logger
(`log.h`) is used but is not in the repository, and neither is the server
application that the repository's README describes.

What is hard here:

* The loop's lists change under the walks of the loop itself: from callbacks,
  and from the asynchronous signal handler.
* Timers go by the wall clock, which a program that synchronises clocks must
  expect to be stepped.
* NTP runs over a network that loses, delays, duplicates and reorders.
* The Java tasks share fields with the UI thread without synchronisation.

What makes each component correct:

* Event loop: a registration is served if and only if it is live; a descriptor
  is registered once; a callback has one timer; select never sleeps past a
  timer; periodic timers continue; a caught signal is handled and never kills
  the process; a stop is obeyed.
* NTP client: offsets are computed from the timestamps of one exchange and are
  right up to the round trip; the pool holds the latest measurements and forgets
  what is out of date; losses are made up for.
* Program: its timers are kept and served whatever audio there is; SIGINT and
  SIGTERM end it with `e:bye`, whenever they come.
* Detector: one boom per back-off, none missed for longer than that, a lasting
  noise reported once.
* Capture: samples reach the detector whole, in order and once, and capture never
  dries up.
* Activity: tasks end with the activity, a live task never meets a released
  recorder, the offset is right up to the round trip.
* Codec: a message survives encoding and decoding.

`PROJECT.json` lists the hazards line by line, and which property covers which.

## Modules

| module | what it is |
|---|---|
| `Mainloop` | the event loop, its client and its environment |
| `MCMainloop` | instances of it for TLC |
| `Induction` | induction over numbers in terms of sets, recursive functions, sums |
| `MainloopProofs` | theorems about `Mainloop` |
| `MainloopRefinement` | proof that the timers of `Mainloop` implement `TimerService` |
| `Ntp` | the NTP client, the network and the server |
| `MCNtp` | instances of it for TLC |
| `NtpProofs` | theorems about `Ntp` |
| `TimerService` | abstract: what the event loop promises of timers |
| `Detector` | the noise detector, as operators |
| `DetectorProofs` | theorems about it |
| `Recorder` | the Android recorder, its callback and the pipe |
| `Client` | the client program on top of `TimerService`, `Recorder` and `Detector` |
| `MCClient` | instances of it and of the detector for TLC |
| `ClientProofs` | theorems about `Client`, its `Recorder` and its detector |
| `Activity` | the Android application |
| `ActivityProofs` | theorems about it |
| `NtpMessage` | its codec, as operators |
| `MCActivity` | instances of both for TLC |
| `CodecProofs` | theorems about the codec |

How they fit together: `Mainloop` implements `TimerService` (`TimersAsPromised`,
by the refinement mapping in `Mainloop`), and `Client` uses `TimerService` for its
timers, so that it needs no list, no marks and no sweep. `Client` extends
`Recorder` and `Detector`. `Ntp` has what `Client!OnNtp` only sketches, and
`NtpMessage` justifies that `Activity` takes the timestamps of its messages as
they are.

In a module, an operator whose name starts with `Mut` is a version of the
definition after it with a plausible bug; substituting it shows that the
properties notice. No specification uses them.

### Mainloop

State. `fds`, `timers` and `sigs` are the three linked lists as sequences of
node records. `LIST_ADD_ITEM` pushes at the head; `fds` and `sigs` have that
head at their end, so that the positions of nodes that a walk has still to
visit do not move when a callback registers something. `timers` has its head
first. `caught` is the set of signals whose disposition is
`mainloop_signal_handler`. `pc` says where `mainloop_poll` is, `cursor` which
node its walk has reached, `fdsets` and `wait` what select was given, `pnow`
the poll's copy of the time. `now` is what `gettimeofday` returns.

Actions. The client's operations (`FdAdd`, `FdDel`, `TimerAdd`, `TimerDel`,
`SignalAdd`, `SignalDel`, `SetRunning`) are enabled whenever the program's own
code runs (`ClientTurn`): between polls, and inside a callback, whose call and
return are two actions. A callback may therefore make any sequence of calls.
`PollEntry` to `SweepDone` follow `mainloop_poll` from l.306 to l.440. Between
any two steps the environment may deliver a signal (`Deliver`), let time pass
(`Tick`) or set the clock back (`SetBack`). select may be ready, time out, be
interrupted, or fail. `TimerReturn` is the subtle one: it reschedules and frees
what is then the head of the list, as l.394-408 do, not the node that ran.

History. `fresh` (registered since the fd_sets were built) and `fired` (handler
was called) are fields the C nodes do not have; no guard reads them.

Left out: `tv_usec` that is not normalised for intervals of a second or more
given in milliseconds (no caller gives one), calls of `mainloop_poll`,
`mainloop_run` and `mainloop_cleanup` from inside a callback (no caller does),
signals whose default is to be ignored, and `FD_SETSIZE`. A descriptor callback
and its `user` pointer are one value, and so are a timer's; signal handlers are
told apart by the handler alone, as `mainloop_signal_del` does.
`mainloop_signal_add` inserts its node (l.221) and then calls `signal` (l.223) in
one step; a signal in between finds the default disposition, as one does that
comes just before the call.

### Ntp

State. `req` is the random number of the latest request, `n`, `t_send`,
`offset_pool` and `offset_head` are the fields of `struct ntp`, `clock_offset`
is that of `main.c` as a sum and a count. `net` is the set of datagrams under
way and of the requests that the server works on; `due` and `armed` are the
loop's NTP timer. `now` is the server's clock and `now + skew` the client's;
the offset to be found is `-skew`. Offsets are kept doubled, to be integers.

Actions. `ntp_sync` is split where time can pass unnoticed: the request is sent
(in `OnTimer` or `OnWarmUp`), and `Stamp` then reads the clock. `OnTimer` is
`on_ntp_timer`; `Reschedule` is what the event loop does when it returned 1,
and it loses the timer in the one case in which `Mainloop` shows that it does.
`OnWarmUp` and `OnMeasurement` are the two branches of `on_fd_ntp`, the latter
with `handle_measurement` and `on_ntp_offset`. The network and the server are
not in the repository: `ServerReceive`, `ServerSend`, and `Tick`, which drops
what is older than `MaxTrip`. A datagram of the wrong size, which `on_fd_ntp`
ignores (l.165), is a lost one. When a datagram is taken it may stay
in `net` as a duplicate; `dups` counts them, and `MaxFaults` bounds them together
with the steps of the clock. `StepClock` sets the client's clock at any moment.

History. `filled` counts the slots of the pool that were written; `steady` says
that the clock was not stepped since `t_send` was read; `good` counts the latest
measurements that were made with a steady clock, and none stepped since.

Left out: floating point (a timestamp is a whole number of ticks), the division
by `UINT_MAX` where 2^32 is meant (`lfp_to_d`, an error below a nanosecond), the
wrap-around of NTP's era in 2036, and the deviation reported with the offset.

### TimerService

The state is a set of pending timers, the timer whose handler runs, and a clock.
`Set` is `mainloop_timer_add`, `Cancel` is `mainloop_timer_del`, `Fire`, `Return`
and `ReturnAgain` are the timer phase of `mainloop_poll`. Two things the code does
are part of the promise because no caller can rely on less: a timer whose node
was allocated in vain is gone, and after the clock was set back a periodic timer
whose next expiry is not after the one it ran for is gone too. One thing is
excluded: a handler that arms a timer to expire no later than its own
(`displaced`), which takes the place of the running node and is then freed in
its stead. That needs a clock that is set back, or an interval of 0.

The mapping (`Mainloop!Promise`): `pending` are the unmarked nodes whose handler
was not called; `firing` is the head of the list while the loop is in a timer's
handler; `displaced` says that the head is then not the node that fired, or that
such a node is left in the list unmarked; `steady` that the clock was not set
back so far.

### Detector

`Handled` is `audio_handle` over a block in which any samples may be louder than
the average: control only, with the back-off carried from block to block.
`Listen` is the loop with the running average, over samples of one level, in units
of 2^-20 for the code's double. A level is one byte: `logtab` is 0 to 252 by
construction, but its entry for 0 is the cast of minus infinity, and the sample
-32768 reads one entry past its end, so any byte is possible.

### Recorder and Client

`Recorder`. The buffer's content is the number of each of its samples. `Sample`
fills it; when it is full, the callback (`CallbackWrite`, `CallbackEnqueue`) runs
on the recorder's thread. Writes to the pipe block while it is full. A write
before `pipe()` goes to descriptor 0, since `fd` is a global array, and the block is
lost. While the recorder has no buffer, what the microphone delivers is lost:
the numbers count what is recorded.

`Client`. `main` is where the main thread is: in the set-up, whose calls are the
sequence `Setup`, or in a phase of `mainloop_poll` as in `Mainloop`. `walk` is what
the walk of the descriptors, and then of the signals, has still to reach.
`platform` is chosen at the start: with `audio-linux.c` blocks of any size may be
there at any time, with `audio-android.c` those of the pipe. A signal is possible
at every step, also during set-up, where one without a handler kills. `event` is
the event that the latest step has sent. The history variable `last` is the last
sample that `on_audio` handled.

Left out: the options, `log_init`, the format of events, a failing `pipe()`, a
`/dev/dsp` read of an odd number of bytes, and `bye()`, which nothing calls. A
registration by the event loop and the reading of its clock are one step here;
`Mainloop` has the two apart. Memory for timers never runs out (`Mainloop` has
that). An NTP datagram may come at any time, asked for or not.

### Activity

State. `ui` is where the UI thread is: a life cycle callback is split where it
writes a field that a task reads. `rec` and `clock_offset` are the fields shared
with the tasks. Every start has an audio task, an NTP task and a recorder of its
own. A task's `pc` follows `doInBackground`: `AudioCheck`, `AudioCheckRec` and
`AudioLoadRec` are the three reads of l.186-188, between which `onStop` may run.
`queue` is the message queue of the UI thread. An exception that nobody catches
ends the process (`Crash`): a boom before the first location, an event without a
socket, a Toast on a thread without a Looper. A `null` recorder is met by
cancelled tasks only (`LiveTaskHasRecorder`), and an `AsyncTask` discards the
exception of a task that was cancelled: the task ends, the process does not
(`Throws`).

Every task is followed in one of two kinds of behaviour, `followed`: two audio
tasks, or two NTP tasks. The kinds share no field but `clock_offset`, which the
audio task only adds to its times; their product is out of TLC's reach. One
block of audio posts one message, and its peak may or may not be a boom.

History. `late` counts the blocks that a task read after it was cancelled, `fresh`
says that the clock was not stepped since the exchange began, `age` how long its
datagram is under way.

Left out: drawing, the samples and their average, the field `buffer` that tasks
share, `device_id`, and sends of events that fail, which only show a message.

### NtpMessage

`EncodeTimestamp` takes byte by byte from what is left, through Java's conversion
of a double to int, which saturates, and then to byte. Its noise goes to byte 7
of the message, the low byte of the root delay, as l.397 has it, although the
comment before it speaks of the timestamp's low-order bits (`codec_timestamps`). The
application does not use the root delay. `MessagesSurvive` asks for what the
comment asks for and the code gives: all but the lowest bytes of the timestamps,
which may be noise, and that of the root delay, which is.

Left out: `toString` and its helpers; rounding of decoded doubles.

## Runs

| run | expects | question |
|---|---|---|
| `mainloop_fds` | pass | Is a descriptor registered once, and only served when it was polled and is live? |
| `mainloop_live` | pass | Does a registered signal never kill, reach its handlers, and a stop end the run? Does a live timer that is due fire, also when the clock was set back? |
| `mainloop_timers` | pass | Types, order of the list, one timer per callback, timeout of select; is the fired timer freed and a periodic one kept while the clock is not set back? Is the loop a `TimerService`? |
| `timer_set_back` | violation | Is a periodic timer kept when the clock is set back? |
| `signal_default` | violation | Is the default restored with the last handler? |
| `ntp` | pass | Are offsets and their average accurate, does the pool recover from a step, do bursts stay apart, is a loss retried - when a datagram is duplicated, too? |
| `ntp_slow_server` | violation | Is T1 of the exchange that is measured? |
| `ntp_zero_offset` | violation | Is the average that of the measured offsets? |
| `client` | pass | Do samples arrive whole and in order, does capture go on, does a signal end the program, are timers served and kept? Is a noise reported once per back-off? |
| `activity` | pass | Does a live task always have its recorder, how long do cancelled tasks go on, is the offset accurate? Do messages survive the codec? |
| `activity_lost_response` | violation | Does the application go on synchronising? |
| `codec_timestamps` | violation | Does a request carry its time, before and after the wrap of 2036, and nothing else? |

### Bounds

* `mainloop_fds`: two descriptors, two directions, a handler and a NULL handler,
  at most three nodes. The registrations interfere in pairs (a deleted and a
  live node of one descriptor, a node being served and one added); the third
  node is another descriptor's. Nothing there depends on time, so it stands still.
* `mainloop_timers`: two callbacks, three nodes (a marked and a live node of one
  callback, and another's), intervals 0 and 2, clock from 0 to 3 with one step
  back of any size. That reaches equal expiries, a timer due at once, insertion at
  the head, in the middle and at the end, and a step below every expiry.
  At its bound the clock stands still, but select still counts down. Failing
  allocations are in `mainloop_live` and in the proofs.
* `mainloop_live`: two signals, one of them the loop's own SIGQUIT, two handlers,
  two registrations: two of one signal, or one of either. One flag per node is all a
  delivery changes, so further nodes repeat these. And two callbacks with three timer
  nodes, interval 1 and a clock to 2 with one step back: a timer can be deleted,
  replaced, rescheduled and overtaken by the step. `StaysSeparate` holds back a
  program that would register a timer while it has signal handlers, or the other way
  round: the loop serves either list in a walk of its own, and both at once would
  exceed what TLC can do for liveness. mainloop_run's own handler of SIGQUIT is then
  absent beside timers, as after its failed allocation; the two together are in
  `client`, with their fairness (`SignalEndsRun`, `DueTimerServed`). An interval of
  0, with which a timer keeps the loop busy for ever, is left to `mainloop_timers`
  and the proofs.
* `ntp`: interval 3, pool of 2, trips of at most 1, clock to 9: the burst of
  `ntp_init` and two of the timer, so that the ring wraps around; one step of 5
  ticks, more than an interval, forwards or backwards, at any moment, or one
  duplicate, which suffices for a response that answers an earlier request and for
  one that is measured twice. The proofs have any number of both.
* `ntp_slow_server`, `ntp_zero_offset`: counterexamples of 24 and 13 states.
* `client`: blocks of two samples, so that a block can be torn; a pipe of one
  block, so that the callback waits; two blocks and a half in all, so that the
  third meets a full pipe; both intervals 1 and a clock to 2 with one step
  back, so that each timer expires, is re-armed and can be lost. SIGTERM and
  SIGQUIT stand for the two kinds of signal. Back-off 2 in the loop; the
  properties of the detector are checked with back-off 3 over every way to be
  loud in 8 samples in two blocks, and with the code's 4000 over 8000 samples of
  levels around the threshold.
* `activity`: two starts, so that an old and a new task of one kind meet; a queue
  of one; a clock to 1, trips of at most 1, and a device clock that is right or
  2 behind and stepped once. A further start meets one old task more, which
  differs from the first in nothing. Codec: bytes of 4 values instead of 256,
  which keeps the sign, the carry from byte to byte and the saturation of int;
  every pair of neighbouring bytes takes all values between zeros and ones.
* `activity_lost_response`: one start and no failure but a lost datagram; a
  counterexample of 8 states.
* `codec_timestamps`: the codec has no state, so the first one shows it;
  `NoiseInRootDelay` and `WrappedTimesAreOff` prove that either half of the property
  is violated by itself.

### Fairness

`Mainloop!FairSpec` assumes weak fairness of `Loop` (the process is scheduled
and its callbacks return) and of `Tick` (time goes on). It assumes nothing of
the program's calls, of descriptors and of signals. The runs with liveness have
`SelectFails = FALSE`: when a registered descriptor has been closed, select
fails with EBADF for ever, `mainloop_run` ignores that, and nothing is served.
They have no interval of 0, with which a timer keeps the loop busy for ever.

`Ntp!FairSpec` assumes weak fairness of the client's steps that need no
datagram, and of `Tick`; nothing of the network and the server. `LossIsRetried`
speaks of expiries within the modelled time, and of a clock that is not stepped.

`Client!FairSpec` assumes weak fairness of the main thread, of the recorder's
thread and of time. Of the main thread it assumes what it does by itself
(`Scheduled`): blocked in `select` it goes on when there is a block in the pipe or
the time is over. So nothing is assumed of `/dev/dsp`, the network and whoever
sends signals. That is what an operating system gives. An event loop whose `select`
always has something to serve is allowed, and is why `DueTimerServed` is not
obvious.

`Activity!FairSpec` assumes that the UI thread handles its messages and ends the
callbacks that it began, that the threads of tasks are scheduled, and that the
server answers requests that are not lost. The user need not do anything.
Tasks get strong fairness because the model's queue is bounded and
`publishProgress` never waits: the bound must not starve one of two tasks.

## What the checks found

* `timer_set_back`: if the wall clock is set back while a periodic handler
  runs, the rescheduled timer is inserted before the node that ran, is freed in
  its place, and the old node, marked for removal, follows. The client's NTP
  timer and its ping are periodic timers.
* `signal_default`: `signum_refcount` counts nodes that are marked already.
  Deleting two handlers of one signal in one pass leaves the signal caught by
  nobody.
* `ntp_slow_server`: a round trip above a third of the timer's interval makes two
  bursts share the counter `n`; the response that is measured is then not that
  of the latest request, whose send time is taken as T1.
* `ntp_zero_offset`: an offset of 0 counts as an empty slot, and if nothing else
  was measured `clock_offset` becomes 0/0, and with it the time of every event.
* `activity_lost_response`: `socket.receive` (`fwloc.java:135`) has no timeout, and
  every exchange has a socket of its own. One lost datagram, and this start's NTP
  task waits for ever; `cancel` does not end it either (`TasksEnd` makes this
  exception). The C client is not affected: its timer asks again.
* `codec_timestamps`: the random byte goes to `array[7]`, the low byte of the root
  delay, and not to the low-order bits of the timestamp (`NoiseInRootDelay`). And from
  2036 on the seconds exceed the first byte, what exceeds it is never subtracted,
  and the saturation of int makes ones of the low byte of the seconds and of the
  fraction. The time is off by up to 256 seconds, and not by more
  (`WrappedTimesAreOff`).
* The audio task reads the field `rec` twice, to test it and to call it, and `onStop`
  may set it to `null` in between. The task is cancelled by then, so its exception is
  discarded and it ends, as it was to: that no live task meets `null` is a part of
  `LiveTaskHasRecorder`.
* In `activity`, a cancelled audio task may take one block from the recorder of its
  successor, if the activity is stopped and started while the task is between
  its test of `isCancelled` and its read: `OneLateRead` says that it is one at
  most.

## Proofs

All proofs are for any values of the constants that satisfy the assumption in
the module that declares them (`MainloopAssumption`, `NtpAssumption`,
`RecorderAssumption`, `DetectorAssumption`, `ClientAssumption`,
`ActivityAssumption`, `CodecAssumption`): intervals and bounds are natural numbers, switches are
Boolean, SIGQUIT is a signal, and the pool, the blocks, the pipe, the back-off
and the intervals of the program's own timers are not zero; a byte has an even
number of values, four at least. Every safety property that a passing run checks
is a theorem: the run shows it on an instance, and the theorem on all.

`MainloopProofs`, the inductive invariants:

* `TypeInv` joins `TypeOK` with `CursorOK`: a walk's cursor is within its list, at a
  node while a callback runs, and the timer list is not empty while a timer's
  handler runs. Relative to it `CaughtWhileLive` and `UniqueLiveFd` are inductive.
* `TimerListOK` joins `TimersSorted` and `OneLiveTimer`: insertion keeps a sorted
  list sorted because it stops at the first node that is not sooner
  (`InsertAtProperties`), and the removal of nodes keeps order (`Embeds`:
  what is left is an order-preserving image of what was).
* `FiredInv` strengthens `FiredIsFreed`: while the handler runs and the clock was
  not set back, the node that fired is at the head, nobody else fired, and it
  expired before now; a timer inserted meanwhile expires later, so it cannot
  come before it.
* `FreshInv` strengthens `NoStaleDispatch`: from the return of select to the end
  of the walk, every node at or before the cursor was there when the fd_sets
  were built.

`MainloopRefinement` proves `TimersAsPromised`, that the loop implements
`TimerService`. The initial states correspond, and under `TypeInv`,
`TimerListOK` and `FiredInv` every step of the loop is one of the promise or
changes nothing it speaks of. The list stands for the set of the timers pending
in it (`Timers`), and the lemmas say what each operation on the list does to that
set: inserting adds one (`AddedTimers`, with `TimerAdd` adding at most one since
the callback had none pending), marking takes one away (`MarkedTimers`), the
sweep and the freeing of the head take away what was not pending anyway
(`RemovedTimers`, `TailTimers`). The hard steps are `TimerCall`, where `FiredInv`
says that no node that fired before is left, and `TimerReturn`, which
reschedules and frees whatever is at the head by then (`PromiseReturn`): the
mapping calls the loop displaced exactly where that is not the node that fired
or where such a node stays behind (`Stray`), and no other return loses a timer
that the promise keeps.

`NtpProofs`:

* `NetInTime`: no datagram is older than `MaxTrip`, and the server's stamps are in
  order.
* `BurstFits`: what is under way, with the rest of its burst at one trip
  per exchange, ends before the timer is due; so the network is empty when the
  timer fires. This is what `BurstsDoNotOverlap` needs to be inductive.
* `StampedLast`: outside `ntp_sync` and with a steady clock, T1 was read after every
  datagram under way was sent, that of the latest request or an older one. With
  `NetInTime` this bounds the error of an offset, by twice the trip, since T1 is
  read late - for duplicates and mismatched responses as well.
* `PoolRecovers` follows by the shift of the ring (`LatestShifts`).
* `AverageOK`: the pool fills from slot 0, and from the first measurement on
  `clock_offset` is the average of what is in it. When all of that was measured
  with a steady clock each offset is accurate (`AllAccurate`), and so is their average, by the
  bounds of a sum (`SumBounds`): `ClockOffsetAccurate`.

`DetectorProofs`:

* `OncePerBackoffAlways`, by induction over the samples: the back-off counts down
  what is left of `BACKOFF` samples since the latest report, so two reports are
  never closer, and a loud sample that is not reported is within `BACKOFF` of one.
* `LastingNoiseOnce`, for every pair of levels and at the code's scale: while a
  sample is above the threshold the gap between it and the average shrinks by
  83886 units a sample at least (`GapShrinks`), so that it is below the threshold
  after 2188 samples at most, and once it is it stays (`QuietStays`). A back-off of
  2188 is enough; the code's is 4000. TLC checks levels around the threshold.

`ClientProofs`, with the parts of its inductive invariant:

* `BufferOK`: the recorder has the buffer only while there is room in it, and
  neither before `audio_dev_init` nor while the callback runs. `FilledOK`: the
  buffer holds the latest samples, the pipe only older ones, and `on_audio` was
  given none of either. `SamplesInOrder` is inductive with these two.
* `TimersOK`: what the set-up has armed so far is pending or firing, one timer fires
  at a time, and while the clock is steady it was due, so that `TimerService` keeps
  a periodic one. `TimersKept` follows.
* The two properties of the detector follow from `DetectorProofs`.

`ActivityProofs`:

* `LifeOK`: what `rec`, `recording` and `cancelled` are at each place of the UI thread.
  `TasksOK`: tasks to come do not exist, and a cancelled one does not wait to begin.
  `ReadsOwn`: a task that is not cancelled reads from its own recorder.
  `LiveTaskHasRecorder` follows from these.
* `LateOK`: a task that took a late block ends at its next test: `OneLateRead`.
* `ExchangeOK`: without a step of the clock T1 is as long ago as the datagram is
  old, and T2 between T1 and now; `QueueAccurate`: the offsets that are posted and
  not yet delivered are accurate. `OffsetAccurate` is inductive with these.

`CodecProofs`, which rest on division with a remainder, since the prover knows
little of `\div` and `%` by a constant (`Quotient`, `DigitOf`, `Digits`):

* A byte that is cut down to its sign and taken as unsigned again is the rest modulo
  `BASE` (`UnsignedByte`).
* What is left of a timestamp after `i` bytes is below `BASE^(8-i)` and differs from
  it by a multiple of that (`LeftOver`), so nothing is left after eight
  (`NothingLeft`). No byte meets the limit of int on the way (`TakenFits`), and what
  decoding adds up is what encoding took away (`Telescope`).
* With the layout of the message (`Layout`), the shifts of the delays and the bits of
  the flags, every message comes back but for the noise in its root delay
  (`EveryMessageDecoded`), and so with any noise it survives: `EveryMessageSurvives`.
  `MessagesSurvive` says so of the messages that TLC tries.
* After the wrap the first three bytes are taken as before it (`TakenAfterWrap`); from
  then on the quotient exceeds int whatever has been taken, the byte is all ones
  (`Ones`), and what is left is known in closed form (`LeftOfOnes`). Hence
  `WrappedTimesAreOff`: how far that defect goes.

What is computed by recursion is proved about in `Induction`: a set of natural
numbers with 0 and with the successor of each of its members has them all
(`SetInduction`), a recursive function exists and satisfies its equation
(`Recursion`, `RecursionOnNat`), and a fold that adds is a sum, with its type
and bounds (`FoldSums`, `SumType`, `SumBounds`). The library's theorems state this with an
operator as a parameter, which the provers at hand cannot instantiate; a set can
be.

Only model-checked:

* all liveness (`SignalHandled`, `StopEndsRun`, `DueTimerFires`, `LossIsRetried`,
  `TasksEnd` and the others of `Client` and `Activity`): fairness and ENABLED are out
  of the prover's reach;
* what the runs that expect a violation refute.

## Not modelled

* `server/www`: a static page that shows a map, and the vendored and minified
  OpenLayers library, which makes up most of the repository's JavaScript. The page
  holds no state that a property could be about, and the library is not this
  project's code.
* The server application that the README describes (multilateration) and the
  logger (`log.h`): neither is in the repository.
* Build files, resources and manifests: no behaviour at run time.
* In the modelled components, what each section above lists as left out.

By lines, the modules stand for about 70% of the code of the C client and the
Java application (96% of `mainloop.c`); the rest is declarations, logging,
drawing and formatting.

## Plan

1. Done: every component of the two clients is modelled and checked.
2. Done: every safety property that a run checks is proved, and so is that the
   event loop implements its promise.
3. Next: the hazards that no property covers yet (`PROJECT.json` has them with their
   notes), first of all the signal handler that another one deletes in the same
   pass; and the timer of `Ntp`, whose clock may also be stepped forwards, against
   a `TimerService` with such steps.
