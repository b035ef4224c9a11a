# A verification development for OpenSpectrum

OpenSpectrum is an SDR spectrum analyser: a receiver thread delivers I/Q
samples, the render loop shows their spectrum and a waterfall, and a logger
writes captures to disk. This directory holds TLA+ models of the parts of it
that keep state and run concurrently, the TLC runs that check them, and proofs,
checked by TLAPS, of the results that matter most. Source paths are relative to
`src/src` of the repository unless they say otherwise.

- [The system](#the-system): components, threads, what is hard
- [Modules](#modules): which models what, and how
- [Runs](#runs): what each run checks, its bounds
- [Fairness](#fairness)
- [Disagreements found](#disagreements-found)
- [Proofs](#proofs): what holds for every value of the constants, and why
- [What is only model-checked](#what-is-only-model-checked)
- [What is not modelled](#what-is-not-modelled)
- [What could come next](#what-could-come-next)

Run anything from this directory: `tlc -config IqLogger_captures.cfg MCIqLogger.tla`,
`tlapm IqLogger_proofs.tla`. `PROJECT.json` lists every run, the mutated
definition that shows each property can fail, the source lines behind each
definition, the hazards, and the theorems.

## The system

Three threads share state.

| Thread | Runs | Shares |
| --- | --- | --- |
| producer | the source's callback (`rtlsdr_read_async`), UHD's `receive_loop`, or playback's `thread_main`; each calls `async_sample_callback` of `main.cpp` | `IqLogger::write_samples`, `SampleQueue::push` |
| main | the loop of `main.cpp`: events, controls, tuner, capture start and stop, pop and draw | both of them, the source's `start`/`stop`/`set_frequency` |
| capture writer | `IqLogger::writer_loop`, from the start of a capture until its stop joins it | the logger's ring, the data file, `m_write_error` |

| Component | State | Operations | Interacts with | What makes it correct |
| --- | --- | --- | --- | --- |
| I/Q logger (`utils/iq_logger`) | `m_capturing`, `m_stop`, ring with `m_head`/`m_tail`, write buffer, file, counters, `m_write_error`, sidecar | `start_capture`, `write_samples`, `writer_loop`, `stop_capture` | producer pushes, main starts and stops, writer drains | nothing accepted is lost unreported; the file is a prefix of the stream; the sidecar counts what the file holds; a stop ends |
| Sample queue and pool (`utils/sample_queue`, `utils/frame_pool.h`) | accumulator, bounded queue, pool, FFT size | `push`, `pop_newest`, `clear`, `reconfigure`; `acquire`, `release` | producer pushes, main pops, clears and reconfigures | every frame has one owner; a frame has the size its reader reads; memory is bounded; what is shown is the newest, and after a retune none of what was queued before it |
| Waterfall (`visualization/waterfall_display`, `utils/ring_buffer.h`) | history ring, histogram, dB range, colour table, dirty flag | `add_spectrum_line`, `set_color_map`, `reset`, `render`, `mark_rendered` | main; the renderer takes its pixels | incremental state equals a recount; the pane shows the history in current colours |
| Renderer (`gui/sdl_renderer`) | pane textures, scroll textures, requests of mouse and export | `render_displays`, `render_displays_scroll`, `poll_events`, `present_composited`, `take_capture` | main | the two ways of drawing agree |
| Main loop (`main.cpp`) | FFT size, capture status, pending export, the frozen display | one pass of the loop; start-up; exit | everything | what sidecar, export and panel say is true of what they describe |
| Controls (`control_state`, `gui/sdl_control_input`) | frequency, gain, FFT size, window, palette, holds, one-shot flags | keys; `apply_to_device` | events, main, the tuner | held keys do nothing; the tuner is told every change of the controls, and nothing undoes it |
| Trigger, markers (`gui/plot_overlays`) | threshold, armed, frozen; markers; cursor | `set_from_y`, `check`; `apply`, `update` | main | a frozen frame stays described by what it was |
| Export (`utils/spectrogram_exporter`) | none | `export_framebuffer` | main, after a readback | the sidecar describes the picture |
| Sources (`hardware/*`) | stream thread, chunk pool, loss counter, playback's file position and deadline | `start`, `stop`, callbacks, `dropped_samples` | producer thread; main | every sample is delivered or counted once; a file plays seamlessly at its rate; a stop joins |
| Settings (`utils/settings`) | the settings file, main's map | load, apply, store, save | start and clean exit, the command line, the controls | a crash or full disk keeps the last good file; no receiver's values are lost; a session starts within its limits |
| Spectrum display (`visualization/spectrum_display`) | averaged and held traces, autoscaled range | `update_spectrum`, switches, `build_vertices`, `sample_at_x` | main, the overlays | the traces are of the frames since their reset; a burst stays in view; what is laid over a trace fits it |
| DSP (`signal`, `fft`), command line, text, log | no state between frames that others read | | | |

What is hard to test in it:

- *Interleavings.* The producer checks `m_capturing` without a lock, copies
  under `m_push_mutex`, publishes with a release store; main clears
  `m_capturing`, then `m_stop`, then joins the writer; the writer reads
  `m_stop` before `m_head`. `push()` lets go of one mutex before it takes the
  next one. The order of each pair of lines carries an argument.
- *Failure.* The disk may fill at any write, at `fclose`, or while the sidecar
  is rewritten; main learns of it later, through a flag it polls. The tuner may
  refuse a frequency or a gain; main never learns of that.
- *Order within a pass.* One batch of events may hold a retune, the start of a
  capture, a click, an export and the release of a freeze. The loop applies
  them in a fixed order, on flags it set before the batch.
- *Incremental state.* The histogram, the colour table's dirty flag and the
  scrolled texture are never recomputed when all goes well.
- *Crashes and other instances.* The settings are saved in three steps on a
  fixed temporary path, at the end of a session that may be killed in any.
- *Time.* Playback sleeps to deadlines, stalls, catches up and gives up catching
  up; a cancelled read returns when the library says so.
- *Limits.* A full ring, a full queue, an empty pool, the wrap of a ring, the
  line that makes the history full.

## Modules

| Module | Component | Proved about in | Checked by |
| --- | --- | --- | --- |
| `IqLogger`, abstract `IqCapture`, `MCIqLogger` | I/Q capture logger | `IqLogger_proofs` | `IqLogger_captures`, `IqLogger_sidecar` |
| `SampleQueue`, `MCSampleQueue` | sample queue and frame pool | `SampleQueue_proofs` | `SampleQueue_pool` |
| `UhdSource`, `RtlSource`, `PlaybackSource`, abstract `SampleSource`, composed in `Sources` | the three sources | `Sources_proofs` | `Sources_all` |
| `Settings`, `MCSettings` | saved settings, what the command line lays over them | `Settings_proofs` | `Settings_files` |
| `MainLoop` | the loop: controls, tuner, trigger, captures, exports | `MainLoop_proofs` | `MainLoop_loop`, `_held`, `_retune`, `_failure` |
| `Spectrum` | spectrum display and the loop's sections around it | `Spectrum_proofs` | `Spectrum_pane` |
| `Waterfall`, `MCWaterfall` | waterfall and its two renderings | `Waterfall_proofs` | `Waterfall_draw`, `Waterfall_fill` |
| `DataFacts` | lemmas about `%`, finite sets and their sums, used by the proofs | itself | |

### IqLogger, with IqCapture

`IqLogger.tla` has one action per access to shared state. Main goes through
`start_capture` (`StartNoDirectory`, `StartNoFile`, `StartOpened`, then
`StartArm`, the locked store of `m_capturing`) and `stop_capture` (`StopCapture`
under the mutex, `SignalStop`, `CloseFile`: join, last flush and fclose,
`Finalize`: count, cut and sidecar). The producer goes through `SeeCapturing`
(the unlocked read), `EnterPush` (lock, recheck, room), `CopyFirst`,
`CopyWrapped`, `Publish`. The writer goes through `ReadStop`, `ReadHead`, then
`FoundEmpty` or `BeginBlock`, `AppendSample`..., `EndBlock`. A producer between
`copy` and `publish` is the holder of `m_push_mutex`: main takes and leaves it
in one step.

A sample is its place in the stream delivered to the capture, so that loss,
duplication and order can be told from the file. A sample is `SampleBytes`
bytes; the buffer need not hold whole samples, as in the code. stdio's own
buffer is `StdioBytes`: a failing `fwrite` or `fclose` may take that much of
what an earlier one reported written. `Faults` says which calls may fail, and
the outcome is a choice at every such call. The history variable `accepted` is
what was published to the ring.

`IqCapture.tla` is the abstract specification: a capture accepts or loses whole
batches, stores a prefix of what it accepted, may fail, and once it is being
stopped it ends; ended without a failure it has stored all. `IqLogger`
instantiates it with a refinement mapping, `stored` being the whole samples of
the file.

### SampleQueue

`push()` is `PushDelivery` (everything under `m_accumulator_mutex`, or
`PushFails` when no frame can be had) followed by `Enqueue` (under
`m_queue_mutex`); in between, the completed frame is the producer's local
`frame`. Main's actions are `PopNewest`, `PopTimesOut`, `EndOfFrame` (the
handle's destructor), `Clear`, and a change of FFT size in the four steps of
`main.cpp`: the local is set, the source stopped (which joins a `push()` under
way), the queue reconfigured, the source started. A frame is named by its pool
and a number; a handle says which frame it owns, its capacity and its samples,
which are places in the delivered stream. Releasing a frame of a pool that is
gone destroys it.

### Waterfall

`AddSpectrumLine` is the whole of `add_spectrum_line()`: push, histogram,
`update_global_range()`, `render()`. `DrawWhole` and `DrawScrolled` are
`render_displays()` and `render_displays_scroll()` with the textures they keep,
`mark_rendered()` included; `SetColorMap` and `Reset` come between frames. A
colour is the pair of colour map and dB range its table was built from; a range
is the two levels it is computed from. `recent`, `seeded` and `scrolled` are
history variables.

### MainLoop

One action per section of the loop, in the loop's order: `PollEvents` (with the
export drained before it and window and palette applied after it),
`ChangeFftSize`, `ToggleCapture`, `RequestExport`, `TakeTune`, `ApplyToDevice`,
`CheckCapture`, `SetOverlays`, then `PresentAgain` or `DrawFrame`; after the
loop `StopSource` and `Finish`. Beside them `Deliver` (the source hands on what
it received), `WriteFails` (the writer meets a short write) and `TimePasses`
(the capture's duration runs out) may happen between any two sections. A batch of events leaves any controls the holds allow and any
set of one-shot requests. The queue is abstracted to the tunings of the samples
in its newest frame and in what is being gathered, the logger to whether it
captures and has failed; `SampleQueue` and `IqLogger` describe both in detail.

A delivery carries the tuning it was *received* under. The driver's buffers and
the transfer that is being cut into frames (`rtl_sdr_device.cpp:28`, `:169`,
`:223`) hold samples of before a retune when `apply_to_device()` returns:
`received` is their tunings, oldest first, and `Deliver` hands those on before
any of the new one. A change of the FFT size restarts the stream and with it
resets the driver's buffers. `Program` is `apply_to_device()`: it sends what
differs from `applied`, the values it sent last, and either call may be refused.
`set_frequency()` and `set_gain()` return nothing, so `applied` advances all the
same and the tuner (`device`) stays wherever it is. The history variables
`refused` (what the tuner refused when last told), `mistuned`, `last_failed` and
`stale` say what tuner, files, status and screen are compared with.

### Sources: UhdSource, RtlSource, PlaybackSource, SampleSource

`SampleSource.tla` is what `main()` and the pipeline rely on of any source:
frames of at most the chunk size come between `start()` and the return of
`stop()`, and `dropped_samples()` never falls. `Sources.tla` chooses one of the
three at the start, as `main()` does, gives each the same calls, and states that
whichever it is implements `SampleSource`.

`UhdSource` has the steps of `receive_loop()`: open a streamer, `recv()`, which
times out, throws, or returns a packet with or without a time; count the gap to
the expected time, take a frame from the pool or count the packet as lost, hand
it on. The device's clock moves by a tick when samples never reach `recv()`,
also between two streams. `packets`, `spanned` and `untimed` are history: what
the count is compared with.

`RtlSource` has the thread in `rtlsdr_read_async()` and its callback, which cuts
a transfer into frames until one cannot be had; `stop()` is `AskStop`,
`Cancel` and the join. librtlsdr is external: a cancel reaches a read that has
been entered, one before that is forgotten (`cancel_lost`), a transfer may
still come after it, and the read may fail at any moment.

`PlaybackSource` has the reading thread: take a frame, read, rewind and read
once more, hand on, sleep to the deadline, move it, resynchronise after a long
stall. Time is counted in samples and only as differences, so that it needs no
bound. The file position outlives `stop()` and `start()`, as `m_file` does.

### Settings

A session is `Launch` (load, apply, the command line, clamps), `ChangeControls`,
then `Exit` (`store_settings()`) and the steps of `save_settings()`: `OpenTmp`
truncates what is at the temporary path, `WriteTmp` fills it, `RenameTmp` gives
it the name. `WriteFails` and `RenameFails` are its error paths; `Abort` is an
exception, a kill or a crash in any step. Files are inodes with names, so that
two instances writing "the same file" and renaming it under each other are told
apart. One key stands for FFT size, window and palette, one per receiver for
frequency and gain; a value may be a NaN or out of range, because the file is
edited by hand. `saved` is the history `KeysSurvive` compares the file with;
`overlapped` and `clashed` record that two instances ran, or saved, at once.

### Spectrum

`UpdateSpectrum` is the whole of `update_spectrum()`, `Trace` what
`build_vertices()` draws, `Sample` what `sample_at_x()` reads; a pass of the
loop is `Keys`, `ApplyKeys`, then `DrawFrame` or `PresentAgain` with what is set
over the trace. What a pass showed (`picture`) remembers the trace on screen
when the pass began, which the overlays are taken from. The average keeps, per bin, the levels that enter it in order:
which frames those are is what can go wrong; their weights are left out.
`shown`, `hold_from`, `avg_from` and `changed` are history.

## Runs

Every property of every passing run is broken by a plausible bug, named `Bug...`
and placed before the definition it replaces.

| Run | Bounds | States | Shows |
| --- | --- | --- | --- |
| `IqLogger_captures` | ring of 3, batches of 1 and 2, 2-byte samples in a 3-byte buffer, 5 samples, 2 captures, every fault but `stat` | 180 thousand | the ring is used only while it exists, never by both sides in one slot, and is FIFO; the file is a prefix; everything accepted is stored or a failure is reported; the sidecar is exact; no push after a stop; accepted samples are drained and a stop ends; `IqCapture` is implemented |
| `SampleQueue_pool` | queue of 2, pool of 1 that has to grow, FFT sizes 2 and 3, 9 samples, one change of size, failing allocations | 58 thousand | ownership, sizes, consecutive samples, the pool's bound, staleness after `clear()`, progress under short deliveries, never backwards |
| `Sources_all` | chunks of 1 and 3, transfers of 2, a file of 2, 2 starts, 5 clock ticks or 3 transfers or 6 samples | 178 thousand | losses are counted once; a file plays without a seam and at its rate; a stop joins; each source implements `SampleSource` |
| `Settings_files` | 2 instances, 3 sessions, 2 receivers and playback, files edited by hand, every failure and a crash at any step | 758 thousand | sessions start within their limits; the file is whole; no key is lost |
| `Spectrum_pane` | frames of 1 and 3 bins on 2 columns, 2 levels, 3 frames | 3 million | traces are of the frames since their reset; bursts stay in view; overlays fit the trace |
| `Waterfall_draw` | 3 lines by 2 columns, 2 levels, 2 colour maps, no bound on lines, resets or palette changes | 792 thousand | ring, histogram and both drawings agree with what was added |
| `MainLoop_loop` | 2 frequencies, a backlog of 1 delivery, one FFT size, gain and look | 3.9 million | the tuner is told what a capture's sidecar says and differs only where it refused; what an export says; of the old channel only the backlog and one frame are shown |
| `MainLoop_held` | 1 frequency, 2 FFT sizes, 2 looks, captures with a duration, fair | 794 thousand | a capture's receiver; a held frame's controls; captures end |
| `IqLogger_sidecar`, `Waterfall_fill`, `MainLoop_retune`, `MainLoop_failure` | smallest that show it | | the disagreements below |

Why the bounds are enough.

- *Logger:* a ring of 3 with batches of 2 wraps inside a batch and inside a
  block, refuses batches, and is emptied and refilled; a buffer of 3 for samples
  of 2 bytes splits samples over flushes; the second capture meets whatever the
  first one left.
- *Queue:* 2 queued frames, one being gathered or queued and one drawn are the
  code's 8 + 2 in small; FFT sizes 2 and 3 give deliveries that fit, complete,
  and overfill.
- *Sources:* chunks of 1 and 3 around a transfer and a file of 2 cut a transfer
  in the middle, leave a rest, cross the end of the file once and make the file
  shorter than a chunk; the second start meets the first one's file position,
  counts and streamer. Playback's clock has no bound.
- *Settings:* two instances make every overlap of two; a third session reads
  what two crashed or failed ones left, the temporary file included. Instances
  are interchangeable, which is the run's symmetry.
- *Spectrum:* a frame of 3 bins on 2 columns has a column of one and a column of
  two; one of 1 bin has fewer bins than columns; three frames are enough to seed
  a trace, extend it and re-seed it for another size.
- *Waterfall:* nothing is counted but what the ring holds, so the state space is
  complete for its constants; three rows tell first, middle and last apart.
- *Main loop:* all its state is finite; two values of a control tell old from
  new, each in the run whose properties speak of it. Gain is held, recorded and
  programmed as frequency is and needs no second value beside it; it clears no
  queue. The code's backlog is up to 32 USB buffers and the transfer being cut,
  each of up to 32 frames; one delivery is enough to follow the gathered rest
  with old samples, to be completed by new ones, and to be overtaken by a second
  retune, and the run reaches its bound of `Backlog + 1` frames. The theorem is
  for every backlog.

`Exhausted` in `IqLogger` and `Done` in `MainLoop` are the stutter steps of a
system that has reached its bounds or its end; a deadlock anywhere else is
reported. `PopTimesOut` is the loop going round without a frame. `Sources_all`
and `Settings_files` switch the deadlock check off because their systems do
stop: at the bound on starts or sessions with nothing running, and an RTL source
whose cancel was lost waits in `join()` for ever, which is what `StopJoins`
names as its exception.

## Fairness

- `IqLogger`: the writer and a producer in the middle of a push keep running,
  because they are threads that are not blocked; main finishes a start or stop
  it began but is not obliged to begin one. Taking `m_push_mutex` to arm a
  capture is strongly fair: the producer holds the mutex for one copy and then
  waits milliseconds for its next delivery. File-system calls are assumed to
  return.
- `MainLoop`: the loop as a whole is weakly fair. It waits for nothing but 8 ms
  for a frame, the pacing sleep, and the capture's writer, which by
  `AcceptedIsDrained` is done when it has emptied its ring. Events, deliveries,
  failures and the passing of time are not fair: none of them has to happen.
- `UhdSource`: the thread runs, and `recv()` returns, because the code passes it
  a timeout of a tenth of a second.
- `RtlSource`: main and the thread run. That a cancelled read ends is strongly
  fair, since transfers may still come between: it is librtlsdr's promise, which
  resubmits no transfer once cancelled.
- `PlaybackSource`: the thread runs, the clock ticks, and a sleep ends at its
  deadline. Taking a frame is not fair, so a pool that stays empty is allowed;
  `stop()` ends all the same, because the thread looks at `m_running` each time.

In all three `start()` and `stop()` need not be called.

## Disagreements found

1. **A failed rewrite of the sidecar destroys the start's sidecar**
   (`IqLogger_sidecar`). `iq_logger.cpp:413` says a failure at stop leaves the
   start's sidecar with 0 samples; `write_text_file()` opens it with `"w"`,
   which has truncated it before the write fails.
2. **A black row and a lost line when the history fills** (`Waterfall_fill`).
   The line that makes the history full takes the scroll path although the pane
   on screen still has a free row: everything moves up by one, the oldest line
   leaves the pane, and a black row travels up through it.
   `waterfall_display.cpp:153` states row i is line i, which the cursor's time
   is taken from. A change of range in that very frame hides it.
3. **A write error met while stopping is not shown** (`MainLoop_failure`).
   `REC ERR` is set only if the loop polls `write_failed()` while it captures;
   an error of the last flush or of `fclose`, or one met just before Ctrl+S or
   the duration stops the capture, is only in the log and in the sidecar.
   `main.cpp:571` promises the status until the next capture starts.
4. **A capture begun together with a retune starts with the old channel**
   (`MainLoop_retune`). With `+` and Ctrl+S in one batch of events the sidecar
   has the new frequency and samples are let in before `apply_to_device()` has
   programmed the tuner; a capture begun in a later pass still gets what the
   driver received before the retune. `src/docs/TECHNICAL.md:302` says the
   frequency holds for the whole file. The run leaves out captures of a tuner
   that refused a setting, which is the next observation.

Smaller observations, not turned into runs:

- A frequency or gain the tuner refuses is at most logged
  (`rtl_sdr_device.cpp:80`, `:105` ignore the result, `uhd_device.cpp:80`, `:88`
  catch the exception), while `control_state.cpp:146` and `:150` record it as
  applied: it is not sent again until the value changes, and panel and sidecar
  name a tuning the receiver does not have, for a whole capture.
  `TunerMatchesSidecar` says that nothing else makes them differ.
- `main.cpp:532` drops the queued frames "so the spectrum snaps". What the
  driver holds and the transfer being cut, about half a second of samples at
  2.048 MS/s when its buffers are full, is drawn after that under the new
  frequency, and may trip the trigger. `SnapsToNewChannel` bounds what is drawn by
  that backlog and the frame being gathered.
- `iq_logger.cpp:24` says an idle logger holds no write buffer, but a
  `start_capture()` that fails to make its directory returns with the buffer
  resized.
- Two captures of one frequency within one second share their file names.
- An export's metadata is taken before a Ctrl+click of the same pass retunes, so
  its sidecar and the scale in the picture may differ, where `main.cpp:483` says
  they match even if a control changes before the readback. A held frame is safe
  (`ExportDescribesHeldFrame`).
- `settings.h:16-17` says a save keeps the other receivers' keys and
  `settings.h:25` that a crash keeps the old file, which `KeysSurvive` and
  `FileIsWhole` confirm for one instance. Two instances that exit together share one
  temporary path: the one may rename what the other has just truncated. And a
  session that overlaps another writes back, on exit, the other receiver's
  values as it loaded them. `FileIsWhole` and `KeysSurvive` are therefore stated
  for saves and sessions that do not overlap.
- In a freeze the keys `m`, `a` and `x` still act on the live traces, although
  `sdl_control_input.cpp:32` says the panel keeps describing the held frame:
  the cursor's dot then reads an average that is no longer the one drawn.
  `OverlaysFitTrace` excludes exactly that, and says nothing of the mode names in
  a freeze.
- While streaming, the cursor's dot and the axis are set from the display before
  the pass's own frame, so they are one frame older than the trace
  (`spectrum_display.h:72` has the dot land on the drawn trace).
  `OverlaysFitTrace` states it so: they are those of exactly the trace before.
- `stop()` of the RTL source called before its thread has entered the read would
  wait in `join()` until the read fails: `StopJoins` names that case.
- `-g nan` is not clamped but leaves `ControlState`'s own default gain.

## Proofs

`tlapm` checks the eight modules named above without open obligations. The only
assumptions are the modules' `ASSUME`s on their constants, which the runs
evaluate: sizes are positive, the write buffer holds a sample, faults are of the
known kinds, limits are ordered, and of the levels a spectrum can show one is the lowest
(in the code they are floats). What is proved holds for every ring, batch,
buffer, queue, pool, chunk, transfer and file size, every set of receivers and
instances, and without the bounds of the runs playing any part.

**IqLogger.** `Invariance` proves `Spec => []Inv` with

    Inv == TypeOK /\ ControlInv /\ RingInv /\ CopyInv /\ WriterInv /\ RingIsFifo

`RingIsFifo` says that the slots from `m_tail` to `m_head` hold the accepted
samples; it is not inductive, since a copy writes to slots before it publishes
them. `RingInv` says that the ring exists exactly while a capture is under way,
that it never holds more than it has slots for, the batch being copied
included, and that `m_head` is the number of samples accepted; `CopyInv` says
what a producer in the middle of a push has copied so far, which `Publish` turns
into `RingIsFifo`; `WriterInv` says that the writer's `head` lies between
`m_tail` and `m_head`; `ControlInv` ties the three threads' places together: a
push in progress holds the mutex, so main is still `capturing`, and a writer
exists only from `StartOpened` to `CloseFile`. From `Inv` follow `TypeCorrect`,
`RingIsHeld`, `DisjointAccess` (two different indexes within one ring length
have different slots, by `DataFacts`), `FirstInFirstOut` and the action
property `StopIsFinal`.

**The capture's file** (in `IqLogger_proofs` too). On top of `Inv`:

    DiskInv == FileInv /\ DrainInv /\ CountInv /\ SidecarInv

`FileInv` is the heart: byte for byte the file follows the accepted samples,
the write buffer follows the file, and together they are as long as what the
writer was given (`Written`), as long as the file is open. It is what survives a
sample that straddles two flushes (`AppendStep`), a flush or close that fails in
the middle of a sample (`Flushed`, `Closed`) and the cut at the end. `DrainInv`
carries the order of the two reads in `writer_loop()`: a writer that has seen
`m_stop` has seen the last `m_head`, so it leaves only an empty ring behind.
`CountInv` says that every sample received is published, refused, or in the
push's hands. From them follow `FileFollowsStream` (`FileIsPrefix`),
`NoSilentLoss` (`NothingLostSilently`) and, as long as `file_size()` works,
`SidecarTellsTheTruth` (`SidecarIsExact`).

**The logger implements IqCapture** (`LoggerImplementsCapture`): `Spec` implies
`Capture!Spec`, which is `ImplementsIqCapture` without its fairness. On top of
`Inv` and `DiskInv` it needs `ArmInv`: until `StartArm` sets `m_capturing`, a
new capture has received, published and written nothing, although the writer
already runs (`NoBlockInArm`: an empty ring holds no block). `StoredIsPrefix`
turns the byte stream of `FileInv` into samples: what is stored is the beginning
of what was accepted, a half sample at the end not counted. The steps then map
one by one: a start that resets is `Clear`, `StartArm` is `Open`, `Publish` is
`Accept` and a refused `EnterPush` is `Lose`; a flush is `Store`, `Fail` or, when
it completes no sample, a stutter (`WriteMapped`), and so is `CloseFile`, which
without an error cannot leave less than was there, because `FileInv` holds after
it; `StopCapture` is `BeginStop`; `Finalize` is `Close`, since the cut leaves
every whole sample. All others are stutters.

**SampleQueue.** `Invariance` proves `Spec => []Inv` with

    Inv == TypeOK /\ ControlInv /\ FillInv /\ HandleInv
             /\ EveryFrameHasOneOwner /\ PoolIsBounded

`HandleInv` says that only an empty handle has no frame, `FillInv` that the
accumulator is never full and every other frame always is, for the size its
reader reads, `ControlInv` which handles are empty when and that a
reconfiguration happens with the producer stopped. `EveryFrameHasOneOwner`
carries `PoolIsBounded`: the pool creates a frame only when its free list is
empty, and then all the frames there are sit in the places that hold one each,
which counts them. Theorems: `TypeCorrect`, `FrameFits`, `OneOwner`,
`PoolBound`.

The module then adds `OrderInv == RunInv /\ QueueOrder /\ ProducerOrder /\
AtMostOneStale`: every frame is one run of the stream (`RunInv`), and from what
was last drawn over the queue and `push()`'s local frame to the accumulator every
frame ends before the next begins. Since the clear of a retune leaves only the
last two of those places, of which the accumulator is refilled after `push()`
has let go of the other, one stale frame remains. Stale means pushed before the
clear; what the driver pushes later is `MainLoop`'s backlog. Theorems: `FramesAreRuns`,
`OneStaleFrame`, `FramesComplete`, `DrawnForwards`.

**Sources.** For the USRP, `UhdStream` says that within a stream the packet
expected next starts where the last one ended and the clock is not before it;
`UhdAccount` then says that what is handed on, counted and in the thread's hands
adds up to the ticks spanned. The RTL's account is the same over the rest of a
transfer. For playback `PlaySeam` says that file position and next sample agree
modulo the file's length, and `PlayPace` bounds, for every place in the loop,
how far the samples handed on are ahead of the clock and how many went out at
one instant, in terms of how far off the deadline is. Theorems:
`LossesAreCounted`, `FileIsSeamless`, `FileIsPaced`, and
`SourcesImplementContract`: initial states map to initial states of
`SampleSource`, and every step to a step of it or a stutter.

**Settings.** `Inv == TypeOK /\ SaveInv /\ SessionInv`. `SaveInv`: until two
saves clash, at most one instance is saving, the file it writes is the one at
the temporary path, which is not `settings.ini`, and before the rename it is
whole. `SessionInv`: until two sessions overlap, the session that runs has
loaded what was last saved, and one that is saving holds that with its own
values over it. Theorems: `WithinLimits` (`TypeOK`), `WholeFile` (`FileIsWhole`),
`KeysAreKept` (`KeysSurvive`), for any number of instances, receivers and
sessions.

**MainLoop.** `Inv == Types /\ FftInv /\ CaptureInv /\ ExportInv /\ ChannelInv`.
`FftInv`: past `ChangeFftSize` the control and the loop's FFT size agree, and
before it they do so too where the change will be refused. `CaptureInv`: the
controls are the sidecar's, so are the values last programmed once
`apply_to_device()` has been passed, and the tuner differs from the latter only
in what it refused. `ExportInv`: a frame is read back for an
export only, and while one is awaited in a freeze the stash is what the panel
says. `ChannelInv`: the deliveries of another channel come first (`OldUpTo`), and the
frames of it shown or queued (`Shown`) and those the rest of the backlog and the
accumulator can still fill (`Filled`) are together at most the backlog and one:
each delivery hands over one from `Filled` to `Shown`, and a new channel's
delivery that completes a frame ends it. Theorems: `ReceiverIsHeld`,
`TunerIsHeld`, `ExportIsOfHeldFrame`, `BacklogOnly` (`SnapsToNewChannel`), and
the action property `HeldFrameIsDescribed`.

**Waterfall.** `WaterfallIsConsistent` proves `Spec => []WaterfallInv` with

    WaterfallInv == RingInv /\ CountInv /\ RangeInv /\ TextureInv
                      /\ FrameType /\ FrameInv

`RingInv` is `HistoryIsRecent` with the ring's types; a push into a full ring
moves the head over the oldest line, and `PushKeepsRing` shows every other line in
the place it had, or one before. `CountInv` is `HistogramMatchesHistory`: the
pixels of a level in the new history are those of the old, less the evicted
line's, more the new one's (`PixelsOfAppend`, and counting them). `RangeInv`
says that the range is the one a recount gives, and that only `reset()` may
leave the table older than it. The code finds the range by adding the counts up
level by level, in the model a fold; `SumOfSizes` in `DataFacts` says that such a
sum over disjoint sets is the size of their union. `FrameInv` is what makes the
two ways of drawing meet: in the step between the texture update and the
picture, a full render has every row as expected, and a scroll has the screen of
one line ago below the new line (`ScrollInv`), in the current colours, because a
change of range or palette would have forced the full render. Theorems:
`RingHoldsHistory` (`HistoryIsRecent`), `HistogramIsExact`
(`HistogramMatchesHistory`), `DrawnFrameShowsHistory` (`ScreenShowsRecent`),
`NoStaleColours` (`ColoursAreCurrent`).

**Spectrum.** `SpectrumIsConsistent` proves `Spec => []SpectrumInv` with

    SpectrumInv == TypeInv /\ ShownInv /\ HoldInv /\ AvgInv /\ RangeInv
                     /\ OverlayInv

`HoldInv` and `AvgInv` say that a trace that is on is the one computed from the
whole history since it was cleared, and that a trace that is off holds nothing,
which is what makes switching it on again the same as clearing it. The frames
that count are the tail of the history whose sizes are the last one's
(`RunIsTail`); a frame of that size extends the tail and one of another size
starts it anew (`RunGrows`), and the peak and the average follow it
(`PeakGrows`, `AverageGrows`). `RangeInv` bounds every frame ever shown: its
levels and the headroom are below the top plus a decay for each frame since,
since the top falls by no more than that and never below the newest peak.
`OverlayInv` ties the trace last built to the range and the bars it was built
from until the next is built, which is where the overlays of the passes up to
and including that one are taken from. That the median of a frame is one of its
levels, so that the range is never empty, is `MedianIsLevel`. Theorems:
`SpectrumTypes` (`TypeOK`), `TracesAreSinceReset` (`TracesSinceReset`),
`NoBurstClipped` (`BurstsStayInView`), `OverlaysAreOfTheTrace`
(`OverlaysFitTrace`).

**DataFacts.** Remainders by hand from the quotient, since the prover knows
little of `%`; and facts of finite sets for which a textbook would use induction.
The library's induction theorems take an operator and cannot be instantiated, so
`MinimalSubset` does their work: every non-empty set of subsets of a finite set
has a minimal one, which is the library's well-founded order of finite subsets.
`MaxOf` and `MinOf` (a finite set of integers has a greatest and a least
element) and `SumOfSizes` are proved from it, the latter as the absence of a
smallest subset for which the sum is wrong.

## What is only model-checked

Every safety invariant and action property of the passing runs is a theorem.
What is left to TLC is liveness under fairness, which is beyond the prover:
`AcceptedIsDrained`, `CaptureEnds`, `StopJoins`, and in `ImplementsIqCapture` the
fairness of `IqCapture` (a stop that has begun ends). That the refinement's
mapping is defined as it is meant is checked by that run too.

## What is not modelled

- Signal processing and FFT (`signal`, `fft`): floating-point transforms of one
  frame. They keep no state between frames that another part reads, and what
  they compute is out of a model checker's reach. A frame's levels, a waterfall
  line and the average's weights are therefore arbitrary data.
- Text rendering, icons, scales, grids, markers, the readout's smoothing, the
  timing overlay, window and pixel geometry: drawing from state that is modelled,
  or state nothing else reads.
- Logging, time stamps and formatting; PNG and JSON writing, apart from whether
  a sidecar is written whole.
- Parsing of strings: the command line, the settings' text, a capture's sidecar.
  A value reads back to itself.
- Key step sizes and the order in which keys cycle: the models let a key choose
  any allowed value, which includes those.
- The C++ memory model: the atomics' acquire/release pairs are taken to order
  what they are written to order, and the actions are the accesses so ordered.
- The names of captures, which come from the clock.
- librtlsdr, UHD, SDL and the file system: seen only through how the code uses
  them. SDL failures are left out but for the readback and a failed render.

## What could come next

1. A composition of `SampleQueue` and `MainLoop` in which the loop's abstraction
   of the queue is shown to be implemented by `SampleQueue`.
2. Panes whose height is not a multiple of the history, for `Waterfall`, and the
   resampling of a spectrum to its columns as a function checked against a
   reference.
3. Markers and the trigger's threshold through retunes and FFT sizes.
