------------------------------- MODULE MainLoop -------------------------------
(***************************************************************************)
(* main()'s loop (src/main.cpp) with the parts it ties together: the keys  *)
(* and ControlState (src/control_state.{cpp,h}, gui/sdl_control_input.cpp),*)
(* the tuner, the I/Q capture, the amplitude trigger, the spectrogram      *)
(* export and the exit.  One action is one section of the loop; between    *)
(* any two the producer may deliver, the capture's writer may fail and the *)
(* capture's duration may run out.                                         *)
(*                                                                         *)
(* The controls are a record.  The window and the palette are its "look":  *)
(* the same keys hold and free them.  A delivery carries the tuning its    *)
(* samples were received under: the driver's buffers and the transfer that *)
(* is being cut into frames hold samples of before a retune.  The tuner    *)
(* may refuse a setting, which nobody is told.  SampleQueue and IqLogger   *)
(* describe the queue and the logger; here the queue is the tunings in the *)
(* newest queued frame and in what is being gathered, the logger whether   *)
(* it captures and has failed.  The receiver is tunable.  What there may   *)
(* be one of is a set of one or none.                                      *)
(***************************************************************************)
EXTENDS Integers, FiniteSets, Sequences

CONSTANTS Frequencies, Gains, FftSizes, Looks, \* what the keys choose from
          Duration,                            \* --iq-duration is given
          Backlog  \* deliveries the driver and one transfer hold at most

ASSUME LoopAssumption ==
  /\ 0 \notin Frequencies /\ Frequencies # {}
  /\ Gains # {} /\ FftSizes # {} /\ Looks # {} /\ Duration \in BOOLEAN
  /\ Backlog \in Nat

VARIABLES
  step,              \* main's place in the loop
  requests,          \* ControlState's one-shot flags, the click, the drag
  control,           \* ControlState's frequency, gain, FFT size and look
  current_fft_size,
  device,            \* what the tuner is tuned to
  applied,           \* ControlState's last values programmed into it
  refused,           \* history: the settings it refused when last programmed
  s_last_freq,       \* a static of main
  received,          \* the tunings of the deliveries received before the tuner
                     \* last changed and still to be handed on, oldest first
  gathering, queue,  \* the tunings in the accumulator, the newest frame
  capturing,         \* iq_logger.is_capturing()
  captured,          \* what the open capture's sidecar says
  write_error,       \* the open capture's write error
  elapsed,           \* it has run for its duration
  mistuned,          \* history: it was given samples of another tuning, by a
                     \* tuner that refused nothing
  iq_capture_failed,
  last_failed,       \* history: the last capture could not start, or failed
  armed, frozen,     \* the trigger
  pending_export,    \* the metadata stashed for an export
  capture_pending,   \* the renderer is to read the next frame back
  readback,          \* what panel and scales say in the frame read back
  stale              \* history: frames shown since the last retune that hold
                     \* samples of another channel; -1 before the first

sourceVars == <<received, gathering, queue, current_fft_size>>
openVars == <<capturing, captured, write_error, elapsed, mistuned, last_failed>>
exportVars == <<pending_export, capture_pending, readback>>
tunerVars == <<device, applied, refused, s_last_freq>>
triggerVars == <<armed, frozen>>
vars == <<step, requests, control, sourceVars, tunerVars, openVars,
          iq_capture_failed, triggerVars, exportVars, stale>>

-----------------------------------------------------------------------------
Controls == [frequency : Frequencies, gain : Gains, fft : FftSizes, look : Looks]
Tunings == [frequency : Frequencies, gain : Gains]
Tuning(c) == [frequency |-> c.frequency, gain |-> c.gain]

\* What a sidecar says: the controls, with the FFT size of the running stream.
Metadata == [control EXCEPT !.fft = current_fft_size]

\* ControlState's request flags, and what SdlRenderer keeps of the mouse.
OneShots == {"fft", "toggle", "export", "unfreeze", "tune", "threshold"}

\* The settings of which the tuner differs from what it was told.
Missed(told, tuned) ==
  {setting \in {"frequency", "gain"} : tuned[setting] # told[setting]}

\* The command line may have started a capture before the loop; then the tuner
\* was programmed and the source started.
Init ==
  /\ step = "poll" /\ requests = {}
  /\ control \in Controls /\ current_fft_size = control.fft
  /\ received = <<>> /\ gathering = {} /\ queue = {}
  /\ device \in Tunings /\ applied = Tuning(control)
  /\ refused = Missed(applied, device) /\ s_last_freq = 0
  /\ capturing \in BOOLEAN /\ captured = IF capturing THEN {control} ELSE {}
  /\ write_error = FALSE /\ elapsed = FALSE /\ mistuned = FALSE
  /\ iq_capture_failed \in IF capturing THEN {FALSE} ELSE BOOLEAN
  /\ last_failed = iq_capture_failed
  /\ armed = FALSE /\ frozen = FALSE
  /\ pending_export = {} /\ capture_pending = FALSE /\ readback = {}
  /\ stale = -1

(***************************************************************************)
(* start_capture() and stop_capture(), lambdas of main.                    *)
(***************************************************************************)
\* The logger may not be able to open its files.
StartCapture ==
  /\ \/ capturing' = TRUE /\ captured' = {Metadata} /\ last_failed' = FALSE
     \/ UNCHANGED <<capturing, captured>> /\ last_failed' = TRUE
  /\ iq_capture_failed' = last_failed'
  /\ UNCHANGED <<write_error, elapsed, mistuned>>

\* The last flush and the close may fail, too.
StopCapture ==
  /\ capturing' = FALSE /\ captured' = {}
  /\ last_failed' \in {write_error, TRUE}
  /\ write_error' = FALSE /\ elapsed' = FALSE /\ mistuned' = FALSE

(***************************************************************************)
(* The loop.                                                               *)
(***************************************************************************)
\* Mutants: the keys stay free in a freeze, in a capture.
BugControlsNotHeld == FALSE
BugReceiverNotHeld == FALSE

\* What hold_receiver() and hold_controls() are told.
ReceiverHeld == capturing
ControlsHeld == frozen

\* handle_control_key() for a batch of keys: the controls they may leave, the
\* FFT size changed back and forth included.
KeysLeave(c, asked) ==
  /\ ReceiverHeld \/ ControlsHeld =>
       Tuning(c) = Tuning(control) /\ c.fft = control.fft /\ "fft" \notin asked
  /\ ControlsHeld => c.look = control.look
  /\ c.fft # control.fft => "fft" \in asked

\* The top of the loop: a finished readback is exported, the events polled.
\* A batch of them may end with the one that quits.
PollEvents ==
  /\ step = "poll"
  /\ IF pending_export # {} /\ readback # {}
     THEN pending_export' = {} /\ readback' = {} /\ UNCHANGED capture_pending
     ELSE UNCHANGED exportVars
  /\ \E asked \in SUBSET OneShots, c \in Controls :
       KeysLeave(c, asked) /\ control' = c /\ requests' = asked
  /\ step' \in {"fft", "exit"}
  /\ UNCHANGED <<sourceVars, tunerVars, openVars, iq_capture_failed, triggerVars,
                 stale>>

\* Ctrl+C: the loop is not entered again.
Interrupt ==
  /\ step = "poll"
  /\ step' = "exit"
  /\ UNCHANGED <<requests, control, sourceVars, tunerVars, openVars,
                 iq_capture_failed, triggerVars, exportVars, stale>>

\* A new FFT size: the source is stopped, the queue reconfigured, the source
\* started again, with the driver's buffers reset.
ChangeFftSize ==
  /\ step = "fft"
  /\ IF "fft" \in requests
     THEN /\ current_fft_size' = control.fft
          /\ received' = <<>> /\ gathering' = {} /\ queue' = {}
     ELSE UNCHANGED sourceVars
  /\ requests' = requests \ {"fft"}
  /\ step' = "toggle"
  /\ UNCHANGED <<control, tunerVars, openVars, iq_capture_failed, triggerVars,
                 exportVars, stale>>

ToggleCapture ==
  /\ step = "toggle"
  /\ CASE "toggle" \notin requests -> UNCHANGED <<openVars, iq_capture_failed>>
       [] "toggle" \in requests /\ capturing ->
            StopCapture /\ UNCHANGED iq_capture_failed
       [] OTHER -> StartCapture
  /\ requests' = requests \ {"toggle"}
  /\ step' = "export"
  /\ UNCHANGED <<control, sourceVars, tunerVars, triggerVars, exportVars, stale>>

\* The metadata is stashed and the renderer told to read the next frame back.
RequestExport ==
  /\ step = "export"
  /\ IF "export" \in requests
     THEN /\ pending_export' = {Metadata} /\ capture_pending' = TRUE
          /\ UNCHANGED readback
     ELSE UNCHANGED exportVars
  /\ requests' = requests \ {"export"}
  /\ step' = "tune"
  /\ UNCHANGED <<control, sourceVars, tunerVars, openVars, iq_capture_failed,
                 triggerVars, stale>>

\* Ctrl+clicks are ignored while frozen and while capturing.
BugClickTunesHeldFrame == ~capturing
ClickTunes == ~frozen /\ ~capturing

\* A click may also miss the panes or change nothing.
TakeTune ==
  /\ step = "tune"
  /\ \E f \in IF "tune" \in requests /\ ClickTunes THEN Frequencies
              ELSE {control.frequency} :
       control' = [control EXCEPT !.frequency = f]
  /\ requests' = requests \ {"tune"}
  /\ step' = "device"
  /\ UNCHANGED <<sourceVars, tunerVars, openVars, iq_capture_failed, triggerVars,
                 exportVars, stale>>

\* What is queued of another channel is dropped.
BugKeepQueue == queue
QueueAfterTuning ==
  IF s_last_freq \notin {0, control.frequency} THEN {} ELSE queue

\* apply_to_device() programs what differs from the values it programmed last.
BugFrequencySetOnce == FALSE
SetsFrequency == control.frequency # applied.frequency
SetsGain == control.gain # applied.gain

\* Either call may fail, which is at most logged, and leave the tuner wherever
\* it is; the value counts as programmed all the same.
Program ==
  /\ \E f \in IF SetsFrequency THEN Frequencies ELSE {device.frequency},
        g \in IF SetsGain THEN Gains ELSE {device.gain} :
       device' = [frequency |-> f, gain |-> g]
  /\ refused' = {setting \in Missed(control, device') :
                   \/ setting \in refused
                   \/ setting = "frequency" /\ SetsFrequency
                   \/ setting = "gain" /\ SetsGain}
  /\ applied' = Tuning(control)

\* What was received up to then is still to be handed on.
KeepReceived ==
  IF device' = device THEN UNCHANGED received
  ELSE \E n \in 0..(Backlog - Len(received)) :
         received' = received \o [k \in 1..n |-> device]

ApplyToDevice ==
  /\ step = "device"
  /\ Program
  /\ KeepReceived
  /\ queue' = QueueAfterTuning
  /\ stale' = IF s_last_freq \notin {0, control.frequency} THEN 0 ELSE stale
  /\ s_last_freq' = control.frequency
  /\ step' = "capture"
  /\ UNCHANGED <<requests, control, gathering, current_fft_size, openVars,
                 iq_capture_failed, triggerVars, exportVars>>

\* A write error or the duration ends the capture, whatever the display does.
BugStopWithFrames == capturing /\ ~frozen /\ (write_error \/ elapsed)
MustStop == capturing /\ (write_error \/ elapsed)

\* Only a write error met here is remembered for the status.
FailedNow == capturing /\ write_error

CheckCapture ==
  /\ step = "capture"
  /\ IF MustStop THEN StopCapture ELSE UNCHANGED openVars
  /\ iq_capture_failed' = (iq_capture_failed \/ FailedNow)
  /\ step' = "overlays"
  /\ UNCHANGED <<requests, control, sourceVars, tunerVars, triggerVars,
                 exportVars, stale>>

\* What the panel says of the capture from then on.
IqStatus == IF capturing THEN "REC" ELSE IF iq_capture_failed THEN "REC ERR" ELSE ""

\* The drag that arms or disarms the trigger, and Space.
SetOverlays ==
  /\ step = "overlays"
  /\ armed' \in IF "threshold" \in requests THEN BOOLEAN ELSE {armed}
  /\ frozen' = (frozen /\ "unfreeze" \notin requests)
  /\ requests' = {}
  /\ step' = "frame"
  /\ UNCHANGED <<control, sourceVars, tunerVars, openVars, iq_capture_failed,
                 exportVars, stale>>

\* present_composited(), with panel and scales as they were just set; the
\* readback may fail.
Label == [controls |-> Metadata, frozen |-> frozen]
Present ==
  /\ capture_pending' = FALSE
  /\ readback' \in IF capture_pending THEN {{Label}, readback} ELSE {readback}
  /\ UNCHANGED pending_export

GotSamples == queue # {}

\* Tunings among these of another channel than the tuner's.
HasOld(tunings) == \E t \in tunings : t.frequency # device.frequency

\* Frozen, or no frame in time: the last one is presented again.
PresentAgain ==
  /\ step = "frame" /\ (frozen \/ ~GotSamples)
  /\ Present
  /\ step' = "poll"
  /\ UNCHANGED <<requests, control, sourceVars, tunerVars, openVars,
                 iq_capture_failed, triggerVars, stale>>

\* The newest frame is processed, may trip the trigger, and is drawn; a render
\* that fails ends the loop.
DrawFrame ==
  /\ step = "frame" /\ ~frozen /\ GotSamples
  /\ queue' = {}
  /\ stale' = IF stale >= 0 /\ HasOld(queue) THEN stale + 1 ELSE stale
  /\ frozen' \in IF armed THEN BOOLEAN ELSE {FALSE}
  /\ \/ step' = "poll" /\ Present
     \/ step' = "exit" /\ UNCHANGED exportVars
  /\ UNCHANGED <<requests, control, received, gathering, current_fft_size,
                 tunerVars, openVars, iq_capture_failed, armed>>

\* After the loop the source is stopped, then a capture that is still open.
StopSource ==
  /\ step = "exit"
  /\ step' = "stopped"
  /\ UNCHANGED <<requests, control, sourceVars, tunerVars, openVars,
                 iq_capture_failed, triggerVars, exportVars, stale>>

Finish ==
  /\ step = "stopped"
  /\ IF capturing THEN StopCapture ELSE UNCHANGED openVars
  /\ step' = "done"
  /\ UNCHANGED <<requests, control, sourceVars, tunerVars, iq_capture_failed,
                 triggerVars, exportVars, stale>>

(***************************************************************************)
(* What happens beside the loop.                                           *)
(***************************************************************************)
\* async_sample_callback() in the source's thread, until that is joined: the
\* oldest samples received go to the logger, then to the queue, where they may
\* complete a frame and leave a rest that begins the next.
Deliver ==
  /\ step \notin {"stopped", "done"}
  /\ LET t == IF received = <<>> THEN device ELSE Head(received)
     IN  /\ mistuned' = (mistuned \/
                          \E c \in captured : refused = {} /\ t # Tuning(c))
         /\ \/ gathering' = gathering \cup {t} /\ UNCHANGED queue
            \/ /\ queue' = gathering \cup {t}
               /\ gathering' \in IF gathering = {} THEN {{}} ELSE {{}, {t}}
  /\ received' = IF received = <<>> THEN <<>> ELSE Tail(received)
  /\ UNCHANGED <<step, requests, control, current_fft_size, tunerVars, capturing,
                 captured, write_error, elapsed, last_failed, iq_capture_failed,
                 triggerVars, exportVars, stale>>

\* The logger's writer meets a short write.
WriteFails ==
  /\ capturing /\ ~write_error
  /\ write_error' = TRUE
  /\ UNCHANGED <<step, requests, control, sourceVars, tunerVars, capturing,
                 captured, elapsed, mistuned, last_failed, iq_capture_failed,
                 triggerVars, exportVars, stale>>

TimePasses ==
  /\ Duration /\ capturing /\ ~elapsed
  /\ elapsed' = TRUE
  /\ UNCHANGED <<step, requests, control, sourceVars, tunerVars, capturing,
                 captured, write_error, mistuned, last_failed, iq_capture_failed,
                 triggerVars, exportVars, stale>>

Done == step = "done" /\ UNCHANGED vars

Loop ==
  \/ PollEvents \/ Interrupt \/ ChangeFftSize \/ ToggleCapture \/ RequestExport \/ TakeTune
  \/ ApplyToDevice \/ CheckCapture \/ SetOverlays \/ PresentAgain \/ DrawFrame
  \/ StopSource \/ Finish

Next == Loop \/ Deliver \/ WriteFails \/ TimePasses \/ Done

Spec == Init /\ [][Next]_vars

\* The loop goes round: it never waits for events, 8 ms for a frame, and for a
\* capture's writer until that has drained its ring.
FairSpec == Spec /\ WF_vars(Loop)

-----------------------------------------------------------------------------
(* Properties *)

LoopType ==
  /\ step \in {"poll", "fft", "toggle", "export", "tune", "device", "capture",
               "overlays", "frame", "exit", "stopped", "done"}
  /\ requests \subseteq OneShots
ControlType ==
  /\ control \in Controls /\ current_fft_size \in FftSizes
  /\ device \in Tunings /\ applied \in Tunings
  /\ refused \subseteq {"frequency", "gain"}
  /\ s_last_freq \in {0} \cup Frequencies
  /\ received \in Seq(Tunings) /\ Len(received) <= Backlog
  /\ gathering \subseteq Tunings /\ queue \subseteq Tunings
  /\ stale \in {-1, 0} \cup Nat
CaptureType ==
  /\ capturing \in BOOLEAN /\ write_error \in BOOLEAN /\ elapsed \in BOOLEAN
  /\ mistuned \in BOOLEAN /\ iq_capture_failed \in BOOLEAN
  /\ last_failed \in BOOLEAN /\ captured \subseteq Controls
  /\ capturing <=> captured # {}
FrameType ==
  /\ armed \in BOOLEAN /\ frozen \in BOOLEAN /\ capture_pending \in BOOLEAN
  /\ pending_export \subseteq Controls
  /\ readback \subseteq [controls : Controls, frozen : BOOLEAN]

\* Each variable keeps its type.
TypeOK == LoopType /\ ControlType /\ CaptureType /\ FrameType

\* While a capture runs, frequency, gain and FFT size stay what its sidecar
\* says, whatever keys, clicks and toggles one batch of events brings.
CaptureKeepsItsReceiver ==
  \A c \in captured : /\ Tuning(control) = Tuning(c)
                      /\ control.fft = c.fft /\ current_fft_size = c.fft

\* From the first pass over apply_to_device() on, the tuner is told nothing but
\* what the sidecar says, and differs from it only in a setting that it refused
\* when it was last told: such a capture is mislabelled to its end.
TunerMatchesSidecar ==
  step \notin {"export", "tune", "device"} =>
    \A c \in captured : applied = Tuning(c) /\ Missed(c, device) \subseteq refused

\* While the trigger holds a frame, nothing that describes it changes.
HeldFrameKeepsItsControls ==
  [][(frozen /\ frozen') => UNCHANGED <<control, current_fft_size>>]_vars

\* The export of a held frame says of it what the panel in it says.
ExportDescribesHeldFrame ==
  \A m \in pending_export, r \in readback : r.frozen => m = r.controls

\* After a retune the frames shown that hold samples of another channel than the
\* tuner's are those the driver's backlog fills and the one being gathered: none
\* of the frames queued before it.
SnapsToNewChannel == stale <= Backlog + 1

\* A write error or the duration ends the capture, also while the display is
\* frozen and while no samples arrive.
CaptureEnds == (capturing /\ (write_error \/ elapsed)) ~> ~capturing

\* docs/TECHNICAL.md: the sidecar's frequency and gain hold for the whole file.
SidecarHoldsForTheFile == ~mistuned

\* The comment on the status: the last capture failed, until the next starts.
FailureIsShown ==
  (step \in {"overlays", "frame"} /\ ~capturing /\ last_failed) =>
    IqStatus = "REC ERR"
=============================================================================
