---------------------------- MODULE MainLoop_proofs ----------------------------
(***************************************************************************)
(* Proofs about main()'s loop, for every set of tunings, FFT sizes and     *)
(* looks: what a sidecar and an export say holds, a held frame keeps the   *)
(* controls that describe it, and after a retune the old channel is shown  *)
(* for no longer than the driver's backlog lasts.                          *)
(***************************************************************************)
EXTENDS MainLoop, SequenceTheorems, TLAPS

-----------------------------------------------------------------------------
(* The inductive invariant, in parts. *)

Types ==
  /\ control \in Controls /\ current_fft_size \in FftSizes
  /\ device \in Tunings /\ applied \in Tunings
  /\ s_last_freq \in {0, applied.frequency}
  /\ received \in Seq(Tunings) /\ Len(received) <= Backlog
  /\ step \in {"poll", "fft", "toggle", "export", "tune", "device", "capture",
               "overlays", "frame", "exit", "stopped", "done"}

\* A new FFT size is a request until the stream runs with it; in a freeze there
\* is none.
FftInv ==
  /\ step \notin {"fft", "exit", "stopped", "done"} =>
       control.fft = current_fft_size
  /\ step = "fft" /\ (frozen \/ "fft" \notin requests) =>
       control.fft = current_fft_size

\* Whatever differs from what the tuner was told last was refused then.
CaptureInv ==
  /\ capturing <=> captured # {}
  /\ CaptureKeepsItsReceiver
  /\ step \notin {"export", "tune", "device"} =>
       \A c \in captured : applied = Tuning(c)
  /\ Missed(applied, device) \subseteq refused

\* A frame is read back for an export only, and exported at the next poll;
\* while one is awaited in a freeze, the stash is what the panel says.
ExportInv ==
  /\ step \notin {"poll", "exit", "stopped", "done"} => readback = {}
  /\ step \in {"poll", "fft", "toggle", "export"} => ~capture_pending
  /\ capture_pending \/ readback # {} => pending_export # {}
  /\ (frozen /\ capture_pending /\ step \notin {"exit", "stopped", "done"}) =>
       \A m \in pending_export : m = Metadata
  /\ ExportDescribesHeldFrame

\* Of the deliveries still to come only the first n may be of another channel;
\* the frames these and the accumulator may still fill; those shown or queued.
OldUpTo(n) ==
  \A k \in n+1..Len(received) : received[k].frequency = device.frequency
Filled(n) == IF n > 0 \/ HasOld(gathering) THEN n + 1 ELSE 0
Shown == IF HasOld(queue) THEN stale + 1 ELSE stale

ChannelInv ==
  /\ stale \in Nat \cup {-1}
  /\ stale # -1 =>
       /\ s_last_freq # 0
       /\ \E n \in 0..Len(received) :
            OldUpTo(n) /\ Shown + Filled(n) <= Backlog + 1

Inv == Types /\ FftInv /\ CaptureInv /\ ExportInv /\ ChannelInv

\* A tuning, and a record of controls, is what its fields are.
LEMMA TuningType ==
  ASSUME NEW c \in Controls
  PROVE  /\ Tuning(c) \in Tunings
         /\ Tuning(c).frequency = c.frequency /\ Tuning(c).gain = c.gain
BY DEF Controls, Tunings, Tuning

LEMMA SameControls ==
  ASSUME NEW c \in Controls, NEW d \in Controls, Tuning(c) = Tuning(d),
         c.fft = d.fft, c.look = d.look
  PROVE  c = d
<1>1. c.frequency = d.frequency /\ c.gain = d.gain
  BY TuningType
<1> QED BY <1>1 DEF Controls

LEMMA MetadataType ==
  ASSUME Types
  PROVE  /\ Metadata \in Controls
         /\ Metadata.fft = current_fft_size
         /\ Tuning(Metadata) = Tuning(control)
BY DEF Types, Metadata, Controls, Tuning

LEMMA TuningOfTuning ==
  ASSUME NEW c \in Controls, NEW t \in Tunings
  PROVE  Missed(Tuning(c), t) = Missed(c, t)
BY DEF Missed, Tuning

\* Programming keeps the tunings' types, and the tuner differs from what it was
\* told last only in a setting that was refused; one that is not set stays.
LEMMA ProgramStep ==
  ASSUME Types, Missed(applied, device) \subseteq refused, Program
  PROVE  /\ device' \in Tunings /\ applied' = Tuning(control)
         /\ Missed(applied', device') \subseteq refused'
         /\ control.frequency = applied.frequency =>
              device'.frequency = device.frequency
<1>1. PICK f \in IF SetsFrequency THEN Frequencies ELSE {device.frequency},
           g \in IF SetsGain THEN Gains ELSE {device.gain} :
             device' = [frequency |-> f, gain |-> g]
  BY DEF Program
<1>2. f \in Frequencies /\ g \in Gains
  BY DEF Types, Tunings
<1>3. device' \in Tunings /\ device'.frequency = f /\ device'.gain = g
  BY <1>1, <1>2 DEF Tunings
<1>4. applied' = Tuning(control) /\ control \in Controls
  BY DEF Program, Types
<1>5. Missed(control, device') \subseteq refused'
  <2> SUFFICES ASSUME NEW setting \in Missed(control, device')
               PROVE  setting \in refused'
    OBVIOUS
  <2>1. setting \in {"frequency", "gain"} /\ device'[setting] # control[setting]
    BY DEF Missed
  <2>2. CASE setting = "frequency" /\ ~SetsFrequency
    <3>1. device'["frequency"] = device["frequency"]
          /\ control["frequency"] = applied["frequency"]
      BY <1>3, <2>2 DEF SetsFrequency
    <3>2. setting \in Missed(applied, device)
      BY <2>1, <2>2, <3>1 DEF Missed
    <3> QED BY <3>2 DEF Program
  <2>3. CASE setting = "gain" /\ ~SetsGain
    <3>1. device'["gain"] = device["gain"] /\ control["gain"] = applied["gain"]
      BY <1>3, <2>3 DEF SetsGain
    <3>2. setting \in Missed(applied, device)
      BY <2>1, <2>3, <3>1 DEF Missed
    <3> QED BY <3>2 DEF Program
  <2> QED BY <2>1, <2>2, <2>3 DEF Program
<1>6. Missed(applied', device') \subseteq refused'
  BY <1>3, <1>4, <1>5, TuningOfTuning
<1>7. control.frequency = applied.frequency =>
        device'.frequency = device.frequency
  BY <1>3 DEF SetsFrequency
<1> QED BY <1>3, <1>4, <1>6, <1>7

\* What waits when the tuner changes waits in order, with what was received
\* under the last tuning behind it, and within the backlog.
LEMMA ReceivedStep ==
  ASSUME Types, KeepReceived
  PROVE  /\ received' \in Seq(Tunings) /\ Len(received') <= Backlog
         /\ Len(received) <= Len(received')
         /\ \A k \in 1..Len(received) : received'[k] = received[k]
         /\ \A k \in Len(received)+1..Len(received') : received'[k] = device
<1> USE LoopAssumption DEF Types
<1>1. CASE UNCHANGED received
  BY <1>1
<1>2. CASE \E n \in 0..(Backlog - Len(received)) :
             received' = received \o [k \in 1..n |-> device]
  <2>1. PICK n \in 0..(Backlog - Len(received)) :
               received' = received \o [k \in 1..n |-> device]
    BY <1>2
  <2> DEFINE tail == [k \in 1..n |-> device]
  <2>2. n \in Nat /\ Len(received) \in Nat /\ Len(received) + n <= Backlog
    BY <2>1
  <2>3. tail \in Seq(Tunings) /\ Len(tail) = n
    BY <2>2
  <2>4. \A k \in 1..n : tail[k] = device
    OBVIOUS
  <2> HIDE DEF tail
  <2>5. received' = received \o tail
    BY <2>1 DEF tail
  <2>6. received' \in Seq(Tunings) /\ Len(received') = Len(received) + n
    BY <2>3, <2>5, ConcatProperties
  <2>7. \A k \in 1..Len(received) : received'[k] = received[k]
    BY <2>2, <2>3, <2>5
  <2>8. ASSUME NEW k \in Len(received)+1..Len(received')
        PROVE  received'[k] = device
    <3>1. k - Len(received) \in 1..n
      BY <2>2, <2>6
    <3>2. received'[k] = tail[k - Len(received)]
      BY <2>2, <2>3, <2>5, <2>6
    <3> QED BY <2>4, <3>1, <3>2
  <2> QED BY <2>2, <2>6, <2>7, <2>8
<1> QED BY <1>1, <1>2 DEF KeepReceived

LEMMA InitInv == Init => Inv
<1> SUFFICES ASSUME Init PROVE Inv
  OBVIOUS
<1>1. Types
  BY TuningType, LoopAssumption DEF Init, Types, Controls
<1>2. FftInv /\ CaptureInv
  BY DEF Init, FftInv, CaptureInv, CaptureKeepsItsReceiver
<1>3. ExportInv
  BY DEF Init, ExportInv, ExportDescribesHeldFrame
<1>4. ChannelInv
  BY DEF Init, ChannelInv
<1> QED BY <1>1, <1>2, <1>3, <1>4 DEF Inv

LEMMA TypesStep == Types /\ CaptureInv /\ [Next]_vars => Types'
<1> SUFFICES ASSUME Types, CaptureInv, [Next]_vars PROVE Types'
  OBVIOUS
<1> USE DEF Types, sourceVars, openVars, exportVars, tunerVars, triggerVars
<1>1. CASE PollEvents
  BY <1>1 DEF PollEvents
<1>2. CASE Interrupt \/ RequestExport
  BY <1>2 DEF Interrupt, RequestExport
<1>3. CASE ChangeFftSize
  <2>1. received' \in {<<>>, received} /\ current_fft_size' \in FftSizes
    BY <1>3 DEF ChangeFftSize, Controls
  <2>2. received' \in Seq(Tunings) /\ Len(received') <= Backlog
    <3>1. <<>> \in Seq(Tunings) /\ Len(<<>>) = 0
      OBVIOUS
    <3>2. 0 <= Backlog
      BY LoopAssumption
    <3>3. received \in Seq(Tunings) /\ Len(received) <= Backlog
      OBVIOUS
    <3> QED BY ONLY <2>1, <3>1, <3>2, <3>3
  <2> QED BY <1>3, <2>1, <2>2 DEF ChangeFftSize
<1>4. CASE ToggleCapture \/ CheckCapture \/ Finish
  BY <1>4 DEF ToggleCapture, CheckCapture, Finish
<1>5. CASE TakeTune
  BY <1>5 DEF TakeTune, Controls
<1>6. CASE ApplyToDevice
  <2>1. Program /\ KeepReceived /\ s_last_freq' = control.frequency
        /\ step' = "capture" /\ UNCHANGED <<control, current_fft_size>>
    BY <1>6 DEF ApplyToDevice
  <2>2. device' \in Tunings /\ applied' = Tuning(control)
    BY <2>1, ProgramStep DEF CaptureInv
  <2>3. Tuning(control) \in Tunings /\ Tuning(control).frequency = control.frequency
    BY TuningType
  <2>4. received' \in Seq(Tunings) /\ Len(received') <= Backlog
    BY <2>1, ReceivedStep
  <2> QED BY <2>1, <2>2, <2>3, <2>4
<1>7. CASE SetOverlays \/ PresentAgain \/ StopSource
  BY <1>7 DEF SetOverlays, PresentAgain, StopSource
<1>8. CASE DrawFrame
  BY <1>8 DEF DrawFrame
<1>9. CASE Deliver
  <2>1. UNCHANGED <<control, current_fft_size, device, applied, s_last_freq, step>>
    BY <1>9 DEF Deliver
  <2>2. received' = IF received = <<>> THEN <<>> ELSE Tail(received)
    BY <1>9 DEF Deliver
  <2>3. received' \in Seq(Tunings) /\ Len(received') <= Backlog
    BY <2>2, LoopAssumption
  <2> QED BY <2>1, <2>3
<1>10. CASE WriteFails \/ TimePasses \/ Done \/ UNCHANGED vars
  BY <1>10 DEF WriteFails, TimePasses, Done, vars
<1> QED BY <1>1, <1>2, <1>3, <1>4, <1>5, <1>6, <1>7, <1>8, <1>9, <1>10 DEF Next, Loop

LEMMA FftStep == Types /\ FftInv /\ [Next]_vars => FftInv'
<1> SUFFICES ASSUME Types, FftInv, [Next]_vars PROVE FftInv'
  OBVIOUS
<1> USE DEF FftInv, sourceVars, openVars, exportVars, tunerVars, triggerVars
<1>1. CASE PollEvents
  BY <1>1 DEF PollEvents, KeysLeave, ControlsHeld
<1>2. CASE ChangeFftSize
  BY <1>2 DEF ChangeFftSize
<1>3. CASE TakeTune
  BY <1>3 DEF TakeTune, Types, Controls
<1>4. CASE Interrupt \/ RequestExport \/ ToggleCapture \/ CheckCapture \/ Finish
  BY <1>4 DEF Interrupt, RequestExport, ToggleCapture, CheckCapture, Finish
<1>5. CASE ApplyToDevice \/ SetOverlays \/ PresentAgain \/ StopSource
  BY <1>5 DEF ApplyToDevice, SetOverlays, PresentAgain, StopSource
<1>6. CASE DrawFrame
  BY <1>6 DEF DrawFrame
<1>7. CASE Deliver \/ WriteFails \/ TimePasses \/ Done \/ UNCHANGED vars
  BY <1>7 DEF Deliver, WriteFails, TimePasses, Done, vars
<1> QED BY <1>1, <1>2, <1>3, <1>4, <1>5, <1>6, <1>7 DEF Next, Loop

LEMMA CaptureStep == Types /\ FftInv /\ CaptureInv /\ [Next]_vars => CaptureInv'
<1> SUFFICES ASSUME Types, FftInv, CaptureInv, [Next]_vars PROVE CaptureInv'
  OBVIOUS
<1> USE DEF CaptureInv, CaptureKeepsItsReceiver, sourceVars, openVars, exportVars,
            tunerVars, triggerVars
<1>1. CASE PollEvents
  <2>1. capturing => Tuning(control') = Tuning(control) /\ control'.fft = control.fft
    BY <1>1 DEF PollEvents, KeysLeave, ReceiverHeld
  <2> QED BY <1>1, <2>1 DEF PollEvents, Tuning
<1>2. CASE ChangeFftSize
  BY <1>2 DEF ChangeFftSize
<1>3. CASE ToggleCapture
  <2>1. control.fft = current_fft_size
    BY <1>3 DEF ToggleCapture, FftInv
  <2>2. step' = "export" /\ control' = control /\ current_fft_size' = current_fft_size
        /\ UNCHANGED <<applied, device, refused>>
    BY <1>3 DEF ToggleCapture
  <2>3. CASE UNCHANGED openVars
    BY <2>2, <2>3
  <2>4. CASE StopCapture
    BY <2>2, <2>4 DEF StopCapture
  <2>5. CASE StartCapture /\ captured' = {Metadata} /\ capturing'
    BY <2>1, <2>2, <2>5, MetadataType DEF Tuning
  <2> QED BY <1>3, <2>3, <2>4, <2>5, <2>2 DEF ToggleCapture, StartCapture
<1>4. CASE TakeTune
  <2>1. capturing => control' = [control EXCEPT !.frequency = control.frequency]
    BY <1>4 DEF TakeTune, ClickTunes
  <2>2. capturing => control' = control
    BY <2>1 DEF Types, Controls
  <2> QED BY <1>4, <2>2 DEF TakeTune
<1>5. CASE ApplyToDevice
  <2>1. Program /\ step' = "capture"
        /\ UNCHANGED <<control, current_fft_size, capturing, captured>>
    BY <1>5 DEF ApplyToDevice
  <2>2. applied' = Tuning(control) /\ Missed(applied', device') \subseteq refused'
    BY <2>1, ProgramStep
  <2> QED BY <2>1, <2>2
<1>6. CASE CheckCapture \/ Finish
  BY <1>6 DEF CheckCapture, Finish, StopCapture
<1>7. CASE Interrupt \/ RequestExport \/ SetOverlays \/ PresentAgain \/ StopSource
  BY <1>7 DEF Interrupt, RequestExport, SetOverlays, PresentAgain, StopSource
<1>8. CASE DrawFrame
  BY <1>8 DEF DrawFrame
<1>9. CASE Deliver \/ WriteFails \/ TimePasses \/ Done \/ UNCHANGED vars
  BY <1>9 DEF Deliver, WriteFails, TimePasses, Done, vars
<1> QED BY <1>1, <1>2, <1>3, <1>4, <1>5, <1>6, <1>7, <1>8, <1>9 DEF Next, Loop

\* In a freeze neither a batch of events, nor a new FFT size, nor a click
\* changes what describes the held frame.
LEMMA FrozenControls ==
  ASSUME Types, FftInv, [Next]_vars, frozen
  PROVE  UNCHANGED <<control, current_fft_size>>
<1> USE DEF sourceVars, openVars, exportVars, tunerVars, triggerVars
<1>1. CASE PollEvents
  <2>1. PICK asked \in SUBSET OneShots, c \in Controls :
          KeysLeave(c, asked) /\ control' = c
    BY <1>1 DEF PollEvents
  <2>2. Tuning(c) = Tuning(control) /\ c.fft = control.fft /\ c.look = control.look
    BY <2>1 DEF KeysLeave, ControlsHeld
  <2>3. c = control
    BY <2>2, SameControls DEF Types
  <2> QED BY <1>1, <2>1, <2>3 DEF PollEvents
<1>2. CASE ChangeFftSize
  BY <1>2 DEF ChangeFftSize, FftInv
<1>3. CASE TakeTune
  BY <1>3 DEF TakeTune, ClickTunes, Types, Controls
<1>4. CASE Interrupt \/ RequestExport \/ ToggleCapture \/ CheckCapture \/ Finish
  BY <1>4 DEF Interrupt, RequestExport, ToggleCapture, CheckCapture, Finish
<1>5. CASE ApplyToDevice \/ SetOverlays \/ PresentAgain \/ StopSource \/ DrawFrame
  BY <1>5 DEF ApplyToDevice, SetOverlays, PresentAgain, StopSource, DrawFrame
<1>6. CASE Deliver \/ WriteFails \/ TimePasses \/ Done \/ UNCHANGED vars
  BY <1>6 DEF Deliver, WriteFails, TimePasses, Done, vars
<1> QED BY <1>1, <1>2, <1>3, <1>4, <1>5, <1>6 DEF Next, Loop

LEMMA ExportStep == Types /\ FftInv /\ ExportInv /\ [Next]_vars => ExportInv'
<1> SUFFICES ASSUME Types, FftInv, ExportInv, [Next]_vars PROVE ExportInv'
  OBVIOUS
<1> USE DEF ExportInv, ExportDescribesHeldFrame, sourceVars, openVars, exportVars,
            tunerVars, triggerVars
<1>0. frozen => Metadata' = Metadata
  BY FrozenControls DEF Metadata
<1>1. CASE PollEvents
  <2>1. /\ step = "poll" /\ step' \in {"fft", "exit"} /\ frozen' = frozen
        /\ ~capture_pending /\ ~capture_pending' /\ readback' = {}
    BY <1>1 DEF PollEvents
  <2> QED BY <2>1
<1>2. CASE RequestExport
  <2>1. Metadata' = Metadata /\ step = "export" /\ step' = "tune"
    BY <1>2 DEF RequestExport, Metadata
  <2> QED BY <1>2, <2>1 DEF RequestExport
<1>3. CASE PresentAgain
  <2>1. Metadata' = Metadata /\ step = "frame" /\ step' = "poll" /\ readback = {}
    BY <1>3 DEF PresentAgain, Metadata
  <2>2. ~capture_pending' /\ pending_export' = pending_export
        /\ (readback' = {} \/ (capture_pending /\ readback' = {Label}))
    BY <1>3, <2>1 DEF PresentAgain, Present
  <2> QED BY <2>1, <2>2 DEF Label
<1>4. CASE DrawFrame
  <2>1. step = "frame" /\ ~frozen /\ readback = {} /\ pending_export' = pending_export
    BY <1>4 DEF DrawFrame, Present
  <2>2. CASE step' = "poll"
    <3>1. ~capture_pending'
          /\ (readback' = {} \/ (capture_pending /\ readback' = {Label}))
      BY <1>4, <2>1, <2>2 DEF DrawFrame, Present
    <3> QED BY <2>1, <2>2, <3>1 DEF Label
  <2>3. CASE step' = "exit" /\ UNCHANGED exportVars
    BY <2>1, <2>3
  <2> QED BY <1>4, <2>2, <2>3 DEF DrawFrame
<1>5. CASE SetOverlays
  BY <1>0, <1>5 DEF SetOverlays, Metadata
<1>6. CASE ChangeFftSize \/ ToggleCapture \/ TakeTune
  BY <1>0, <1>6 DEF ChangeFftSize, ToggleCapture, TakeTune
<1>7. CASE Interrupt \/ ApplyToDevice \/ CheckCapture \/ StopSource \/ Finish
  BY <1>0, <1>7 DEF Interrupt, ApplyToDevice, CheckCapture, StopSource, Finish
<1>8. CASE Deliver \/ WriteFails \/ TimePasses \/ Done \/ UNCHANGED vars
  BY <1>0, <1>8 DEF Deliver, WriteFails, TimePasses, Done, vars
<1> QED BY <1>1, <1>2, <1>3, <1>4, <1>5, <1>6, <1>7, <1>8 DEF Next, Loop

\* A retune leaves the driver's backlog and the accumulator; any other call of
\* apply_to_device() leaves the tuner's channel.
LEMMA RetuneStep ==
  ASSUME Types, CaptureInv, ChannelInv, ApplyToDevice
  PROVE  ChannelInv'
<1>1. /\ Program /\ KeepReceived /\ gathering' = gathering
      /\ s_last_freq' = control.frequency /\ s_last_freq' # 0
  <2>1. control.frequency \in Frequencies
    BY DEF Types, Controls
  <2> QED BY <2>1, LoopAssumption DEF ApplyToDevice
<1>2. /\ received' \in Seq(Tunings) /\ Len(received') <= Backlog
      /\ Len(received) <= Len(received')
      /\ \A k \in 1..Len(received) : received'[k] = received[k]
      /\ \A k \in Len(received)+1..Len(received') : received'[k] = device
  BY <1>1, ReceivedStep
<1>3. Len(received) \in Nat /\ Len(received') \in Nat /\ Backlog \in Nat
  BY <1>2, LoopAssumption DEF Types
<1>4. CASE s_last_freq \notin {0, control.frequency}
  <2>1. stale' = 0 /\ queue' = {}
    BY <1>4 DEF ApplyToDevice, QueueAfterTuning
  <2>2. Shown' = 0
    BY <2>1 DEF Shown, HasOld
  <2>3. OldUpTo(Len(received))'
    BY <1>3 DEF OldUpTo
  <2>4. Filled(Len(received))' \in 0..Len(received')+1
    BY <1>3 DEF Filled
  <2>5. \E n \in 0..Len(received') :
          OldUpTo(n)' /\ Shown' + Filled(n)' <= Backlog + 1
    <3>1. Shown' + Filled(Len(received))' <= Backlog + 1
      BY <1>2, <1>3, <2>2, <2>4
    <3> QED BY <1>3, <2>3, <3>1
  <2> QED BY <1>1, <2>1, <2>5 DEF ChannelInv
<1>5. CASE s_last_freq \in {0, control.frequency} /\ stale = -1
  BY <1>1, <1>5 DEF ApplyToDevice, ChannelInv
<1>6. CASE s_last_freq \in {0, control.frequency} /\ stale # -1
  <2>1. stale' = stale /\ queue' = queue
    BY <1>6 DEF ApplyToDevice, QueueAfterTuning
  <2>2. control.frequency = applied.frequency
    BY <1>6 DEF ChannelInv, Types
  <2>3. device'.frequency = device.frequency
    BY <1>1, <2>2, ProgramStep DEF CaptureInv
  <2>4. PICK n \in 0..Len(received) :
               OldUpTo(n) /\ Shown + Filled(n) <= Backlog + 1
    BY <1>6 DEF ChannelInv
  <2>5. OldUpTo(n)'
    <3> SUFFICES ASSUME NEW k \in n+1..Len(received')
                 PROVE  received'[k].frequency = device'.frequency
      BY DEF OldUpTo
    <3>1. CASE k <= Len(received)
      <4>1. k \in 1..Len(received) /\ k \in n+1..Len(received)
        BY <1>3, <3>1
      <4>2. received[k].frequency = device.frequency
        BY <2>4, <4>1 DEF OldUpTo
      <4> QED BY <1>2, <2>3, <4>1, <4>2
    <3>2. CASE k > Len(received)
      <4>1. k \in Len(received)+1..Len(received')
        BY <1>3, <3>2
      <4> QED BY <1>2, <2>3, <4>1
    <3> QED BY <1>3, <3>1, <3>2
  <2>6. Shown' = Shown /\ Filled(n)' = Filled(n)
    BY <1>1, <2>1, <2>3 DEF Shown, Filled, HasOld
  <2>7. n \in 0..Len(received')
    BY <1>2, <1>3
  <2>8. stale' \in Nat \cup {-1}
    BY <2>1 DEF ChannelInv
  <2> QED BY <1>1, <2>4, <2>5, <2>6, <2>7, <2>8 DEF ChannelInv
<1> QED BY <1>4, <1>5, <1>6

\* A delivery takes one from the backlog and fills one frame at most.
LEMMA DeliverStep ==
  ASSUME Types, ChannelInv, Deliver
  PROVE  ChannelInv'
<1>0. received \in Seq(Tunings) /\ Len(received) \in Nat /\ Backlog \in Nat
      /\ stale \in Nat \cup {-1}
  BY LoopAssumption DEF Types, ChannelInv
<1>1. UNCHANGED <<device, s_last_freq, stale>>
  BY DEF Deliver, tunerVars
<1>2. CASE stale = -1
  BY <1>1, <1>2 DEF ChannelInv
<1>3. CASE stale \in Nat
  <2>1. PICK n \in 0..Len(received) :
               OldUpTo(n) /\ Shown + Filled(n) <= Backlog + 1
    BY <1>3 DEF ChannelInv
  <2>2. PICK t : /\ t = IF received = <<>> THEN device ELSE Head(received)
                 /\ \/ gathering' = gathering \cup {t} /\ queue' = queue
                    \/ queue' = gathering \cup {t} /\ gathering' \subseteq {t}
    BY DEF Deliver
  <2>3. received' = IF received = <<>> THEN <<>> ELSE Tail(received)
    BY DEF Deliver
  <2>4. CASE n = 0
    <3>1. t.frequency = device.frequency
      BY <1>0, <2>1, <2>2, <2>4 DEF OldUpTo
    <3>2. OldUpTo(0)' /\ 0 \in 0..Len(received')
      BY <1>0, <1>1, <2>1, <2>3, <2>4 DEF OldUpTo
    <3>3. Shown' + Filled(0)' <= Shown + Filled(0)
      <4>1. CASE gathering' = gathering \cup {t} /\ queue' = queue
        <5>1. (HasOld(gathering)' <=> HasOld(gathering))
              /\ (HasOld(queue)' <=> HasOld(queue))
          BY <1>1, <3>1, <4>1 DEF HasOld
        <5> QED BY <1>1, <1>3, <5>1 DEF Shown, Filled
      <4>2. CASE queue' = gathering \cup {t} /\ gathering' \subseteq {t}
        <5>1. ~HasOld(gathering)' /\ (HasOld(queue)' <=> HasOld(gathering))
          BY <1>1, <3>1, <4>2 DEF HasOld
        <5> QED BY <1>1, <1>3, <5>1 DEF Shown, Filled
      <4> QED BY <2>2, <4>1, <4>2
    <3>4. Shown' \in Int /\ Filled(0)' \in Int /\ Shown \in Int /\ Filled(0) \in Int
      BY <1>1, <1>3 DEF Shown, Filled
    <3>5. Shown' + Filled(0)' <= Backlog + 1
      BY <1>0, <2>1, <2>4, <3>3, <3>4
    <3> QED BY <1>1, <1>3, <2>1, <3>2, <3>5 DEF ChannelInv
  <2>5. CASE n > 0
    <3>1. received # <<>> /\ received' = Tail(received)
          /\ Len(received') = Len(received) - 1
      BY <1>0, <2>1, <2>3, <2>5
    <3>2. OldUpTo(n - 1)' /\ n - 1 \in 0..Len(received')
      BY <1>0, <1>1, <2>1, <2>5, <3>1 DEF OldUpTo
    <3>3. Filled(n) = n + 1 /\ Filled(n - 1)' \in 0..n
      BY <1>0, <2>1, <2>5 DEF Filled
    <3>4. Shown' \in {stale, stale + 1} /\ Shown \in {stale, stale + 1}
      BY <1>1 DEF Shown
    <3>5. Shown' + Filled(n - 1)' <= Backlog + 1
      BY <1>0, <1>3, <2>1, <3>3, <3>4
    <3> QED BY <1>1, <1>3, <2>1, <3>2, <3>5 DEF ChannelInv
  <2> QED BY <2>1, <2>4, <2>5
<1> QED BY <1>0, <1>2, <1>3

\* The restart of the stream for a new FFT size leaves nothing of any channel.
LEMMA RestartStep ==
  ASSUME Types, ChannelInv, ChangeFftSize
  PROVE  ChannelInv'
<1>1. UNCHANGED <<device, s_last_freq, stale>>
  BY DEF ChangeFftSize, tunerVars
<1>2. CASE UNCHANGED sourceVars
  BY <1>1, <1>2 DEF sourceVars, ChannelInv, OldUpTo, Filled, Shown, HasOld
<1>3. CASE received' = <<>> /\ gathering' = {} /\ queue' = {}
  <2>1. CASE stale = -1
    BY <1>1, <2>1 DEF ChannelInv
  <2>2. CASE stale \in Nat
    <3>1. PICK n \in 0..Len(received) :
                 OldUpTo(n) /\ Shown + Filled(n) <= Backlog + 1
      BY <2>2 DEF ChannelInv
    <3>2. stale <= Backlog + 1
      BY <2>2, <3>1, LoopAssumption DEF Types, Shown, Filled
    <3>3. OldUpTo(0)' /\ 0 \in 0..Len(received')
      BY <1>3 DEF OldUpTo
    <3>4. Shown' = stale /\ Filled(0)' = 0
      BY <1>1, <1>3 DEF Shown, Filled, HasOld
    <3>5. Shown' + Filled(0)' <= Backlog + 1
      BY <2>2, <3>2, <3>4
    <3> QED BY <1>1, <2>2, <3>1, <3>3, <3>5 DEF ChannelInv
  <2> QED BY <2>1, <2>2 DEF ChannelInv
<1> QED BY <1>2, <1>3 DEF ChangeFftSize

LEMMA ChannelStep ==
  Types /\ CaptureInv /\ ChannelInv /\ [Next]_vars => ChannelInv'
<1> SUFFICES ASSUME Types, CaptureInv, ChannelInv, [Next]_vars PROVE ChannelInv'
  OBVIOUS
<1> USE DEF sourceVars, openVars, exportVars, tunerVars, triggerVars
<1>0. received \in Seq(Tunings) /\ Len(received) \in Nat /\ Backlog \in Nat
      /\ stale \in Nat \cup {-1}
  BY LoopAssumption DEF Types, ChannelInv
<1>1. CASE ApplyToDevice
  BY <1>1, RetuneStep
<1>2. CASE Deliver
  BY <1>2, DeliverStep
<1>3. CASE DrawFrame
  <2>1. /\ queue' = {} /\ UNCHANGED <<received, gathering, device, s_last_freq>>
        /\ stale' = IF stale >= 0 /\ HasOld(queue) THEN stale + 1 ELSE stale
    BY <1>3 DEF DrawFrame
  <2>2. CASE stale = -1
    BY <2>1, <2>2 DEF ChannelInv
  <2>3. CASE stale \in Nat
    <3>1. PICK n \in 0..Len(received) :
                 OldUpTo(n) /\ Shown + Filled(n) <= Backlog + 1
      BY <2>3 DEF ChannelInv
    <3>2. OldUpTo(n)' /\ Filled(n)' = Filled(n)
      BY <2>1, <3>1 DEF OldUpTo, Filled, HasOld
    <3>3. stale' = Shown /\ Shown' = stale' /\ stale' \in Nat
      BY <2>1, <2>3 DEF Shown, HasOld
    <3>4. Shown' + Filled(n)' <= Backlog + 1
      BY <3>1, <3>2, <3>3
    <3> QED BY <2>1, <2>3, <3>1, <3>2, <3>3, <3>4 DEF ChannelInv
  <2> QED BY <1>0, <2>2, <2>3
<1>4. CASE ChangeFftSize
  BY <1>4, RestartStep
<1>5. CASE UNCHANGED <<received, gathering, queue, device, s_last_freq, stale>>
  BY <1>5 DEF ChannelInv, OldUpTo, Filled, Shown, HasOld
<1>6. CASE PollEvents \/ TakeTune
  BY <1>5, <1>6 DEF PollEvents, TakeTune
<1>7. CASE Interrupt \/ ToggleCapture \/ RequestExport \/ CheckCapture
  BY <1>5, <1>7 DEF Interrupt, ToggleCapture, RequestExport, CheckCapture
<1>8. CASE SetOverlays \/ PresentAgain \/ StopSource \/ Finish
  BY <1>5, <1>8 DEF SetOverlays, PresentAgain, StopSource, Finish
<1>9. CASE WriteFails \/ TimePasses \/ Done \/ UNCHANGED vars
  BY <1>5, <1>9 DEF WriteFails, TimePasses, Done, vars
<1> QED BY <1>1, <1>2, <1>3, <1>4, <1>6, <1>7, <1>8, <1>9 DEF Next, Loop

LEMMA Invariance == Spec => []Inv
<1>1. Inv /\ [Next]_vars => Inv'
  BY TypesStep, FftStep, CaptureStep, ExportStep, ChannelStep DEF Inv
<1> QED BY InitInv, <1>1, PTL DEF Spec

-----------------------------------------------------------------------------
(* The theorems. *)

\* While a capture runs, the frequency, the gain and the FFT size are those its
\* sidecar was opened with: no batch of keys, no click and no toggle gets past
\* hold_receiver() and the guard on Ctrl+clicks.
THEOREM ReceiverIsHeld == Spec => []CaptureKeepsItsReceiver
<1>1. Inv => CaptureKeepsItsReceiver
  BY DEF Inv, CaptureInv
<1> QED BY Invariance, <1>1, PTL

\* From the first apply_to_device() after its start on, a capture's tuner is told
\* nothing but what the sidecar says, and is there but for a setting it refused
\* when it was last told: a refused setting is not retried, an applied one not
\* undone.
THEOREM TunerIsHeld == Spec => []TunerMatchesSidecar
<1>1. Inv => TunerMatchesSidecar
  <2> SUFFICES ASSUME Inv, step \notin {"export", "tune", "device"},
                      NEW c \in captured
               PROVE  applied = Tuning(c) /\ Missed(c, device) \subseteq refused
    BY DEF TunerMatchesSidecar
  <2>1. applied = Tuning(c) /\ Missed(applied, device) \subseteq refused
    BY DEF Inv, CaptureInv
  <2>2. Missed(Tuning(c), device) = Missed(c, device)
    BY DEF Missed, Tuning
  <2> QED BY <2>1, <2>2
<1> QED BY Invariance, <1>1, PTL

\* An export of a held frame stashes, a pass before the frame is read back,
\* what the panel in that frame says.
THEOREM ExportIsOfHeldFrame == Spec => []ExportDescribesHeldFrame
<1>1. Inv => ExportDescribesHeldFrame
  BY DEF Inv, ExportInv
<1> QED BY Invariance, <1>1, PTL

\* After a retune no more frames of another channel are shown than the backlog
\* of the driver and the transfer being cut can fill, and one for what was being
\* gathered: of the frames queued before it none is.
THEOREM BacklogOnly == Spec => []SnapsToNewChannel
<1>1. Inv => SnapsToNewChannel
  <2> SUFFICES ASSUME Inv, stale # -1 PROVE stale <= Backlog + 1
    BY LoopAssumption DEF SnapsToNewChannel
  <2>1. PICK n \in 0..Len(received) : Shown + Filled(n) <= Backlog + 1
    BY DEF Inv, ChannelInv
  <2>2. stale \in Nat /\ Len(received) \in Nat /\ Backlog \in Nat
    BY LoopAssumption DEF Inv, ChannelInv, Types
  <2>3. Shown \in {stale, stale + 1} /\ Filled(n) \in Nat
    BY <2>1, <2>2 DEF Shown, Filled
  <2> QED BY <2>1, <2>2, <2>3
<1> QED BY Invariance, <1>1, PTL

\* No step inside a freeze changes the controls or the FFT size, which the
\* panel and the scales of the held frame are drawn from.
THEOREM HeldFrameIsDescribed == Spec => HeldFrameKeepsItsControls
<1>1. Inv /\ [Next]_vars =>
        [(frozen /\ frozen') => UNCHANGED <<control, current_fft_size>>]_vars
  BY FrozenControls DEF Inv
<1> QED BY Invariance, <1>1, PTL DEF Spec, HeldFrameKeepsItsControls
=============================================================================
