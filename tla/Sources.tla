------------------------------- MODULE Sources -------------------------------
(***************************************************************************)
(* The one place a receiver is chosen (src/main.cpp): the program runs     *)
(* with one of its three sources, and calls it through the same interface. *)
(* The contract of that interface, SampleSource, is what each implements.  *)
(***************************************************************************)
EXTENDS Integers

CONSTANTS ChunkSizes, UntimedPackets, MaxClock, TransferSamples, MaxTransfers,
          FileSamples, ResyncAfter, ReadMayFail, MaxHanded, MaxStarts

\* The bounds may be anything; a transfer, a file and a chunk are never empty.
ASSUME SourcesAssumption ==
  /\ ChunkSizes \subseteq Nat \ {0}
  /\ TransferSamples \in Nat \ {0} /\ FileSamples \in Nat \ {0}
  /\ ResyncAfter \in Nat
  /\ MaxClock \in Nat /\ MaxTransfers \in Nat /\ MaxHanded \in Nat
  /\ MaxStarts \in Nat
  /\ UntimedPackets \in BOOLEAN /\ ReadMayFail \in BOOLEAN

VARIABLES
  source,    \* the class of main's SampleSource
  caller, thread, m_running, chunk, dropped, handed, starts,
  clock, have_expected, expected, n, packets, spanned, untimed,
  m_streaming, cancelled, offset, transferred, cancel_lost,
  due, ahead, burst, position, frame, follows, misread

uhdVars == <<clock, have_expected, expected, n, packets, spanned, untimed>>
rtlVars == <<m_streaming, cancelled, offset, transferred, cancel_lost>>
playVars == <<due, ahead, burst, position, frame, follows, misread>>
vars == <<source, caller, thread, m_running, chunk, dropped, handed, starts,
          uhdVars, rtlVars, playVars>>

Uhd == INSTANCE UhdSource
Rtl == INSTANCE RtlSource
Playback == INSTANCE PlaybackSource

\* --play wins over --uhd, and --uhd over the RTL-SDR.
Init == /\ source \in {"Playback", "Uhd", "Rtl"}
        /\ Uhd!Init /\ Rtl!Init /\ Playback!Init

Next ==
  \/ /\ source = "Uhd"
     /\ Uhd!Next
     /\ UNCHANGED <<source, rtlVars, playVars>>
  \/ /\ source = "Rtl"
     /\ Rtl!Next
     /\ UNCHANGED <<source, uhdVars, playVars>>
  \/ /\ source = "Playback"
     /\ Playback!Next
     /\ UNCHANGED <<source, uhdVars, rtlVars>>

Spec == Init /\ [][Next]_vars

Fairness == /\ source = "Uhd" => Uhd!Fairness
            /\ source = "Rtl" => Rtl!Fairness
            /\ source = "Playback" => Playback!Fairness

FairSpec == Spec /\ Fairness

-----------------------------------------------------------------------------
\* A source that can lose samples accounts for every one of them, once.
EveryLossIsCounted == /\ source = "Uhd" => Uhd!EveryLossIsCounted
                      /\ source = "Rtl" => Rtl!EveryLossIsCounted

\* A file plays without a seam, at the rate it was recorded at.
PlaybackIsSeamless == source = "Playback" => Playback!PlaybackIsSeamless
PlaybackIsPaced == source = "Playback" => Playback!PlaybackIsPaced

\* stop() joins the producer thread and returns, whatever the thread is doing,
\* unless the RTL's cancel came before its thread had entered the read.
StopJoins == (caller \in {"cancelling", "stopping"} /\ ~cancel_lost)
               ~> (caller = "idle" \/ cancel_lost)

\* Whichever source it is, main() and the pipeline see the same contract.
Contract == INSTANCE SampleSource WITH
  phase <- CASE caller = "idle" -> "stopped"
             [] caller = "running" -> "started"
             [] OTHER -> "stopping"
ImplementsSampleSource == Contract!Spec
=============================================================================
