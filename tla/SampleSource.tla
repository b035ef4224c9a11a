---------------------------- MODULE SampleSource ----------------------------
(***************************************************************************)
(* What main() and the pipeline rely on of any producer of samples         *)
(* (src/hardware/sample_source.h): frames of at most chunk_size samples    *)
(* come through the callback from start() until stop() returns and at no   *)
(* other time, and dropped_samples() only ever counts up, while it runs.   *)
(***************************************************************************)
EXTENDS Naturals

CONSTANT ChunkSizes   \* the chunk sizes main() may ask for

VARIABLES
  phase,    \* "stopped", "started", or "stopping": inside stop()
  chunk,    \* the chunk size of the last start()
  handed,   \* samples given to the frame callback so far
  dropped   \* what dropped_samples() returns

contractVars == <<phase, chunk, handed, dropped>>

Init == phase = "stopped" /\ chunk = 0 /\ handed = 0 /\ dropped = 0

Start(size) ==
  /\ phase = "stopped"
  /\ phase' = "started" /\ chunk' = size
  /\ UNCHANGED <<handed, dropped>>

HandFrame(samples) ==
  /\ phase # "stopped"
  /\ handed' = handed + samples
  /\ UNCHANGED <<phase, chunk, dropped>>

LoseSamples ==
  /\ phase # "stopped"
  /\ dropped' \in Nat /\ dropped' >= dropped
  /\ UNCHANGED <<phase, chunk, handed>>

AskStop ==
  /\ phase = "started"
  /\ phase' = "stopping"
  /\ UNCHANGED <<chunk, handed, dropped>>

StopReturns ==
  /\ phase = "stopping"
  /\ phase' = "stopped"
  /\ UNCHANGED <<chunk, handed, dropped>>

Next == \/ \E size \in ChunkSizes : Start(size)
        \/ \E samples \in 1..chunk : HandFrame(samples)
        \/ LoseSamples
        \/ AskStop
        \/ StopReturns

Spec == Init /\ [][Next]_contractVars
=============================================================================
