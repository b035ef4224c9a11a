----------------------------- MODULE IqCapture ------------------------------
(***************************************************************************)
(* What a capture promises, without ring, threads or buffers: while it is  *)
(* open every delivered batch is either accepted or lost as a whole; what  *)
(* is stored is always a prefix of what was accepted; once closed without  *)
(* a failure everything accepted is stored; and a stop ends.               *)
(***************************************************************************)
EXTENDS Naturals, Sequences

CONSTANT BatchSizes

VARIABLES phase,     \* "idle", "open" or "stopping"
          accepted,  \* the samples accepted, each its place in the stream
          offered,   \* samples delivered to the capture
          lost,      \* samples in batches that were not accepted
          stored,    \* the samples the capture's file holds
          failed     \* a write error ended the storing

vars == <<phase, accepted, offered, lost, stored, failed>>

Prefixes(s) == {SubSeq(s, 1, n) : n \in 0..Len(s)}

Init ==
  /\ phase = "idle" /\ offered = 0 /\ lost = 0 /\ failed = FALSE
  /\ accepted = <<>> /\ stored = <<>>

\* Starting over; the capture may turn out not to be possible.
Clear ==
  /\ phase = "idle"
  /\ offered' = 0 /\ lost' = 0 /\ failed' = FALSE
  /\ accepted' = <<>> /\ stored' = <<>>
  /\ UNCHANGED phase

Open ==
  /\ phase = "idle"
  /\ accepted = <<>> /\ stored = <<>> /\ offered = 0 /\ lost = 0 /\ ~failed
  /\ phase' = "open"
  /\ UNCHANGED <<accepted, offered, lost, stored, failed>>

Accept(n) ==
  /\ phase = "open"
  /\ accepted' = accepted \o [k \in 1..n |-> offered + k - 1]
  /\ offered' = offered + n
  /\ UNCHANGED <<phase, lost, stored, failed>>

Lose(n) ==
  /\ phase = "open"
  /\ offered' = offered + n
  /\ lost' = lost + n
  /\ UNCHANGED <<phase, accepted, stored, failed>>

\* More of what was accepted reaches the file.
Store ==
  /\ phase # "idle" /\ ~failed
  /\ stored' \in Prefixes(accepted) /\ Len(stored') > Len(stored)
  /\ UNCHANGED <<phase, accepted, offered, lost, failed>>

\* A write error: the end of what was stored may be gone.
Fail ==
  /\ phase # "idle" /\ ~failed
  /\ failed' = TRUE
  /\ stored' \in Prefixes(accepted)
  /\ UNCHANGED <<phase, accepted, offered, lost>>

BeginStop ==
  /\ phase = "open"
  /\ phase' = "stopping"
  /\ UNCHANGED <<accepted, offered, lost, stored, failed>>

Close ==
  /\ phase = "stopping"
  /\ failed \/ stored = accepted
  /\ phase' = "idle"
  /\ UNCHANGED <<accepted, offered, lost, stored, failed>>

Next ==
  \/ Clear \/ Open \/ BeginStop \/ Close \/ Store \/ Fail
  \/ \E n \in BatchSizes : Accept(n) \/ Lose(n)

Spec == Init /\ [][Next]_vars

\* A stop that has begun ends.
FairSpec == Spec /\ WF_vars(phase = "stopping" /\ (Store \/ Fail \/ Close))
=============================================================================
