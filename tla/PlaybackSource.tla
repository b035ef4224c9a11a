--------------------------- MODULE PlaybackSource ---------------------------
(***************************************************************************)
(* The I/Q playback source (src/hardware/iq_playback.cpp): start() makes a *)
(* thread that reads the file chunk by chunk, round and round, and sleeps  *)
(* to a deadline per chunk so that the file plays at the rate it was       *)
(* recorded at.  The file position outlives stop() and start().            *)
(*                                                                         *)
(* Time is counted in samples: a chunk's period is its length.  The clock  *)
(* itself is not kept, only what the thread compares it with: due is       *)
(* next_deadline minus now, held above LateEnough, below which every       *)
(* lateness acts alike.  Converting, zeroing NaN and logging are left out. *)
(***************************************************************************)
EXTENDS Integers

CONSTANTS ChunkSizes,     \* the chunk sizes main() may ask for
          FileSamples,    \* m_total_samples
          ResyncAfter,    \* the 200 ms of lateness that resynchronise
          ReadMayFail,    \* whether fread() may fail and return nothing
          MaxHanded,      \* bound: samples handed on
          MaxStarts       \* bound: calls of start()

VARIABLES
  caller,    \* main: "idle", "running" after start(), "stopping" inside stop()
  thread,    \* m_thread: "none", "init", "top", "fill", "send", "sleep",
             \* "pace" after the sleep, "done"
  m_running, chunk, dropped, handed,
  starts,          \* calls of start() so far
  position,        \* of m_file
  frame,           \* the frame read: first sample, number of samples
  due,             \* next_deadline - now
  ahead,     \* history: samples handed on in this run, minus the time it took
  burst,     \* history: frames handed on at this instant
  follows,   \* history: the file position after the last sample handed on
  misread    \* history: fread() failed once

callVars == <<caller, thread, m_running, chunk, dropped, handed, starts>>
paceVars == <<due, ahead, burst>>
fileVars == <<position, frame, follows, misread>>
playVars == <<paceVars, fileVars>>
vars == <<callVars, playVars>>

Minimum(a, b) == IF a <= b THEN a ELSE b
Maximum(a, b) == IF a >= b THEN a ELSE b

Init ==
  /\ caller = "idle" /\ thread = "none" /\ m_running = FALSE
  /\ chunk = 0 /\ dropped = 0 /\ handed = 0 /\ starts = 0
  /\ due = 0 /\ ahead = 0 /\ burst = 0
  /\ position = 0 /\ frame = [first |-> 0, samples |-> 0]
  /\ follows = 0 /\ misread = FALSE

-----------------------------------------------------------------------------
(* What main() calls.  start() first calls stop(), which finds no thread.  *)

Start(size) ==
  /\ caller = "idle" /\ starts < MaxStarts
  /\ caller' = "running" /\ thread' = "init" /\ m_running' = TRUE
  /\ chunk' = size /\ starts' = starts + 1
  /\ ahead' = 0 /\ burst' = 0
  /\ UNCHANGED <<dropped, handed, due, fileVars>>

AskStop ==
  /\ caller = "running"
  /\ caller' = "stopping" /\ m_running' = FALSE
  /\ UNCHANGED <<thread, chunk, dropped, handed, starts, playVars>>

StopReturns ==
  /\ caller = "stopping" /\ thread = "done"
  /\ caller' = "idle" /\ thread' = "none"
  /\ UNCHANGED <<m_running, chunk, dropped, handed, starts, playVars>>

-----------------------------------------------------------------------------
(* thread_main().                                                          *)

Begin ==
  /\ thread = "init"
  /\ thread' = "top" /\ due' = chunk
  /\ UNCHANGED <<caller, m_running, chunk, dropped, handed, starts,
                 ahead, burst, fileVars>>

\* The pool has a frame.  Without one the thread waits 1 ms and comes back.
AcquireFrame ==
  /\ thread = "top" /\ m_running
  /\ handed < MaxHanded
  /\ thread' = "fill"
  /\ UNCHANGED <<caller, m_running, chunk, dropped, handed, starts, playVars>>

LeaveLoop ==
  /\ thread = "top" /\ ~m_running
  /\ thread' = "done"
  /\ UNCHANGED <<caller, m_running, chunk, dropped, handed, starts, playVars>>

\* What fread() returns when asked for so many samples at a position.
Reads(at, wanted) ==
  LET there == Minimum(wanted, FileSamples - at)
  IN  {there} \cup (IF ReadMayFail THEN {0} ELSE {})

\* Where the file stands after both reads: a short first one rewinds.
BugRewindAgain(got, more) == IF got < chunk THEN 0 ELSE position + got
PositionAfter(got, more) == IF got < chunk THEN more ELSE position + got

\* A short read counts as the end of the file: rewind, and read once more.
Fill(got, more) ==
  /\ thread = "fill"
  /\ position' = PositionAfter(got, more)
  /\ frame' = [first |-> IF got = 0 THEN 0 ELSE position, samples |-> got + more]
  /\ misread' = \/ misread
                \/ got < Minimum(chunk, FileSamples - position)
                \/ got < chunk /\ more < Minimum(chunk - got, FileSamples)
  /\ thread' = IF got + more = 0 THEN "top" ELSE "send"
  /\ UNCHANGED <<caller, m_running, chunk, dropped, handed, starts,
                 paceVars, follows>>

SendFrame ==
  /\ thread = "send"
  /\ thread' = "sleep" /\ handed' = handed + frame.samples
  /\ ahead' = ahead + frame.samples /\ burst' = burst + 1
  /\ follows' = (frame.first + frame.samples) % FileSamples
  /\ UNCHANGED <<caller, m_running, chunk, dropped, starts,
                 due, position, frame, misread>>

\* sleep_until() returns: the deadline has come.
DeadlineCame == due <= 0

Wake ==
  /\ thread = "sleep" /\ DeadlineCame
  /\ thread' = "pace" /\ due' = due + chunk
  /\ UNCHANGED <<caller, m_running, chunk, dropped, handed, starts,
                 ahead, burst, fileVars>>

\* After a long stall the next deadline counts from now.
BugNoResync == due
Resynchronised == IF due < -ResyncAfter THEN chunk ELSE due

Pace ==
  /\ thread = "pace"
  /\ thread' = "top" /\ due' = Resynchronised
  /\ UNCHANGED <<caller, m_running, chunk, dropped, handed, starts,
                 ahead, burst, fileVars>>

\* Time passes, as long as it likes between any two steps.
LateEnough == -(ResyncAfter + 3 * chunk)

Tick ==
  /\ thread \notin {"none", "done"}
  /\ due' = Maximum(due - 1, LateEnough)
  /\ ahead' = Maximum(ahead - 1, LateEnough)
  /\ burst' = 0
  /\ UNCHANGED <<callVars, fileVars>>

Next ==
  \/ \E size \in ChunkSizes : Start(size)
  \/ AskStop
  \/ StopReturns
  \/ Begin
  \/ AcquireFrame
  \/ LeaveLoop
  \/ \E got \in Reads(position, chunk) :
       \E more \in IF got < chunk THEN Reads(0, chunk - got) ELSE {0} :
         Fill(got, more)
  \/ SendFrame
  \/ Wake
  \/ Pace
  \/ Tick

Spec == Init /\ [][Next]_vars

\* The threads get the processor, the clock runs, a sleep ends at its deadline.
Fairness == /\ WF_vars(Begin \/ SendFrame \/ Pace)
            /\ WF_vars(\E got, more \in 0..chunk : Fill(got, more))
            /\ WF_vars(LeaveLoop) /\ WF_vars(Wake)
            /\ WF_vars(Tick) /\ WF_vars(StopReturns)

-----------------------------------------------------------------------------
TypeOK ==
  /\ caller \in {"idle", "running", "stopping"}
  /\ thread \in {"none", "init", "top", "fill", "send", "sleep", "pace", "done"}
  /\ m_running \in BOOLEAN /\ misread \in BOOLEAN
  /\ chunk \in ChunkSizes \cup {0} /\ dropped \in Nat /\ handed \in Nat
  /\ starts \in Nat /\ burst \in Nat /\ due \in Int /\ ahead \in Int
  /\ position \in 0..FileSamples /\ follows \in 0..(FileSamples - 1)
  /\ frame \in [first : 0..FileSamples, samples : Nat]

\* The file plays round and round without a seam: a frame begins where the one
\* before it ended, over the end of the file, over stop() and start() and with
\* another chunk size, and it is full unless the whole file is shorter - as
\* long as fread() returns what there is.
PlaybackIsSeamless ==
  thread = "send" /\ ~misread =>
    /\ frame.first % FileSamples = follows
    /\ frame.samples >= Minimum(chunk, FileSamples)

\* The file plays in real time: never more than one chunk ahead of the clock,
\* and what a stall held up comes in a burst of bounded length.
PlaybackIsPaced ==
  /\ ahead <= chunk
  /\ burst * chunk <= ResyncAfter + 3 * chunk
=============================================================================
