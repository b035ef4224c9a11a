------------------------------ MODULE UhdSource ------------------------------
(***************************************************************************)
(* The USRP source (src/hardware/uhd_device.cpp): start() makes a thread   *)
(* that receives packets, counts what the device's sample clock says is    *)
(* missing between two of them, and hands each packet on as one frame.     *)
(*                                                                         *)
(* A sample is a tick of the device's clock.  The device and UHD are       *)
(* outside the code: samples are lost before recv() returns them, at any   *)
(* time, also while nothing streams; recv() waits a tenth of a second at   *)
(* most; it may throw.  An error code with samples is treated as a packet, *)
(* one without as a timeout.                                               *)
(***************************************************************************)
EXTENDS Integers

CONSTANTS ChunkSizes,       \* the chunk sizes main() may ask for
          UntimedPackets,   \* whether a packet may come without a time
          MaxClock,         \* bound: ticks of the device's sample clock
          MaxStarts         \* bound: calls of start()

VARIABLES
  caller,    \* main: "idle", "running" after start(), "stopping" inside stop()
  thread,    \* m_thread: "none", "open", "top" of its loop, "recv", "frame"
             \* with a packet, "done"
  m_running, chunk, dropped, handed,
  starts,                       \* calls of start() so far
  clock,                        \* the clock of the sample recv() returns next
  have_expected, expected, n,   \* locals of receive_loop()
  packets,   \* history: clock of the stream's first packet, end of its last
  spanned,   \* history: ticks between those two, over the streams before
  untimed    \* history: some packet had no time

callVars == <<caller, thread, m_running, chunk, dropped, handed, starts>>
localVars == <<have_expected, expected, n>>
uhdVars == <<clock, localVars, packets, spanned, untimed>>
vars == <<callVars, uhdVars>>

NoPackets == [first |-> -1, end |-> -1]
Span(p) == p.end - p.first

Init ==
  /\ caller = "idle" /\ thread = "none" /\ m_running = FALSE
  /\ chunk = 0 /\ dropped = 0 /\ handed = 0 /\ starts = 0
  /\ clock = 0
  /\ have_expected = FALSE /\ expected = 0 /\ n = 0
  /\ packets = NoPackets /\ spanned = 0 /\ untimed = FALSE

-----------------------------------------------------------------------------
(* What main() calls: start(), and stop() in two steps around the join.    *)

Start(size) ==
  /\ caller = "idle" /\ starts < MaxStarts
  /\ ~m_running
  /\ caller' = "running" /\ thread' = "open" /\ m_running' = TRUE
  /\ chunk' = size /\ starts' = starts + 1
  /\ UNCHANGED <<dropped, handed, uhdVars>>

AskStop ==
  /\ caller = "running"
  /\ caller' = "stopping" /\ m_running' = FALSE
  /\ UNCHANGED <<thread, chunk, dropped, handed, starts, uhdVars>>

Joinable == thread = "done"

StopReturns ==
  /\ caller = "stopping" /\ Joinable
  /\ caller' = "idle" /\ thread' = "none"
  /\ UNCHANGED <<m_running, chunk, dropped, handed, starts, uhdVars>>

-----------------------------------------------------------------------------
(* receive_loop(), on its own thread.                                      *)

\* A new streamer, whose first packet has nothing to follow.
BugOldExpectation == have_expected
FreshExpectation == FALSE

OpenStream ==
  /\ thread = "open"
  /\ thread' = "top"
  /\ have_expected' = FreshExpectation /\ expected' = 0 /\ n' = 0
  /\ spanned' = spanned + Span(packets) /\ packets' = NoPackets
  /\ UNCHANGED <<caller, m_running, chunk, dropped, handed, starts,
                 clock, untimed>>

CallRecv ==
  /\ thread = "top" /\ m_running
  /\ thread' = "recv"
  /\ UNCHANGED <<caller, m_running, chunk, dropped, handed, starts, uhdVars>>

LeaveLoop ==
  /\ thread = "top" /\ ~m_running
  /\ thread' = "done"
  /\ UNCHANGED <<caller, m_running, chunk, dropped, handed, starts, uhdVars>>

\* recv() returns nothing in time.
RecvTimesOut ==
  /\ thread = "recv"
  /\ thread' = "top"
  /\ UNCHANGED <<caller, m_running, chunk, dropped, handed, starts, uhdVars>>

\* What is missing before a packet that starts at the clock.
Gap == IF have_expected /\ clock > expected THEN clock - expected ELSE 0

\* recv() returns samples; their gap is counted before a frame is asked for.
Receive(samples, timed) ==
  /\ thread = "recv"
  /\ clock + samples <= MaxClock
  /\ dropped' = dropped + IF timed THEN Gap ELSE 0
  /\ expected' = IF timed THEN clock + samples ELSE expected
  /\ have_expected' = (have_expected \/ timed)
  /\ clock' = clock + samples
  /\ n' = samples /\ thread' = "frame"
  /\ packets' = [first |-> IF packets = NoPackets THEN clock ELSE packets.first,
                 end |-> clock + samples]
  /\ untimed' = (untimed \/ ~timed)
  /\ UNCHANGED <<caller, m_running, chunk, handed, starts, spanned>>

\* The frame goes to the callback.
HandFrame ==
  /\ thread = "frame"
  /\ handed' = handed + n /\ thread' = "top"
  /\ UNCHANGED <<caller, m_running, chunk, dropped, starts, uhdVars>>

\* The pool could not allocate a frame.
NoFrame ==
  /\ thread = "frame"
  /\ dropped' = dropped + n /\ thread' = "top"
  /\ UNCHANGED <<caller, m_running, chunk, handed, starts, uhdVars>>

\* UHD throws: the thread ends, m_running stays set until stop().
Throw ==
  /\ thread \in {"open", "recv"}
  /\ thread' = "done"
  /\ UNCHANGED <<caller, m_running, chunk, dropped, handed, starts, uhdVars>>

\* Samples never reach recv(): overflow, a lost USB transfer, or a pause.
LoseSamples ==
  /\ clock < MaxClock
  /\ clock' = clock + 1
  /\ UNCHANGED <<callVars, localVars, packets, spanned, untimed>>

Times == IF UntimedPackets THEN BOOLEAN ELSE {TRUE}

Next ==
  \/ \E size \in ChunkSizes : Start(size)
  \/ AskStop
  \/ StopReturns
  \/ OpenStream
  \/ CallRecv
  \/ LeaveLoop
  \/ RecvTimesOut
  \/ \E samples \in 1..chunk, timed \in Times : Receive(samples, timed)
  \/ HandFrame
  \/ NoFrame
  \/ Throw
  \/ LoseSamples

Spec == Init /\ [][Next]_vars

\* The thread gets the processor: every step of receive_loop() that can be
\* taken is, recv() does not block for ever, a join that can return does.
Fairness == /\ WF_vars(OpenStream) /\ WF_vars(CallRecv \/ LeaveLoop)
            /\ WF_vars(\/ RecvTimesOut
                       \/ \E samples \in 1..chunk, timed \in Times :
                            Receive(samples, timed))
            /\ WF_vars(HandFrame \/ NoFrame) /\ WF_vars(StopReturns)

-----------------------------------------------------------------------------
TypeOK ==
  /\ caller \in {"idle", "running", "stopping"}
  /\ thread \in {"none", "open", "top", "recv", "frame", "done"}
  /\ m_running \in BOOLEAN /\ have_expected \in BOOLEAN /\ untimed \in BOOLEAN
  /\ chunk \in ChunkSizes \cup {0} /\ n \in Nat
  /\ dropped \in Nat /\ handed \in Nat /\ spanned \in Nat
  /\ clock \in Nat /\ expected \in Nat /\ starts \in Nat
  /\ packets \in [first : Nat \cup {-1}, end : Nat \cup {-1}]

\* m_dropped is exact: of the samples between the first and the last packet
\* of every stream, each was handed on or counted, once, and the pause
\* between two streams was not - as long as every packet carries its time.
EveryLossIsCounted ==
  ~untimed /\ thread # "frame" => handed + dropped = spanned + Span(packets)
=============================================================================
