------------------------------ MODULE RtlSource ------------------------------
(***************************************************************************)
(* The RTL-SDR source (src/hardware/rtl_sdr_device.cpp): start() makes a   *)
(* thread that sits in rtlsdr_read_async(), whose callback cuts each USB   *)
(* transfer into frames of the chunk size; stop() cancels the read and     *)
(* joins the thread.                                                       *)
(*                                                                         *)
(* librtlsdr is outside the code: transfers arrive while the read runs,    *)
(* a few of them after the cancel too; the read may fail at any time (the  *)
(* dongle is unplugged); and a cancel that comes before the thread has     *)
(* entered the read finds nothing to cancel and is forgotten.              *)
(***************************************************************************)
EXTENDS Integers

CONSTANTS ChunkSizes,        \* the chunk sizes main() may ask for
          TransferSamples,   \* samples of one USB transfer
          MaxTransfers,      \* bound: transfers
          MaxStarts          \* bound: calls of start()

VARIABLES
  caller,    \* main: "idle", "running" after start(), inside stop()
             \* "cancelling" before rtlsdr_cancel_async(), then "stopping"
  thread,    \* m_async_thread: "none", "starting", "reading", "callback", "done"
  m_running,       \* m_thread_running
  chunk,           \* m_fft_size, the capacity of the pool's frames
  dropped, handed,
  starts,          \* calls of start() so far
  m_streaming,
  cancelled,       \* librtlsdr has a cancel to act on
  offset,          \* process_callback_with_pool()'s local
  transferred,     \* history: samples of the transfers so far
  cancel_lost      \* history: the last cancel came before the read

callVars == <<caller, thread, m_running, chunk, dropped, handed, starts>>
rtlVars == <<m_streaming, cancelled, offset, transferred, cancel_lost>>
vars == <<callVars, rtlVars>>

Init ==
  /\ caller = "idle" /\ thread = "none" /\ m_running = FALSE
  /\ chunk = 0 /\ dropped = 0 /\ handed = 0 /\ starts = 0
  /\ m_streaming = FALSE /\ cancelled = FALSE /\ cancel_lost = FALSE
  /\ offset = 0 /\ transferred = 0

-----------------------------------------------------------------------------
(* What main() calls.                                                      *)

Start(size) ==
  /\ caller = "idle" /\ starts < MaxStarts
  /\ ~m_streaming
  /\ caller' = "running" /\ thread' = "starting"
  /\ m_running' = TRUE /\ m_streaming' = TRUE
  /\ chunk' = size /\ starts' = starts + 1
  /\ UNCHANGED <<dropped, handed, cancelled, offset, transferred, cancel_lost>>

AskStop ==
  /\ caller = "running"
  /\ m_streaming
  /\ caller' = "cancelling" /\ m_running' = FALSE
  /\ UNCHANGED <<thread, chunk, dropped, handed, starts, rtlVars>>

\* stop() cancels whatever m_thread_running says, which it has just cleared; the
\* cancel reaches the read once the thread has entered it.
BugCancelIfRunning == m_running /\ thread \in {"reading", "callback"}
CancelReaches == thread \in {"reading", "callback"}

Cancel ==
  /\ caller = "cancelling"
  /\ caller' = "stopping"
  /\ cancelled' = CancelReaches
  /\ cancel_lost' = (thread = "starting")
  /\ UNCHANGED <<thread, m_running, chunk, dropped, handed, starts,
                 m_streaming, offset, transferred>>

Joinable == thread = "done"

StopReturns ==
  /\ caller = "stopping" /\ Joinable
  /\ caller' = "idle" /\ thread' = "none" /\ m_streaming' = FALSE
  /\ UNCHANGED <<m_running, chunk, dropped, handed, starts,
                 cancelled, offset, transferred, cancel_lost>>

-----------------------------------------------------------------------------
(* The thread: the read, and the callback it makes for each transfer.      *)

EnterRead ==
  /\ thread = "starting"
  /\ thread' = "reading" /\ cancelled' = FALSE
  /\ UNCHANGED <<caller, m_running, chunk, dropped, handed, starts,
                 m_streaming, offset, transferred, cancel_lost>>

Transfer ==
  /\ thread = "reading"
  /\ transferred < MaxTransfers * TransferSamples
  /\ thread' = "callback" /\ offset' = 0
  /\ transferred' = transferred + TransferSamples
  /\ UNCHANGED <<caller, m_running, chunk, dropped, handed, starts,
                 m_streaming, cancelled, cancel_lost>>

\* A frame takes what is left of the transfer, up to its capacity.
BugWholeTransfer == TransferSamples - offset
Taken == IF TransferSamples - offset < chunk THEN TransferSamples - offset
         ELSE chunk

HandFrame ==
  /\ thread = "callback"
  /\ handed' = handed + Taken /\ offset' = offset + Taken
  /\ thread' = IF offset' < TransferSamples THEN "callback" ELSE "reading"
  /\ UNCHANGED <<caller, m_running, chunk, dropped, starts,
                 m_streaming, cancelled, transferred, cancel_lost>>

\* What is lost when the pool cannot allocate: the rest of the transfer.
Refused == TransferSamples - offset

NoFrame ==
  /\ thread = "callback"
  /\ dropped' = dropped + Refused
  /\ thread' = "reading"
  /\ UNCHANGED <<caller, m_running, chunk, handed, starts, rtlVars>>

\* rtlsdr_read_async() returns: cancelled, or failed.
ReadReturns ==
  /\ thread = "reading" /\ cancelled
  /\ thread' = "done" /\ m_running' = FALSE
  /\ UNCHANGED <<caller, chunk, dropped, handed, starts, rtlVars>>

ReadFails ==
  /\ thread \in {"starting", "reading"}
  /\ thread' = "done" /\ m_running' = FALSE
  /\ UNCHANGED <<caller, chunk, dropped, handed, starts, rtlVars>>

Next ==
  \/ \E size \in ChunkSizes : Start(size)
  \/ AskStop
  \/ Cancel
  \/ StopReturns
  \/ EnterRead
  \/ Transfer
  \/ HandFrame
  \/ NoFrame
  \/ ReadReturns
  \/ ReadFails

Spec == Init /\ [][Next]_vars

\* Main and the thread get the processor.  That a cancelled read ends although
\* transfers still come in is librtlsdr's promise: it resubmits none of them.
Fairness == /\ WF_vars(EnterRead) /\ WF_vars(HandFrame \/ NoFrame)
            /\ SF_vars(ReadReturns) /\ WF_vars(Cancel) /\ WF_vars(StopReturns)

-----------------------------------------------------------------------------
TypeOK ==
  /\ caller \in {"idle", "running", "cancelling", "stopping"}
  /\ thread \in {"none", "starting", "reading", "callback", "done"}
  /\ m_running \in BOOLEAN /\ m_streaming \in BOOLEAN
  /\ cancelled \in BOOLEAN /\ cancel_lost \in BOOLEAN
  /\ chunk \in ChunkSizes \cup {0}
  /\ dropped \in Nat /\ handed \in Nat /\ starts \in Nat
  /\ transferred \in Nat /\ offset \in 0..TransferSamples

\* Every sample of every transfer was handed on in a frame or is in m_dropped,
\* once, also when the callback found no frame half way through a transfer.
EveryLossIsCounted ==
  handed + dropped =
    transferred - IF thread = "callback" THEN TransferSamples - offset ELSE 0
=============================================================================
