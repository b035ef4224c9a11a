----------------------------- MODULE SampleQueue -----------------------------
(***************************************************************************)
(* The frame queue between the producer thread and the render loop         *)
(* (src/utils/sample_queue.{h,cpp}) with the pool its frames come from     *)
(* (src/utils/frame_pool.h), and the part of main.cpp's loop that pops,    *)
(* clears and reconfigures it.  Deliveries of any length are gathered into *)
(* frames of the FFT size; the render loop takes only the newest one.      *)
(*                                                                         *)
(* A sample is its place in the stream the source delivers.  A handle owns *)
(* one frame of one pool and is written here together with the samples in  *)
(* that frame.  Every section under a mutex is one step: m_accumulator is  *)
(* only touched with the producer inside push() or stopped, the queue and  *)
(* the pool only under their own locks, and no lock is held over a wait.   *)
(***************************************************************************)
EXTENDS Integers, Sequences

CONSTANTS MAX_SAMPLE_QUEUE_SIZE,   \* queued frames before the oldest is dropped
          MAIN_FRAME_POOL_FRAMES,  \* frames a pool is built with
          FftSizes,                \* the FFT sizes main may choose
          AllocationMayFail,       \* whether FFTFrame::create may return null
          MaxDelivered,            \* bound: samples the source delivers
          MaxReconfigures          \* bound: changes of the FFT size

ASSUME QueueAssumption ==
  /\ MAX_SAMPLE_QUEUE_SIZE \in Nat \ {0}
  /\ MAIN_FRAME_POOL_FRAMES \in Nat
  /\ FftSizes \subseteq Nat \ {0}
  /\ AllocationMayFail \in BOOLEAN
  /\ MaxDelivered \in Nat /\ MaxReconfigures \in Nat

VARIABLES
  m_pool,            \* which pool is the current one, counted from 0
  m_free_queue,      \* its free frames (taken in any order, not only FIFO)
  created,           \* how many frames it has ever had
  m_fft_size, m_accumulator, m_queue,
  producer,          \* "idle", or "queue" between push()'s two locks
  frame,             \* push()'s local: the completed frame
  running,           \* the source's thread may call push()
  main,              \* main's place in its loop
  current_fft_size,  \* main's local: the length it reads of a frame
  samples_frame,     \* main's local: the frame popped
  delivered,         \* history: samples delivered so far
  cleared,           \* history: samples delivered before the last clear()
  unfinished,        \* history: deliveries since a frame was completed
  rendered           \* history: the last sample of the last frame popped

poolVars == <<m_pool, m_free_queue, created>>
mainVars == <<main, current_fft_size, samples_frame, rendered>>
vars == <<poolVars, m_fft_size, m_accumulator, m_queue, producer, frame,
          running, mainVars, delivered, cleared, unfinished>>

-----------------------------------------------------------------------------
Minimum(a, b) == IF a <= b THEN a ELSE b

\* A frame's identity, and the frames a pool is built with.
FrameOf(pool, number) == [pool |-> pool, number |-> number]
NewFrames(pool) == {FrameOf(pool, n) : n \in 1..MAIN_FRAME_POOL_FRAMES}

\* FrameHandle: empty, or the owner of one frame.
Empty == [frame |-> FrameOf(-1, 0), capacity |-> 0, samples |-> <<>>]
FreshHandle(id) == [frame |-> id, capacity |-> m_fft_size, samples |-> <<>>]

\* FrameHandle::release() of handles to these frames: a frame goes back to its
\* pool, or is destroyed when that pool is gone.
Released(frames) == m_free_queue \cup {id \in frames : id.pool = m_pool}

FramesIn(queue) == {queue[i].frame : i \in DOMAIN queue}
QueuedFrames == FramesIn(m_queue)

Init ==
  /\ m_pool = 0
  /\ m_free_queue = NewFrames(0) /\ created = MAIN_FRAME_POOL_FRAMES
  /\ m_fft_size \in FftSizes /\ current_fft_size = m_fft_size
  /\ m_accumulator = Empty /\ m_queue = <<>>
  /\ producer = "idle" /\ frame = Empty
  /\ running = TRUE
  /\ main = "loop" /\ samples_frame = Empty
  /\ delivered = 0 /\ cleared = 0 /\ unfinished = 0 /\ rendered = -1

(***************************************************************************)
(* The producer: push().                                                   *)
(***************************************************************************)

\* FramePool::acquire(): a free frame, else a new one.
Acquire(id) ==
  \/ /\ id \in m_free_queue
     /\ m_free_queue' = m_free_queue \ {id}
     /\ UNCHANGED <<m_pool, created>>
  \/ /\ m_free_queue = {} /\ id = FrameOf(m_pool, created + 1)
     /\ created' = created + 1
     /\ UNCHANGED <<m_pool, m_free_queue>>

\* Mutants: what is held is dropped instead; the delivery's end is taken.
BugDropHeldPart(handle, count) ==
  IF count <= handle.capacity - Len(handle.samples)
  THEN handle.samples \o [k \in 1..count |-> delivered + k - 1]
  ELSE [k \in 1..count |-> delivered + k - 1]

BugTakeTheEnd(handle, count) ==
  LET take == Minimum(count, handle.capacity - Len(handle.samples))
  IN  handle.samples \o [k \in 1..take |-> delivered + count - take + k - 1]

\* The accumulator and the samples of a delivery it has room for.
Gathered(handle, count) ==
  LET take == Minimum(count, handle.capacity - Len(handle.samples))
  IN  handle.samples \o [k \in 1..take |-> delivered + k - 1]

\* A full accumulator is the frame, which leaves it.
Gather(handle, count) ==
  LET gathered == [handle EXCEPT !.samples = Gathered(handle, count)]
  IN  IF Len(gathered.samples) < m_fft_size
      THEN /\ m_accumulator' = gathered
           /\ unfinished' = unfinished + 1
           /\ UNCHANGED <<frame, producer>>
      ELSE /\ m_accumulator' = Empty
           /\ frame' = gathered
           /\ unfinished' = 0
           /\ producer' = "queue"

\* push() under m_accumulator_mutex.  The source was started with m_fft_size as
\* its chunk size, so no delivery is longer.
PushDelivery ==
  /\ producer = "idle" /\ running
  /\ \E count \in 1..m_fft_size :
       /\ delivered + count <= MaxDelivered
       /\ delivered' = delivered + count
       /\ \/ /\ m_accumulator # Empty
             /\ Gather(m_accumulator, count)
             /\ UNCHANGED poolVars
          \/ /\ m_accumulator = Empty
             /\ \E id \in m_free_queue \cup {FrameOf(m_pool, created + 1)} :
                  Acquire(id) /\ Gather(FreshHandle(id), count)
  /\ UNCHANGED <<m_fft_size, m_queue, running, mainVars, cleared>>

\* push() without a frame to gather into: the delivery is lost.
PushFails ==
  /\ producer = "idle" /\ running
  /\ AllocationMayFail /\ m_accumulator = Empty /\ m_free_queue = {}
  /\ \E count \in 1..m_fft_size :
       /\ delivered + count <= MaxDelivered
       /\ delivered' = delivered + count
  /\ UNCHANGED <<poolVars, m_fft_size, m_accumulator, m_queue, producer, frame,
                 running, mainVars, cleared, unfinished>>

BugQueueFullTooLate == Len(m_queue) > MAX_SAMPLE_QUEUE_SIZE
QueueFull == Len(m_queue) >= MAX_SAMPLE_QUEUE_SIZE

\* push() under m_queue_mutex; the notification wakes a pop_newest() that waits.
Enqueue ==
  /\ producer = "queue"
  /\ IF QueueFull
     THEN /\ m_queue' = Append(Tail(m_queue), frame)
          /\ m_free_queue' = Released({Head(m_queue).frame})
     ELSE /\ m_queue' = Append(m_queue, frame)
          /\ UNCHANGED m_free_queue
  /\ frame' = Empty
  /\ producer' = "idle"
  /\ UNCHANGED <<m_pool, created, m_fft_size, m_accumulator, running, mainVars,
                 delivered, cleared, unfinished>>

(***************************************************************************)
(* Main: pop_newest(), clear() and reconfigure(), in the loop that calls   *)
(* them.                                                                   *)
(***************************************************************************)

\* The handles the pop overwrites one by one: all but the newest.
BugNewestReleasedToo == QueuedFrames
Outdated == {m_queue[i].frame : i \in 1..Len(m_queue)-1}

\* What a pop leaves in the queue.
BugOlderStay == SubSeq(m_queue, 1, Len(m_queue) - 1)
LeftByPop == <<>>

PopNewest ==
  /\ main = "loop" /\ m_queue # <<>>
  /\ samples_frame' = m_queue[Len(m_queue)]
  /\ rendered' = samples_frame'.samples[Len(samples_frame'.samples)]
  /\ m_queue' = LeftByPop
  /\ m_free_queue' = Released(Outdated)
  /\ main' = "frame"
  /\ UNCHANGED <<m_pool, created, m_fft_size, m_accumulator, producer, frame,
                 running, current_fft_size, delivered, cleared, unfinished>>

\* The wait ends without a frame and the loop goes round.
PopTimesOut ==
  /\ main = "loop" /\ m_queue = <<>>
  /\ UNCHANGED vars

\* The frame has been drawn and its handle goes out of scope.
EndOfFrame ==
  /\ main = "frame"
  /\ samples_frame' = Empty
  /\ m_free_queue' = Released({samples_frame.frame})
  /\ main' = "loop"
  /\ UNCHANGED <<m_pool, created, m_fft_size, m_accumulator, m_queue, producer,
                 frame, running, current_fft_size, rendered, delivered, cleared,
                 unfinished>>

\* What clear() leaves queued.
BugClearOldest == SubSeq(m_queue, 2, Len(m_queue))
LeftByClear == <<>>

\* clear(), after a retune.
Clear ==
  /\ main = "loop"
  /\ m_queue' = LeftByClear
  /\ m_free_queue' = Released(QueuedFrames)
  /\ cleared' = delivered
  /\ UNCHANGED <<m_pool, created, m_fft_size, m_accumulator, producer, frame,
                 running, mainVars, delivered, unfinished>>

ChangeFftSize ==
  /\ main = "loop" /\ m_pool < MaxReconfigures
  /\ current_fft_size' \in FftSizes
  /\ main' = "stopping"
  /\ UNCHANGED <<poolVars, m_fft_size, m_accumulator, m_queue, producer, frame,
                 running, samples_frame, rendered, delivered, cleared,
                 unfinished>>

\* source->stop() joins the source's thread, so it waits for a push().
StopSource ==
  /\ main = "stopping" /\ producer = "idle"
  /\ running' = FALSE
  /\ main' = "stopped"
  /\ UNCHANGED <<poolVars, m_fft_size, m_accumulator, m_queue, producer, frame,
                 current_fft_size, samples_frame, rendered, delivered, cleared,
                 unfinished>>

\* What reconfigure() leaves in the accumulator.
BugKeepAccumulator == m_accumulator
LeftByReconfigure == Empty

\* reconfigure(): every frame goes back, then the pool goes.
Reconfigure ==
  /\ main = "stopped"
  /\ m_queue' = <<>>
  /\ m_accumulator' = LeftByReconfigure
  /\ unfinished' = 0
  /\ m_pool' = m_pool + 1
  /\ m_free_queue' = NewFrames(m_pool') /\ created' = MAIN_FRAME_POOL_FRAMES
  /\ m_fft_size' = current_fft_size
  /\ main' = "start"
  /\ UNCHANGED <<producer, frame, running, current_fft_size, samples_frame,
                 rendered, delivered, cleared>>

StartSource ==
  /\ main = "start"
  /\ running' = TRUE
  /\ main' = "loop"
  /\ UNCHANGED <<poolVars, m_fft_size, m_accumulator, m_queue, producer, frame,
                 current_fft_size, samples_frame, rendered, delivered, cleared,
                 unfinished>>

Next ==
  \/ PushDelivery \/ PushFails \/ Enqueue
  \/ PopNewest \/ PopTimesOut \/ EndOfFrame \/ Clear
  \/ ChangeFftSize \/ StopSource \/ Reconfigure \/ StartSource

Spec == Init /\ [][Next]_vars

-----------------------------------------------------------------------------
(* Properties *)

FrameIds == [pool : Int, number : Nat]
Handles == [frame : FrameIds, capacity : Nat, samples : Seq(Int)]

PlaceType ==
  /\ producer \in {"idle", "queue"} /\ running \in BOOLEAN
  /\ main \in {"loop", "frame", "stopping", "stopped", "start"}
CountType ==
  /\ m_pool \in Nat /\ created \in Nat
  /\ m_fft_size \in Nat \ {0} /\ current_fft_size \in Nat \ {0}
  /\ delivered \in Nat /\ cleared \in Nat /\ unfinished \in Nat
  /\ rendered \in Int
HandleType ==
  /\ m_accumulator \in Handles /\ frame \in Handles /\ samples_frame \in Handles
  /\ m_queue \in Seq(Handles) /\ Len(m_queue) <= MAX_SAMPLE_QUEUE_SIZE

\* Each variable keeps its type, and the queue its bound.
TypeOK == PlaceType /\ CountType /\ HandleType /\ m_free_queue \subseteq FrameIds

\* The frame a handle owns, and those owned outside the queue and the pool.
HeldBy(handle) == {handle.frame} \ {Empty.frame}
Carried == HeldBy(m_accumulator) \cup HeldBy(frame) \cup HeldBy(samples_frame)

\* Nobody shares a frame with another owner or with the pool's free list, and
\* none leaks: each frame the pool ever had is in exactly one place.
EveryFrameHasOneOwner ==
  /\ \A i, j \in DOMAIN m_queue : i # j => m_queue[i].frame # m_queue[j].frame
  /\ HeldBy(m_accumulator) \cap HeldBy(frame) = {}
  /\ HeldBy(samples_frame) \cap (HeldBy(m_accumulator) \cup HeldBy(frame)) = {}
  /\ Carried \cap QueuedFrames = {}
  /\ m_free_queue \cap (Carried \cup QueuedFrames) = {}
  /\ m_free_queue \cup Carried \cup QueuedFrames
       = {FrameOf(m_pool, n) : n \in 1..created}

\* main.cpp reads current_fft_size samples of the frame it popped: the frame
\* holds exactly that many, also after a change of the FFT size.
FrameFitsFft ==
  samples_frame # Empty => Len(samples_frame.samples) = current_fft_size

\* A frame is a run of consecutive samples, whatever lengths were delivered, and
\* is never written past its capacity.
Consecutive(samples) ==
  \A k \in 2..Len(samples) : samples[k] = samples[k-1] + 1
FramesAreConsecutive ==
  \A h \in {m_accumulator, frame, samples_frame} \cup
            {m_queue[i] : i \in DOMAIN m_queue} :
    Len(h.samples) <= h.capacity /\ Consecutive(h.samples)

\* Peak in flight are the queue, the frame being gathered or queued, and the
\* one being drawn: a pool of that size never allocates on the hot path, and a
\* smaller one grows to it and no further.
PeakInFlight == MAX_SAMPLE_QUEUE_SIZE + 2
PoolIsBounded ==
  created <= IF MAIN_FRAME_POOL_FRAMES < PeakInFlight THEN PeakInFlight
                                                      ELSE MAIN_FRAME_POOL_FRAMES

\* Of what was pushed before the last clear() at most one frame is still to be
\* drawn: the accumulator's, or the one the producer was about to queue.  What
\* the driver received before it and pushes later is MainLoop's backlog.
Stale(h) == h.samples # <<>> /\ h.samples[1] < cleared
AtMostOneStale ==
  /\ ~(Stale(m_accumulator) /\ Stale(frame))
  /\ \A i \in DOMAIN m_queue : Stale(m_queue[i]) =>
       /\ i = 1
       /\ ~Stale(m_accumulator) /\ ~Stale(frame)

\* Short deliveries, as after an overflow, still complete frames: each adds a
\* sample at least, so fewer than m_fft_size in a row leave one unfinished.
FramesKeepComing == unfinished < m_fft_size

\* What is drawn never goes back: a popped frame starts after the last one.
NeverBackwards ==
  [][(samples_frame' # samples_frame /\ samples_frame' # Empty) =>
       samples_frame'.samples[1] > rendered]_vars
=============================================================================
