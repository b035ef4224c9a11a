------------------------------ MODULE IqLogger ------------------------------
(***************************************************************************)
(* The I/Q capture logger (src/utils/iq_logger.{h,cpp}): a producer thread *)
(* copies sample batches into a ring, the logger's own writer thread moves *)
(* them through a write buffer into a file, and the main thread opens and  *)
(* closes captures, each with a JSON sidecar.                              *)
(*                                                                         *)
(* A sample is its position in the stream the producer delivered during    *)
(* the capture; on disk it is SampleBytes bytes, each written here as the  *)
(* sample it belongs to.  Memory is sequentially consistent: the code's    *)
(* release/acquire pairs on m_head, m_tail and m_stop give that for the    *)
(* accesses below.                                                         *)
(***************************************************************************)
EXTENDS Integers, Sequences

CONSTANTS RingSize,     \* samples in m_ring (half a second of samples)
          SampleBytes,  \* bytes of one sample on disk (cf32 8, cs16 4)
          BufferBytes,  \* m_config.buffer_size_bytes
          StdioBytes,   \* bytes stdio may still hold after fwrite took them
          BatchSizes,   \* lengths of a delivery
          SourceLosses, \* what the source may report lost in one capture
          Faults,       \* the file-system calls that may fail
          MaxReceived,  \* bound: samples delivered in one capture
          MaxCaptures   \* bound: start_capture() calls

AllFaults == {"dir", "open", "write", "close", "stat", "resize", "sidecar"}

ASSUME ConstantsAssumption ==
  /\ RingSize \in Nat \ {0}
  /\ SampleBytes \in Nat \ {0}
  /\ BufferBytes \in Nat /\ BufferBytes >= SampleBytes
  /\ StdioBytes \in Nat
  /\ BatchSizes \subseteq Nat \ {0}
  /\ SourceLosses \subseteq Nat
  /\ Faults \subseteq AllFaults
  /\ MaxReceived \in Nat /\ MaxCaptures \in Nat

VARIABLES
  m_capturing, m_stop,      \* the flags the threads share
  m_ring, m_head, m_tail,   \* the ring; empty function while released
  m_received_samples, m_ring_dropped, m_dropped_samples,
  producer, batch,          \* the producer's place in write_samples, its count
  writer,                   \* the writer's place in writer_loop
  stopping, head, done,     \* its locals; done counts samples of the block
  main,                     \* main's place in start_capture / stop_capture
  m_data_file,              \* TRUE while the FILE* is open
  file,                     \* the bytes of the data file
  m_buffer,                 \* the bytes below m_buffer_pos
  sample_count,             \* m_stats.sample_count
  m_write_error,
  sidecar,                  \* the .meta.json on disk
  accepted,                 \* history: samples published to the ring, in order
  captures                  \* history: start_capture() calls so far

streamVars == <<m_received_samples, m_ring_dropped, accepted>>
ringVars   == <<m_ring, m_head, m_tail>>
prodVars   == <<producer, batch>>
writerVars == <<writer, stopping, head, done>>
fileVars   == <<m_data_file, file, sample_count, m_write_error>>
mainVars   == <<main, sidecar, captures, m_dropped_samples>>
vars == <<m_capturing, m_stop, streamVars, ringVars, prodVars, writerVars,
          m_buffer, fileVars, mainVars>>

-----------------------------------------------------------------------------
Minimum(a, b) == IF a <= b THEN a ELSE b

Slot(index) == index % RingSize

\* The bytes of a sequence of samples.
BytesOf(samples) ==
  [i \in 1..(SampleBytes * Len(samples)) |->
     samples[((i - 1) \div SampleBytes) + 1]]

IsPrefixOf(s, t) == Len(s) <= Len(t) /\ s = SubSeq(t, 1, Len(s))

Released == <<>>                               \* m_ring after clear()
EmptyRing == [slot \in 0..RingSize-1 |-> -1]   \* m_ring after resize()

\* m_push_mutex: main takes and leaves it within one step, so only a producer
\* between its recheck and its return is ever seen to hold it.
PushInProgress == producer \in {"copy", "wrap", "publish"}

BugNoMutex == TRUE
MutexFree == ~PushInProgress

\* What generate_metadata_json() puts into the sidecar, and the two other
\* things a path can hold: no file, and one write_text_file() left truncated.
Metadata(when, samples, dropped, error) ==
  [state |-> "whole", when |-> when, samples |-> samples, dropped |-> dropped,
   error |-> error]
Absent == [state |-> "absent", when |-> "never", samples |-> 0, dropped |-> 0,
           error |-> FALSE]
Torn == [Absent EXCEPT !.state = "torn"]

\* write_metadata(): fopen("w") may fail and leave what was there, or succeed
\* and truncate it before the write fails.
SidecarAfter(before, metadata) ==
  {metadata} \cup (IF "sidecar" \in Faults THEN {before, Torn} ELSE {})

\* flush_buffer(): fwrite of `bytes` to a file holding `onFile`.  A short write
\* closes the file; of what stdio still held, any part may have reached it.
BugWriteOnAfterShortWrite(onFile, bytes) ==
  {[open |-> TRUE, file |-> SubSeq(onFile \o bytes, 1, n)] :
     n \in {k \in Len(onFile)..Len(onFile \o bytes) :
              "write" \in Faults \/ k = Len(onFile \o bytes)}}

FlushResults(onFile, bytes) ==
  LET all == onFile \o bytes
  IN  {[open |-> TRUE, file |-> all]} \cup
      {[open |-> FALSE, file |-> SubSeq(all, 1, n)] :
         n \in {k \in 0..Len(all)-1 : /\ "write" \in Faults
                                      /\ k >= Len(onFile) - StdioBytes}}

\* fclose(), which writes what stdio still holds and may fail at that.
CloseResults(onFile) ==
  {[ok |-> TRUE, file |-> onFile]} \cup
  {[ok |-> FALSE, file |-> SubSeq(onFile, 1, n)] :
     n \in {k \in 0..Len(onFile) : /\ "close" \in Faults
                                   /\ k >= Len(onFile) - StdioBytes}}
-----------------------------------------------------------------------------
Init ==
  /\ m_capturing = FALSE /\ m_stop = FALSE
  /\ m_ring = Released /\ m_head = 0 /\ m_tail = 0
  /\ m_received_samples = 0 /\ m_ring_dropped = 0 /\ m_dropped_samples = 0
  /\ producer = "idle" /\ batch = 0
  /\ writer = "none" /\ stopping = FALSE /\ head = 0 /\ done = 0
  /\ main = "idle"
  /\ m_data_file = FALSE /\ file = <<>> /\ sample_count = 0
  /\ m_buffer = <<>>
  /\ m_write_error = FALSE
  /\ sidecar = Absent
  /\ accepted = <<>> /\ captures = 0

(***************************************************************************)
(* Main: start_capture().  Until m_capturing is set nobody else looks at   *)
(* the logger, so everything before it is one step; it may return false    *)
(* because the directory or the data file cannot be made.                  *)
(***************************************************************************)
\* Mutant: the previous capture's write error survives the reset.
BugErrorNotReset ==
  /\ main = "idle" /\ captures < MaxCaptures
  /\ captures' = captures + 1
  /\ m_received_samples' = 0 /\ m_ring_dropped' = 0 /\ m_dropped_samples' = 0
  /\ sample_count' = 0 /\ UNCHANGED m_write_error
  /\ m_buffer' = <<>>
  /\ file' = <<>> /\ accepted' = <<>>

ResetCapture ==
  /\ main = "idle" /\ captures < MaxCaptures
  /\ captures' = captures + 1
  /\ m_received_samples' = 0 /\ m_ring_dropped' = 0 /\ m_dropped_samples' = 0
  /\ sample_count' = 0 /\ m_write_error' = FALSE
  /\ m_buffer' = <<>>
  /\ file' = <<>> /\ accepted' = <<>>

StartNoDirectory ==
  /\ "dir" \in Faults
  /\ ResetCapture
  /\ sidecar' = Absent
  /\ UNCHANGED <<m_capturing, m_stop, ringVars, prodVars, writerVars,
                 m_data_file, main>>

StartNoFile ==
  /\ "open" \in Faults
  /\ ResetCapture
  /\ sidecar' \in SidecarAfter(Absent, Metadata("start", 0, 0, FALSE))
  /\ UNCHANGED <<m_capturing, m_stop, ringVars, prodVars, writerVars,
                 m_data_file, main>>

StartOpened ==
  /\ ResetCapture
  /\ m_data_file' = TRUE
  /\ sidecar' \in SidecarAfter(Absent, Metadata("start", 0, 0, FALSE))
  /\ m_ring' = EmptyRing /\ m_head' = 0 /\ m_tail' = 0
  /\ m_stop' = FALSE
  /\ writer' = "loop"
  /\ main' = "arm"
  /\ UNCHANGED <<m_capturing, prodVars, stopping, head, done>>

StartArm ==
  /\ main = "arm" /\ MutexFree
  /\ m_capturing' = TRUE
  /\ main' = "capturing"
  /\ UNCHANGED <<m_stop, streamVars, ringVars, prodVars, writerVars,
                 m_buffer, fileVars, sidecar, captures, m_dropped_samples>>

(***************************************************************************)
(* The producer: write_samples().  Idle, it reads m_capturing without the  *)
(* lock and returns; otherwise it rechecks under m_push_mutex, counts the  *)
(* batch, and either drops it whole or copies it in at most two segments.  *)
(***************************************************************************)
SeeCapturing ==
  /\ producer = "idle" /\ m_capturing
  /\ \E count \in BatchSizes :
       /\ m_received_samples + count <= MaxReceived
       /\ batch' = count
  /\ producer' = "enter"
  /\ UNCHANGED <<m_capturing, m_stop, streamVars, ringVars, writerVars,
                 m_buffer, fileVars, mainVars>>

BugRoomOffByOne == RingSize - (m_head - m_tail) >= batch - 1
RingHasRoom == RingSize - (m_head - m_tail) >= batch

\* The recheck under the mutex.
BugNoRecheck == TRUE
StillCapturing == m_capturing

\* Lock, recheck, count, test for room.
EnterPush ==
  /\ producer = "enter"
  /\ IF StillCapturing
     THEN /\ m_received_samples' = m_received_samples + batch
          /\ IF RingHasRoom
             THEN producer' = "copy" /\ UNCHANGED m_ring_dropped
             ELSE producer' = "idle" /\ m_ring_dropped' = m_ring_dropped + batch
     ELSE producer' = "idle" /\ UNCHANGED <<m_received_samples, m_ring_dropped>>
  /\ UNCHANGED <<m_capturing, m_stop, accepted, ringVars, batch, writerVars,
                 m_buffer, fileVars, mainVars>>

\* The first copy_n stops at the end of the ring, the second starts over at
\* its beginning.
BugNoWrap == batch
FirstSegment == Minimum(batch, RingSize - Slot(m_head))

\* Sample k of the batch, as its place in the delivered stream.
BatchSample(k) == m_received_samples - batch + k

CopyFirst ==
  /\ producer = "copy"
  /\ m_ring' = [slot \in DOMAIN m_ring |->
                  IF slot - Slot(m_head) \in 0..FirstSegment-1
                  THEN BatchSample(slot - Slot(m_head)) ELSE m_ring[slot]]
  /\ producer' = "wrap"
  /\ UNCHANGED <<m_capturing, m_stop, streamVars, m_head, m_tail, batch,
                 writerVars, m_buffer, fileVars, mainVars>>

CopyWrapped ==
  /\ producer = "wrap"
  /\ m_ring' = [slot \in DOMAIN m_ring |->
                  IF slot < batch - FirstSegment
                  THEN BatchSample(FirstSegment + slot) ELSE m_ring[slot]]
  /\ producer' = "publish"
  /\ UNCHANGED <<m_capturing, m_stop, streamVars, m_head, m_tail, batch,
                 writerVars, m_buffer, fileVars, mainVars>>

\* The release store of m_head, and the mutex is left.
Publish ==
  /\ producer = "publish"
  /\ m_head' = m_head + batch
  /\ accepted' = accepted \o [k \in 1..batch |-> BatchSample(k - 1)]
  /\ producer' = "idle"
  /\ UNCHANGED <<m_capturing, m_stop, m_received_samples, m_ring_dropped,
                 m_ring, m_tail, batch, writerVars, m_buffer, fileVars,
                 mainVars>>

(***************************************************************************)
(* The writer thread: writer_loop() and write_block().  m_stop is read     *)
(* before m_head; a block ends at the end of the ring; each of its samples *)
(* goes through append_bytes(), which flushes the buffer when it is full.  *)
(***************************************************************************)
ReadStop ==
  /\ writer = "loop"
  /\ stopping' = m_stop
  /\ writer' = "head"
  /\ UNCHANGED <<m_capturing, m_stop, streamVars, ringVars, prodVars, head,
                 done, m_buffer, fileVars, mainVars>>

ReadHead ==
  /\ writer = "head"
  /\ head' = m_head
  /\ writer' = "decide"
  /\ UNCHANGED <<m_capturing, m_stop, streamVars, ringVars, prodVars, stopping,
                 done, m_buffer, fileVars, mainVars>>

\* An empty ring: return if told to stop, else sleep and poll again.
BugStopReadAfterHead ==
  /\ writer = "decide" /\ head = m_tail
  /\ writer' = IF m_stop THEN "exited" ELSE "loop"
  /\ UNCHANGED <<m_capturing, m_stop, streamVars, ringVars, prodVars, stopping,
                 head, done, m_buffer, fileVars, mainVars>>

FoundEmpty ==
  /\ writer = "decide" /\ head = m_tail
  /\ writer' = IF stopping THEN "exited" ELSE "loop"
  /\ UNCHANGED <<m_capturing, m_stop, streamVars, ringVars, prodVars, stopping,
                 head, done, m_buffer, fileVars, mainVars>>

BlockSize == Minimum(head - m_tail, RingSize - Slot(m_tail))

\* write_block() begins: update_stats() counts the whole block, unless a short
\* write has ended the capture.
BeginBlock ==
  /\ writer = "decide" /\ head # m_tail
  /\ sample_count' = IF m_data_file THEN sample_count + BlockSize
                                    ELSE sample_count
  /\ done' = 0
  /\ writer' = "write"
  /\ UNCHANGED <<m_capturing, m_stop, streamVars, ringVars, prodVars, stopping,
                 head, m_buffer, m_data_file, file, m_write_error, mainVars>>

BugFlushLate(bytes) == Len(bytes) > BufferBytes
BufferFull(bytes) == Len(bytes) >= BufferBytes

\* append_bytes() of one sample: it fills the buffer, which is flushed when
\* full; what did not fit starts the next one.
AppendSample ==
  /\ writer = "write" /\ m_data_file /\ done < BlockSize
  /\ done' = done + 1
  /\ LET bytes == BytesOf(<<m_ring[Slot(m_tail + done)]>>)
         fits  == Minimum(SampleBytes, BufferBytes - Len(m_buffer))
         full  == m_buffer \o SubSeq(bytes, 1, fits)
     IN  \/ /\ ~BufferFull(full)
            /\ m_buffer' = full
            /\ UNCHANGED <<m_data_file, file, m_write_error>>
         \/ /\ BufferFull(full)
            /\ \E flushed \in FlushResults(file, full) :
                 /\ file' = flushed.file
                 /\ m_data_file' = flushed.open
                 /\ m_write_error' = (m_write_error \/ ~flushed.open)
                 /\ m_buffer' = IF flushed.open
                                THEN SubSeq(bytes, fits + 1, SampleBytes)
                                ELSE <<>>
  /\ UNCHANGED <<m_capturing, m_stop, streamVars, ringVars, prodVars, writer,
                 stopping, head, sample_count, mainVars>>

\* Every sample of the block is in the buffer, or the file is closed and the
\* rest is thrown away.
BlockWritten == done = BlockSize \/ ~m_data_file

EndBlock ==
  /\ writer = "write"
  /\ BlockWritten
  /\ m_tail' = m_tail + BlockSize
  /\ writer' = "loop"
  /\ UNCHANGED <<m_capturing, m_stop, streamVars, m_ring, m_head, prodVars,
                 stopping, head, done, m_buffer, fileVars, mainVars>>

(***************************************************************************)
(* Main: stop_capture(), preceded by set_dropped_samples().  The producer  *)
(* is locked out first, then the writer is told to drain the ring and      *)
(* joined, then close_files() makes the file and the sidecar agree.        *)
(***************************************************************************)
StopCapture ==
  /\ main = "capturing" /\ MutexFree
  /\ m_dropped_samples' \in SourceLosses
  /\ m_capturing' = FALSE
  /\ main' = "signal"
  /\ UNCHANGED <<m_stop, streamVars, ringVars, prodVars, writerVars,
                 m_buffer, fileVars, sidecar, captures>>

SignalStop ==
  /\ main = "signal"
  /\ m_stop' = TRUE
  /\ main' = "join"
  /\ UNCHANGED <<m_capturing, streamVars, ringVars, prodVars, writerVars,
                 m_buffer, fileVars, sidecar, captures, m_dropped_samples>>

\* What the buffer's last flush can do to the file.
LastFlush == IF m_data_file /\ m_buffer # <<>>
             THEN FlushResults(file, m_buffer)
             ELSE {[open |-> m_data_file, file |-> file]}

\* m_writer.join(), then close_files() up to fclose: the last flush and the
\* close may each fail.
CloseFile ==
  /\ main = "join" /\ writer = "exited"
  /\ writer' = "none"
  /\ \E flushed \in LastFlush :
       \E closed \in IF flushed.open THEN CloseResults(flushed.file)
                     ELSE {[ok |-> ~m_data_file, file |-> flushed.file]} :
         /\ file' = closed.file
         /\ m_write_error' = (m_write_error \/ ~closed.ok)
  /\ m_data_file' = FALSE
  /\ m_buffer' = <<>>
  /\ main' = "finalize"
  /\ UNCHANGED <<m_capturing, m_stop, streamVars, ringVars, prodVars, stopping,
                 head, done, sample_count, sidecar, captures,
                 m_dropped_samples>>

\* The samples the file holds, as file_size() counts them, and the outcomes of
\* cutting it to them.
WholeSamples == Len(file) \div SampleBytes
CutFile == {SubSeq(file, 1, SampleBytes * WholeSamples)} \cup
           (IF "resize" \in Faults THEN {file} ELSE {})

\* capture.dropped_samples: what the source lost and what the ring refused.
BugRingDropsUncounted == m_dropped_samples
DroppedReported == m_dropped_samples + m_ring_dropped

\* close_files() from file_size on, and stop_capture() to its end.
Finalize ==
  /\ main = "finalize"
  /\ \/ /\ sample_count' = WholeSamples
        /\ file' \in CutFile
     \/ /\ "stat" \in Faults
        /\ UNCHANGED <<sample_count, file>>
  /\ sidecar' \in SidecarAfter(sidecar,
       Metadata("stop", sample_count', DroppedReported, m_write_error))
  /\ m_buffer' = <<>>
  /\ m_ring' = Released
  /\ main' = "idle"
  /\ UNCHANGED <<m_capturing, m_stop, streamVars, m_head, m_tail, prodVars,
                 writerVars, m_data_file, m_write_error, captures,
                 m_dropped_samples>>

-----------------------------------------------------------------------------
Start == StartNoDirectory \/ StartNoFile \/ StartOpened \/ StartArm
Stop == StopCapture \/ SignalStop \/ CloseFile \/ Finalize
WriteSamples == SeeCapturing \/ EnterPush \/ CopyFirst \/ CopyWrapped \/ Publish
WriterLoop == ReadStop \/ ReadHead \/ FoundEmpty \/ BeginBlock \/ AppendSample
              \/ EndBlock

\* The bounds are reached and nothing is under way.
Exhausted ==
  /\ main = "idle" /\ producer = "idle" /\ captures = MaxCaptures
  /\ UNCHANGED vars

Next == Start \/ Stop \/ WriteSamples \/ WriterLoop \/ Exhausted

Spec == Init /\ [][Next]_vars

\* Fairness: each thread keeps running, and file-system calls return.  Main is
\* obliged to finish a start or a stop it began, never to begin one.  Taking
\* m_push_mutex is strongly fair: the producer holds it for one copy and then
\* waits for its next delivery.
Fairness ==
  /\ WF_vars(WriterLoop)
  /\ WF_vars(EnterPush \/ CopyFirst \/ CopyWrapped \/ Publish)
  /\ SF_vars(StartArm)
  /\ WF_vars(SignalStop \/ CloseFile \/ Finalize)

FairSpec == Spec /\ Fairness

-----------------------------------------------------------------------------
(* Properties *)

SidecarRecords ==
  [state : {"absent", "torn", "whole"}, when : {"never", "start", "stop"},
   samples : Nat, dropped : Nat, error : BOOLEAN]

FlagType ==
  /\ m_capturing \in BOOLEAN /\ m_stop \in BOOLEAN /\ stopping \in BOOLEAN
  /\ m_data_file \in BOOLEAN /\ m_write_error \in BOOLEAN
RingType ==
  /\ m_head \in Nat /\ m_tail \in Nat
  /\ m_ring \in [0..RingSize-1 -> Int] \cup {Released}
ProducerType ==
  /\ producer \in {"idle", "enter", "copy", "wrap", "publish"}
  /\ batch \in Nat
  /\ m_received_samples \in Nat /\ m_ring_dropped \in Nat
  /\ accepted \in Seq(Int)
WriterType ==
  /\ writer \in {"none", "loop", "head", "decide", "write", "exited"}
  /\ head \in Nat /\ done \in Nat
MainType ==
  /\ main \in {"idle", "arm", "capturing", "signal", "join", "finalize"}
  /\ captures \in Nat /\ m_dropped_samples \in Nat
  /\ sidecar \in SidecarRecords
FileType ==
  /\ file \in Seq(Int) /\ sample_count \in Nat
  /\ m_buffer \in Seq(Int) /\ Len(m_buffer) < BufferBytes

\* Each variable keeps its type; the write buffer never stays full.
TypeOK == /\ FlagType /\ RingType /\ ProducerType /\ WriterType /\ MainType
          /\ FileType

\* The indices the producer is copying into, and those of the writer's block.
Copying == IF producer \in {"copy", "wrap"} THEN m_head..(m_head + batch - 1)
                                           ELSE {}
Writing == IF writer = "write" THEN m_tail..(m_tail + BlockSize - 1) ELSE {}

\* No thread touches the ring while it is released: stop_capture() locks the
\* producer out and joins the writer before m_ring.clear().
RingHeldWhileUsed ==
  (PushInProgress \/ writer # "none") => m_ring # Released

\* The producer never copies into a slot of the block the writer is reading
\* (single producer, single consumer, no lock between them).
NoSharedSlot ==
  \A i \in Copying, j \in Writing : Slot(i) # Slot(j)

\* Every slot between m_tail and m_head holds the sample accepted at its
\* index: nothing is overwritten before it is written out, wrap included.
RingIsFifo ==
  m_ring # Released =>
    /\ m_tail <= m_head /\ m_head = Len(accepted)
    /\ \A i \in m_tail..(m_head - 1) : m_ring[Slot(i)] = accepted[i + 1]

\* The data file is at every moment a prefix of the accepted samples' bytes,
\* a short write or a failing close included: never a gap, never misaligned.
FileIsPrefix == IsPrefixOf(file, BytesOf(accepted))

\* After stop_capture() a capture without a write error holds every accepted
\* sample, and the ones not accepted are all counted as dropped.
NothingLostSilently ==
  main = "idle" =>
    /\ Len(accepted) + m_ring_dropped = m_received_samples
    /\ (m_write_error \/ file = BytesOf(accepted))

\* The final sidecar tells the truth: sample_count is what the file holds, and
\* without a write error what it and dropped_samples say add up to what the
\* producer and the source saw.
SidecarIsExact ==
  (main = "idle" /\ sidecar.when = "stop") =>
    /\ sidecar.samples = WholeSamples
    /\ sidecar.error = m_write_error
    /\ sidecar.error \/ sidecar.samples + sidecar.dropped
                          = m_received_samples + m_dropped_samples

\* Once stop_capture() has cleared m_capturing no batch reaches the ring or a
\* counter: what the writer drains and the sidecar reports is final.
NoPushAfterStop ==
  [][(main \in {"signal", "join", "finalize"}) =>
       UNCHANGED <<accepted, m_received_samples, m_ring_dropped>>]_vars

\* Every accepted sample is taken out of the ring, also when a stop or a short
\* write comes first.
AcceptedIsDrained ==
  \A n \in 1..MaxReceived : (m_head >= n) ~> (m_tail >= n)

\* The comment in write_metadata(): a sidecar that cannot be rewritten at stop
\* stays the start's.
StopKeepsASidecar ==
  [][main = "finalize" =>
       \/ sidecar' = sidecar
       \/ sidecar'.state = "whole" /\ sidecar'.when = "stop"]_vars

-----------------------------------------------------------------------------
(***************************************************************************)
(* The logger implements IqCapture.  A batch counts as offered when it is  *)
(* published or dropped, and what is stored are the file's whole samples.  *)
(***************************************************************************)
StoredSamples == [i \in 1..WholeSamples |-> file[i * SampleBytes]]

Phase == CASE main \in {"idle", "arm"} -> "idle"
           [] main = "capturing" -> "open"
           [] OTHER -> "stopping"

Offered == m_received_samples - (IF PushInProgress THEN batch ELSE 0)

Capture == INSTANCE IqCapture WITH
             phase <- Phase, offered <- Offered, lost <- m_ring_dropped,
             stored <- StoredSamples, failed <- m_write_error

ImplementsIqCapture == Capture!FairSpec
=============================================================================
