--------------------------- MODULE IqLogger_proofs ---------------------------
(***************************************************************************)
(* Proofs about IqLogger, for every ring, batch, buffer and sample size    *)
(* and every set of failing file-system calls:                             *)
(*   - every variable keeps its type;                                      *)
(*   - no thread touches the ring while it is released, and producer and   *)
(*     writer are never in the same slot;                                  *)
(*   - the ring is a FIFO of the accepted samples;                         *)
(*   - nothing reaches it once stop_capture() cleared m_capturing;         *)
(*   - the file and the sidecar a capture leaves tell the truth;           *)
(*   - every step of the logger is one of IqCapture, or a stutter.         *)
(***************************************************************************)
EXTENDS IqLogger, DataFacts, SequenceTheorems

-----------------------------------------------------------------------------
(* The inductive invariant, in parts. *)

\* Who may be where: capturing is main's place between arm and stop, a push is
\* in progress only then, and the writer lives from open to join.
ControlInv ==
  /\ m_capturing <=> main = "capturing"
  /\ PushInProgress => main = "capturing"
  /\ writer # "none" => main \in {"arm", "capturing", "signal", "join"}

\* The ring is allocated exactly while a capture is under way, and never holds
\* more than it has slots for, the batch being copied included.
RingInv ==
  /\ main # "idle" => m_ring \in [0..RingSize-1 -> Int]
  /\ main = "idle" => m_ring = Released
  /\ main # "idle" =>
       /\ m_tail <= m_head /\ m_head = Len(accepted)
       /\ m_head - m_tail <= RingSize
  /\ PushInProgress => /\ m_head - m_tail + batch <= RingSize
                       /\ batch <= m_received_samples

\* What the copy has put into the slots past m_head.
CopyInv ==
  /\ producer = "wrap" =>
       \A k \in 0..FirstSegment-1 : m_ring[Slot(m_head + k)] = BatchSample(k)
  /\ producer = "publish" =>
       \A k \in 0..batch-1 : m_ring[Slot(m_head + k)] = BatchSample(k)

\* The writer's view of m_head is between m_tail and m_head.
WriterInv ==
  /\ writer \in {"decide", "write"} => m_tail <= head /\ head <= m_head
  /\ writer = "write" => m_tail < head

Inv == TypeOK /\ ControlInv /\ RingInv /\ CopyInv /\ WriterInv /\ RingIsFifo

-----------------------------------------------------------------------------
(* Slots, in the terms of the specification. *)

LEMMA RingSizeType == RingSize \in Nat /\ RingSize > 0
BY ConstantsAssumption

LEMMA SlotType == \A i \in Int : Slot(i) \in 0..RingSize-1
BY ConstantsAssumption, SlotInRange DEF Slot

LEMMA SlotsDiffer ==
  \A i, j \in Int : i < j /\ j < i + RingSize => Slot(i) # Slot(j)
<1> TAKE i, j \in Int
<1> HAVE i < j /\ j < i + RingSize
<1> QED BY ConstantsAssumption, SlotsDistinct DEF Slot

LEMMA SlotForward ==
  ASSUME NEW h \in Int, NEW k \in Nat, k < RingSize - Slot(h)
  PROVE  Slot(h + k) = Slot(h) + k
BY ConstantsAssumption, SlotBeforeWrap DEF Slot

LEMMA SlotWrapped ==
  ASSUME NEW h \in Int, NEW k \in Nat, k >= RingSize - Slot(h), k < RingSize
  PROVE  Slot(h + k) = Slot(h) + k - RingSize
BY ConstantsAssumption, SlotAfterWrap DEF Slot

\* A released ring is no ring.
LEMMA ReleasedIsNoRing == Released \notin [0..RingSize-1 -> Int]
<1> SUFFICES ASSUME Released \in [0..RingSize-1 -> Int] PROVE FALSE
  OBVIOUS
<1>1. DOMAIN Released = 0..RingSize-1
  OBVIOUS
<1>2. DOMAIN Released = {}
  BY DEF Released
<1> QED BY <1>1, <1>2, RingSizeType

\* The first segment is part of the batch and ends with the ring.
LEMMA FirstSegmentBounds ==
  ASSUME TypeOK
  PROVE  /\ FirstSegment \in Nat
         /\ FirstSegment <= batch /\ FirstSegment <= RingSize - Slot(m_head)
         /\ FirstSegment < batch => FirstSegment = RingSize - Slot(m_head)
<1>1. batch \in Nat /\ m_head \in Nat
  BY DEF TypeOK, RingType, ProducerType, WriterType
<1>2. Slot(m_head) \in 0..RingSize-1
  BY <1>1, SlotType
<1> QED BY <1>1, <1>2, RingSizeType DEF FirstSegment, Minimum

\* A block is within the ring and what the writer saw published.
LEMMA BlockSizeBounds ==
  ASSUME TypeOK, m_tail <= head
  PROVE  /\ BlockSize \in Nat /\ BlockSize <= head - m_tail
         /\ m_tail < head => BlockSize > 0
<1>1. m_tail \in Nat /\ head \in Nat
  BY DEF TypeOK, RingType, ProducerType, WriterType
<1>2. Slot(m_tail) \in 0..RingSize-1
  BY <1>1, SlotType
<1> QED BY <1>1, <1>2, RingSizeType DEF BlockSize, Minimum

\* The bytes of one sample, and what a flush or a close leaves, are sequences.
LEMMA OneSampleBytes ==
  ASSUME NEW s \in Int
  PROVE  /\ BytesOf(<<s>>) \in Seq(Int)
         /\ Len(BytesOf(<<s>>)) = SampleBytes
         /\ \A i \in 1..SampleBytes : BytesOf(<<s>>)[i] = s
<1>1. \A i \in 1..SampleBytes : (i - 1) \div SampleBytes = 0
  BY ConstantsAssumption, SMTT(10)
<1>2. BytesOf(<<s>>) = [i \in 1..SampleBytes |-> s]
  BY <1>1, ConstantsAssumption DEF BytesOf
<1> QED BY <1>2, ConstantsAssumption

LEMMA FlushType ==
  ASSUME NEW onFile \in Seq(Int), NEW bytes \in Seq(Int),
         NEW result \in FlushResults(onFile, bytes)
  PROVE  result.open \in BOOLEAN /\ result.file \in Seq(Int)
<1> DEFINE all == onFile \o bytes
<1>1. all \in Seq(Int)
  OBVIOUS
<1>2. \A n \in 0..Len(all)-1 : SubSeq(all, 1, n) \in Seq(Int)
  BY <1>1, SubSeqProperties
<1>3. CASE result = [open |-> TRUE, file |-> all]
  BY <1>1, <1>3
<1>4. ASSUME NEW n \in 0..Len(all)-1,
             result = [open |-> FALSE, file |-> SubSeq(all, 1, n)]
      PROVE  result.open \in BOOLEAN /\ result.file \in Seq(Int)
  BY <1>2, <1>4
<1> HIDE DEF all
<1> QED BY <1>3, <1>4, Zenon DEF FlushResults, all

LEMMA CloseType ==
  ASSUME NEW onFile \in Seq(Int), NEW result \in CloseResults(onFile)
  PROVE  result.ok \in BOOLEAN /\ result.file \in Seq(Int)
<1>1. \A n \in 0..Len(onFile) : SubSeq(onFile, 1, n) \in Seq(Int)
  BY SubSeqProperties
<1>2. CASE result = [ok |-> TRUE, file |-> onFile]
  BY <1>2
<1>3. ASSUME NEW n \in 0..Len(onFile),
             result = [ok |-> FALSE, file |-> SubSeq(onFile, 1, n)]
      PROVE  result.ok \in BOOLEAN /\ result.file \in Seq(Int)
  BY <1>1, <1>3
<1> QED BY <1>2, <1>3, Zenon DEF CloseResults

\* Whatever write_metadata() leaves is a sidecar.
LEMMA SidecarAfterType ==
  ASSUME NEW before \in SidecarRecords, NEW when \in {"start", "stop"},
         NEW samples \in Nat, NEW dropped \in Nat, NEW error \in BOOLEAN,
         NEW after \in SidecarAfter(before, Metadata(when, samples, dropped, error))
  PROVE  after \in SidecarRecords
<1>1. Torn \in SidecarRecords
  BY DEF Torn, Absent, SidecarRecords
<1>2. Metadata(when, samples, dropped, error) \in SidecarRecords
  BY DEF Metadata, SidecarRecords
<1> QED BY <1>1, <1>2 DEF SidecarAfter

-----------------------------------------------------------------------------
(* Type correctness. *)

LEMMA AbsentType == Absent \in SidecarRecords
BY DEF Absent, SidecarRecords

LEMMA BufferSizeType == BufferBytes \in Nat /\ BufferBytes > 0
BY ConstantsAssumption

LEMMA InitType == Init => TypeOK
<1> SUFFICES ASSUME Init PROVE TypeOK
  OBVIOUS
<1>1. FlagType
  BY DEF Init, FlagType
<1>2. RingType
  BY DEF Init, RingType
<1>3. ProducerType
  BY DEF Init, ProducerType
<1>4. WriterType
  BY DEF Init, WriterType
<1>5. MainType
  BY AbsentType DEF Init, MainType
<1>6. FileType
  BY BufferSizeType DEF Init, FileType
<1> QED BY <1>1, <1>2, <1>3, <1>4, <1>5, <1>6 DEF TypeOK

USE DEF streamVars, ringVars, prodVars, writerVars, fileVars,
        mainVars

\* Main, starting.
LEMMA StartType ==
  ASSUME TypeOK, Start
  PROVE  TypeOK'
<1> USE DEF TypeOK
<1>1. CASE StartNoDirectory
  <2> USE <1>1 DEF StartNoDirectory, ResetCapture
  <2>1. FlagType'
    BY DEF FlagType
  <2>2. RingType'
    BY DEF RingType
  <2>3. ProducerType'
    BY DEF ProducerType
  <2>4. WriterType'
    BY DEF WriterType
  <2>5. MainType'
    BY AbsentType DEF MainType
  <2>6. FileType'
    BY BufferSizeType DEF FileType
  <2> QED BY <2>1, <2>2, <2>3, <2>4, <2>5, <2>6
<1>2. CASE StartNoFile
  <2> USE <1>2 DEF StartNoFile, ResetCapture
  <2>1. FlagType'
    BY DEF FlagType
  <2>2. RingType'
    BY DEF RingType
  <2>3. ProducerType'
    BY DEF ProducerType
  <2>4. WriterType'
    BY DEF WriterType
  <2>5. MainType'
    <3>1. sidecar' \in SidecarRecords
      BY AbsentType, SidecarAfterType
    <3> QED BY <3>1 DEF MainType
  <2>6. FileType'
    BY BufferSizeType DEF FileType
  <2> QED BY <2>1, <2>2, <2>3, <2>4, <2>5, <2>6
<1>3. CASE StartOpened
  <2> USE <1>3 DEF StartOpened, ResetCapture
  <2>1. FlagType'
    BY DEF FlagType
  <2>2. RingType'
    BY DEF RingType, EmptyRing
  <2>3. ProducerType'
    BY DEF ProducerType
  <2>4. WriterType'
    BY DEF WriterType
  <2>5. MainType'
    <3>1. sidecar' \in SidecarRecords
      BY AbsentType, SidecarAfterType
    <3> QED BY <3>1 DEF MainType
  <2>6. FileType'
    BY BufferSizeType DEF FileType
  <2> QED BY <2>1, <2>2, <2>3, <2>4, <2>5, <2>6
<1>4. CASE StartArm
  <2> USE <1>4 DEF StartArm
  <2>1. FlagType'
    BY DEF FlagType
  <2>2. RingType'
    BY DEF RingType
  <2>3. ProducerType'
    BY DEF ProducerType
  <2>4. WriterType'
    BY DEF WriterType
  <2>5. MainType'
    BY DEF MainType
  <2>6. FileType'
    BY DEF FileType
  <2> QED BY <2>1, <2>2, <2>3, <2>4, <2>5, <2>6
<1> QED BY <1>1, <1>2, <1>3, <1>4 DEF Start

\* The producer.
LEMMA WriteSamplesType ==
  ASSUME TypeOK, ControlInv, RingInv, WriteSamples
  PROVE  TypeOK'
<1> USE DEF TypeOK
<1>1. CASE SeeCapturing
  <2> USE <1>1 DEF SeeCapturing
  <2>1. FlagType'
    BY DEF FlagType
  <2>2. RingType'
    BY DEF RingType
  <2>3. ProducerType'
    BY ConstantsAssumption DEF ProducerType
  <2>4. WriterType'
    BY DEF WriterType
  <2>5. MainType'
    BY DEF MainType
  <2>6. FileType'
    BY DEF FileType
  <2> QED BY <2>1, <2>2, <2>3, <2>4, <2>5, <2>6
<1>2. CASE EnterPush
  <2> USE <1>2 DEF EnterPush
  <2>1. FlagType'
    BY DEF FlagType
  <2>2. RingType'
    BY DEF RingType
  <2>3. ProducerType'
    BY DEF ProducerType
  <2>4. WriterType'
    BY DEF WriterType
  <2>5. MainType'
    BY DEF MainType
  <2>6. FileType'
    BY DEF FileType
  <2> QED BY <2>1, <2>2, <2>3, <2>4, <2>5, <2>6
<1>3. CASE CopyFirst
  <2> USE <1>3 DEF CopyFirst
  <2>1. FlagType'
    BY DEF FlagType
  <2>2. RingType'
    <3>1. m_ring \in [0..RingSize-1 -> Int]
      BY DEF RingInv, ControlInv, PushInProgress
    <3>2. \A k \in Int : BatchSample(k) \in Int
      BY DEF BatchSample, ProducerType
    <3>3. Slot(m_head) \in Int
      BY SlotType DEF RingType
    <3>4. m_ring' \in [0..RingSize-1 -> Int]
      BY <3>1, <3>2, <3>3
    <3> QED BY <3>4 DEF RingType
  <2>3. ProducerType'
    BY DEF ProducerType
  <2>4. WriterType'
    BY DEF WriterType
  <2>5. MainType'
    BY DEF MainType
  <2>6. FileType'
    BY DEF FileType
  <2> QED BY <2>1, <2>2, <2>3, <2>4, <2>5, <2>6
<1>4. CASE CopyWrapped
  <2> USE <1>4 DEF CopyWrapped
  <2>1. FlagType'
    BY DEF FlagType
  <2>2. RingType'
    <3>1. m_ring \in [0..RingSize-1 -> Int]
      BY DEF RingInv, ControlInv, PushInProgress
    <3>2. \A k \in Int : BatchSample(k) \in Int
      BY DEF BatchSample, ProducerType
    <3>3. FirstSegment \in Nat
      BY FirstSegmentBounds
    <3>4. m_ring' \in [0..RingSize-1 -> Int]
      BY <3>1, <3>2, <3>3
    <3> QED BY <3>4 DEF RingType
  <2>3. ProducerType'
    BY DEF ProducerType
  <2>4. WriterType'
    BY DEF WriterType
  <2>5. MainType'
    BY DEF MainType
  <2>6. FileType'
    BY DEF FileType
  <2> QED BY <2>1, <2>2, <2>3, <2>4, <2>5, <2>6
<1>5. CASE Publish
  <2> USE <1>5 DEF Publish
  <2>1. FlagType'
    BY DEF FlagType
  <2>2. RingType'
    BY DEF RingType, ProducerType
  <2>3. ProducerType'
    <3>1. [k \in 1..batch |-> BatchSample(k - 1)] \in Seq(Int)
      BY DEF BatchSample, ProducerType
    <3>2. accepted' \in Seq(Int)
      BY <3>1 DEF ProducerType
    <3> QED BY <3>2 DEF ProducerType
  <2>4. WriterType'
    BY DEF WriterType
  <2>5. MainType'
    BY DEF MainType
  <2>6. FileType'
    BY DEF FileType
  <2> QED BY <2>1, <2>2, <2>3, <2>4, <2>5, <2>6
<1> QED BY <1>1, <1>2, <1>3, <1>4, <1>5 DEF WriteSamples


\* append_bytes() leaves room in the buffer, also when a sample straddles it.
LEMMA AppendSampleType ==
  ASSUME TypeOK, ControlInv, RingInv, AppendSample
  PROVE  FlagType' /\ FileType'
<1> DEFINE bytes == BytesOf(<<m_ring[Slot(m_tail + done)]>>)
           fits  == Minimum(SampleBytes, BufferBytes - Len(m_buffer))
           full  == m_buffer \o SubSeq(bytes, 1, fits)
           rest  == SubSeq(bytes, fits + 1, SampleBytes)
<1>1. m_ring[Slot(m_tail + done)] \in Int
  <2>1. m_ring \in [0..RingSize-1 -> Int]
    BY DEF ControlInv, RingInv, AppendSample, TypeOK, MainType
  <2>2. Slot(m_tail + done) \in 0..RingSize-1
    BY SlotType DEF TypeOK, RingType, WriterType
  <2> QED BY <2>1, <2>2
<1>2. bytes \in Seq(Int) /\ Len(bytes) = SampleBytes
  BY <1>1, OneSampleBytes
<1>3. m_buffer \in Seq(Int) /\ Len(m_buffer) \in Nat /\ Len(m_buffer) < BufferBytes
  BY DEF TypeOK, FileType
<1>4. /\ fits \in 1..SampleBytes
      /\ fits <= BufferBytes - Len(m_buffer)
  BY <1>3, ConstantsAssumption DEF Minimum
<1> HIDE DEF bytes, fits
<1>5. full \in Seq(Int) /\ Len(full) = Len(m_buffer) + fits
  <2>1. SubSeq(bytes, 1, fits) \in Seq(Int) /\ Len(SubSeq(bytes, 1, fits)) = fits
    BY <1>2, <1>4, SubSeqProperties
  <2> QED BY <1>3, <2>1, ConcatProperties
<1>6. rest \in Seq(Int) /\ Len(rest) < BufferBytes
  BY <1>2, <1>4, ConstantsAssumption, SubSeqProperties
<1> HIDE DEF full, rest
<1>7. CASE m_buffer' = full /\ ~BufferFull(full)
           /\ UNCHANGED <<m_data_file, file, m_write_error>>
  <2>1. Len(full) < BufferBytes
    BY <1>3, <1>4, <1>5, <1>7, ConstantsAssumption DEF BufferFull
  <2>2. FlagType'
    BY <1>7 DEF TypeOK, FlagType, AppendSample
  <2>3. FileType'
    BY <2>1, <1>5, <1>7 DEF TypeOK, FileType, AppendSample
  <2> QED BY <2>2, <2>3
<1>8. ASSUME NEW flushed \in FlushResults(file, full),
             file' = flushed.file, m_data_file' = flushed.open,
             m_write_error' = (m_write_error \/ ~flushed.open),
             m_buffer' = IF flushed.open THEN rest ELSE <<>>
      PROVE  FlagType' /\ FileType'
  <2>1. flushed.open \in BOOLEAN /\ flushed.file \in Seq(Int)
    BY <1>5, FlushType DEF TypeOK, FileType
  <2>2. FlagType'
    BY <1>8, <2>1 DEF TypeOK, FlagType, AppendSample
  <2>3. m_buffer' \in Seq(Int) /\ Len(m_buffer') < BufferBytes
    BY <1>6, <1>8, <2>1, BufferSizeType
  <2>4. FileType'
    BY <1>8, <2>1, <2>3 DEF TypeOK, FileType, AppendSample
  <2> QED BY <2>2, <2>4
<1> QED BY <1>7, <1>8, Zenon DEF AppendSample, bytes, fits, full, rest

LEMMA LastFlushType ==
  ASSUME TypeOK, NEW flushed \in LastFlush
  PROVE  flushed.open \in BOOLEAN /\ flushed.file \in Seq(Int)
<1>1. m_buffer \in Seq(Int) /\ file \in Seq(Int) /\ m_data_file \in BOOLEAN
  BY DEF TypeOK, FlagType, FileType
<1>2. CASE flushed \in FlushResults(file, m_buffer)
  BY <1>1, <1>2, FlushType
<1>3. CASE flushed = [open |-> m_data_file, file |-> file]
  BY <1>1, <1>3
<1> QED BY <1>2, <1>3 DEF LastFlush

LEMMA WholeSamplesType ==
  ASSUME TypeOK
  PROVE  /\ WholeSamples \in Nat
         /\ SampleBytes * WholeSamples \in 0..Len(file)
         /\ \A cut \in CutFile : cut \in Seq(Int)
<1>1. file \in Seq(Int) /\ Len(file) \in Nat
  BY DEF TypeOK, FileType
<1>2. /\ WholeSamples \in Nat
      /\ SampleBytes * WholeSamples \in 0..Len(file)
  BY <1>1, ConstantsAssumption, SMTT(10) DEF WholeSamples
<1>3. SubSeq(file, 1, SampleBytes * WholeSamples) \in Seq(Int)
  BY <1>1, <1>2, SubSeqProperties
<1> QED BY <1>1, <1>2, <1>3 DEF CutFile

\* The writer.
LEMMA WriterLoopType ==
  ASSUME TypeOK, ControlInv, RingInv, WriterInv, WriterLoop
  PROVE  TypeOK'
<1> USE DEF TypeOK
<1>1. CASE ReadStop
  <2> USE <1>1 DEF ReadStop
  <2>1. FlagType'
    BY DEF FlagType
  <2>2. RingType'
    BY DEF RingType
  <2>3. ProducerType'
    BY DEF ProducerType
  <2>4. WriterType'
    BY DEF WriterType
  <2>5. MainType'
    BY DEF MainType
  <2>6. FileType'
    BY DEF FileType
  <2> QED BY <2>1, <2>2, <2>3, <2>4, <2>5, <2>6
<1>2. CASE ReadHead
  <2> USE <1>2 DEF ReadHead
  <2>1. FlagType'
    BY DEF FlagType
  <2>2. RingType'
    BY DEF RingType
  <2>3. ProducerType'
    BY DEF ProducerType
  <2>4. WriterType'
    BY DEF WriterType, RingType
  <2>5. MainType'
    BY DEF MainType
  <2>6. FileType'
    BY DEF FileType
  <2> QED BY <2>1, <2>2, <2>3, <2>4, <2>5, <2>6
<1>3. CASE FoundEmpty
  <2> USE <1>3 DEF FoundEmpty
  <2>1. FlagType'
    BY DEF FlagType
  <2>2. RingType'
    BY DEF RingType
  <2>3. ProducerType'
    BY DEF ProducerType
  <2>4. WriterType'
    BY DEF WriterType
  <2>5. MainType'
    BY DEF MainType
  <2>6. FileType'
    BY DEF FileType
  <2> QED BY <2>1, <2>2, <2>3, <2>4, <2>5, <2>6
<1>4. CASE BeginBlock
  <2> USE <1>4 DEF BeginBlock
  <2>1. FlagType'
    BY DEF FlagType
  <2>2. RingType'
    BY DEF RingType
  <2>3. ProducerType'
    BY DEF ProducerType
  <2>4. WriterType'
    BY DEF WriterType
  <2>5. MainType'
    BY DEF MainType
  <2>6. FileType'
    BY BlockSizeBounds DEF FileType, WriterInv
  <2> QED BY <2>1, <2>2, <2>3, <2>4, <2>5, <2>6
<1>5. CASE AppendSample
  <2> USE <1>5 DEF AppendSample
  <2>1. FlagType'
    BY AppendSampleType
  <2>2. RingType'
    BY DEF RingType
  <2>3. ProducerType'
    BY DEF ProducerType
  <2>4. WriterType'
    BY DEF WriterType
  <2>5. MainType'
    BY DEF MainType
  <2>6. FileType'
    BY AppendSampleType
  <2> QED BY <2>1, <2>2, <2>3, <2>4, <2>5, <2>6
<1>6. CASE EndBlock
  <2> USE <1>6 DEF EndBlock
  <2>1. FlagType'
    BY DEF FlagType
  <2>2. RingType'
    BY BlockSizeBounds DEF RingType, WriterInv
  <2>3. ProducerType'
    BY DEF ProducerType
  <2>4. WriterType'
    BY DEF WriterType
  <2>5. MainType'
    BY DEF MainType
  <2>6. FileType'
    BY DEF FileType
  <2> QED BY <2>1, <2>2, <2>3, <2>4, <2>5, <2>6
<1> QED BY <1>1, <1>2, <1>3, <1>4, <1>5, <1>6 DEF WriterLoop

\* Main, stopping.
LEMMA StopType ==
  ASSUME TypeOK, Stop
  PROVE  TypeOK'
<1> USE DEF TypeOK
<1>1. CASE StopCapture
  <2> USE <1>1 DEF StopCapture
  <2>1. FlagType'
    BY DEF FlagType
  <2>2. RingType'
    BY DEF RingType
  <2>3. ProducerType'
    BY DEF ProducerType
  <2>4. WriterType'
    BY DEF WriterType
  <2>5. MainType'
    BY ConstantsAssumption DEF MainType
  <2>6. FileType'
    BY DEF FileType
  <2> QED BY <2>1, <2>2, <2>3, <2>4, <2>5, <2>6
<1>2. CASE SignalStop
  <2> USE <1>2 DEF SignalStop
  <2>1. FlagType'
    BY DEF FlagType
  <2>2. RingType'
    BY DEF RingType
  <2>3. ProducerType'
    BY DEF ProducerType
  <2>4. WriterType'
    BY DEF WriterType
  <2>5. MainType'
    BY DEF MainType
  <2>6. FileType'
    BY DEF FileType
  <2> QED BY <2>1, <2>2, <2>3, <2>4, <2>5, <2>6
<1>3. CASE CloseFile
  <2> USE <1>3 DEF CloseFile
  <2>1. FlagType'
    BY DEF FlagType
  <2>2. RingType'
    BY DEF RingType
  <2>3. ProducerType'
    BY DEF ProducerType
  <2>4. WriterType'
    BY DEF WriterType
  <2>5. MainType'
    BY DEF MainType
  <2>6. FileType'
    <3>1. file' \in Seq(Int)
      BY LastFlushType, CloseType
    <3> QED BY <3>1, BufferSizeType DEF FileType
  <2> QED BY <2>1, <2>2, <2>3, <2>4, <2>5, <2>6
<1>4. CASE Finalize
  <2> USE <1>4 DEF Finalize
  <2>1. FlagType'
    BY DEF FlagType
  <2>2. RingType'
    BY DEF RingType
  <2>3. ProducerType'
    BY DEF ProducerType
  <2>4. WriterType'
    BY DEF WriterType
  <2>5. MainType'
    <3>1. sample_count' \in Nat
      BY WholeSamplesType DEF FileType
    <3>2. DroppedReported \in Nat
      BY DEF DroppedReported, MainType, ProducerType
    <3>3. sidecar' \in SidecarRecords
      BY <3>1, <3>2, SidecarAfterType DEF MainType, FlagType
    <3> QED BY <3>3 DEF MainType
  <2>6. FileType'
    <3>1. sample_count' \in Nat /\ file' \in Seq(Int)
      BY WholeSamplesType DEF FileType
    <3> QED BY <3>1, BufferSizeType DEF FileType
  <2> QED BY <2>1, <2>2, <2>3, <2>4, <2>5, <2>6
<1> QED BY <1>1, <1>2, <1>3, <1>4 DEF Stop

-----------------------------------------------------------------------------
(* The control part: which places the three threads can be in together. *)

LEMMA ControlStep ==
  ASSUME TypeOK, ControlInv, Next
  PROVE  ControlInv'
<1> USE DEF ControlInv, PushInProgress
<1>1. CASE StartNoDirectory \/ StartNoFile \/ StartOpened
  <2>1. CASE StartNoDirectory
    BY <2>1 DEF StartNoDirectory
  <2>2. CASE StartNoFile
    BY <2>2 DEF StartNoFile
  <2>3. CASE StartOpened
    BY <2>3 DEF StartOpened, ResetCapture
  <2> QED BY <1>1, <2>1, <2>2, <2>3
<1>2. CASE StartArm
  BY <1>2 DEF StartArm
<1>3. CASE StopCapture
  BY <1>3 DEF StopCapture, MutexFree
<1>4. CASE SignalStop \/ CloseFile \/ Finalize
  BY <1>4 DEF SignalStop, CloseFile, Finalize
<1>5. CASE SeeCapturing
  BY <1>5 DEF SeeCapturing
<1>6. CASE EnterPush
  BY <1>6 DEF EnterPush, StillCapturing
<1>7. CASE CopyFirst \/ CopyWrapped \/ Publish
  BY <1>7 DEF CopyFirst, CopyWrapped, Publish
<1>8. CASE WriterLoop
  BY <1>8 DEF WriterLoop, ReadStop, ReadHead, FoundEmpty, BeginBlock,
              AppendSample, EndBlock
<1>9. CASE Exhausted
  BY <1>9 DEF Exhausted, vars
<1> QED
  BY <1>1, <1>2, <1>3, <1>4, <1>5, <1>6, <1>7, <1>8, <1>9
     DEF Next, Start, Stop, WriteSamples

-----------------------------------------------------------------------------
(* The ring and the writer's view of it. *)

\* A batch that does not fit is refused, so the ring never overfills; a block
\* ends at what was published, so the tail never passes the head.
LEMMA RingStep ==
  ASSUME TypeOK, ControlInv, RingInv, WriterInv, Next, TypeOK'
  PROVE  RingInv'
<1> USE DEF RingInv, ControlInv, PushInProgress
<1>0. /\ m_head \in Nat /\ m_tail \in Nat /\ batch \in Nat /\ head \in Nat
      /\ m_received_samples \in Nat /\ accepted \in Seq(Int)
      /\ RingSize \in Nat /\ RingSize > 0
      /\ m_ring' \in [0..RingSize-1 -> Int] \cup {Released}
  BY RingSizeType DEF TypeOK, RingType, ProducerType, WriterType
<1>1. CASE StartNoDirectory \/ StartNoFile
  BY <1>0, <1>1 DEF StartNoDirectory, StartNoFile, ResetCapture
<1>2. CASE StartOpened
  BY <1>0, <1>2 DEF StartOpened, ResetCapture, EmptyRing
<1>3. CASE StartArm
  BY <1>0, <1>3 DEF StartArm
<1>4. CASE StopCapture \/ SignalStop \/ CloseFile
  BY <1>0, <1>4 DEF StopCapture, SignalStop, CloseFile
<1>5. CASE Finalize
  BY <1>0, <1>5 DEF Finalize
<1>6. CASE SeeCapturing
  BY <1>0, <1>6 DEF SeeCapturing
<1>7. CASE EnterPush
  BY <1>0, <1>7 DEF EnterPush, StillCapturing, RingHasRoom
<1>8. CASE CopyFirst \/ CopyWrapped
  <2>1. m_ring' \in [0..RingSize-1 -> Int]
    <3>1. m_ring \in [0..RingSize-1 -> Int]
      BY <1>8 DEF CopyFirst, CopyWrapped
    <3>2. DOMAIN m_ring' = 0..RingSize-1
      BY <1>8, <3>1 DEF CopyFirst, CopyWrapped
    <3>3. DOMAIN Released = {}
      BY DEF Released
    <3> QED BY <1>0, <3>2, <3>3
  <2> QED BY <1>0, <1>8, <2>1 DEF CopyFirst, CopyWrapped
<1>9. CASE Publish
  <2>1. Len(accepted') = Len(accepted) + batch
    <3> DEFINE pushed == [k \in 1..batch |-> BatchSample(k - 1)]
    <3>1. pushed \in Seq(Int) /\ Len(pushed) = batch
      BY <1>0 DEF BatchSample
    <3>2. accepted' = accepted \o pushed
      BY <1>9 DEF Publish
    <3> HIDE DEF pushed
    <3>3. Len(accepted \o pushed) = Len(accepted) + Len(pushed)
      BY <1>0, <3>1
    <3> QED BY <3>1, <3>2, <3>3, Zenon
  <2>2. main = "capturing" /\ main' = main /\ m_ring' = m_ring
        /\ m_head' = m_head + batch /\ m_tail' = m_tail
        /\ producer' = "idle"
    BY <1>9 DEF Publish
  <2>3. m_tail' <= m_head' /\ m_head' = Len(accepted')
        /\ m_head' - m_tail' <= RingSize
    <3>1. m_head = Len(accepted) /\ m_tail <= m_head
      BY <2>2
    <3>2. m_head - m_tail + batch <= RingSize
      BY <1>9 DEF Publish
    <3>3. m_head' = Len(accepted')
      BY <2>1, <2>2, <3>1
    <3> QED BY <1>0, <2>2, <3>1, <3>2, <3>3
  <2> QED BY <2>2, <2>3
<1>10. CASE EndBlock
  <2>1. m_tail <= head /\ head <= m_head /\ main # "idle"
    BY <1>10 DEF EndBlock, WriterInv
  <2>2. BlockSize \in Nat /\ BlockSize <= head - m_tail
    BY <2>1, BlockSizeBounds
  <2> QED BY <1>0, <1>10, <2>1, <2>2 DEF EndBlock
<1>11. CASE ReadStop \/ ReadHead \/ FoundEmpty \/ BeginBlock \/ AppendSample
  BY <1>0, <1>11 DEF ReadStop, ReadHead, FoundEmpty, BeginBlock, AppendSample
<1>12. CASE Exhausted
  BY <1>0, <1>12 DEF Exhausted, vars
<1> QED
  BY <1>1, <1>2, <1>3, <1>4, <1>5, <1>6, <1>7, <1>8, <1>9, <1>10, <1>11, <1>12
     DEF Next, Start, Stop, WriteSamples, WriterLoop

LEMMA WriterStep ==
  ASSUME TypeOK, ControlInv, RingInv, WriterInv, Next
  PROVE  WriterInv'
<1> USE DEF WriterInv, ControlInv
<1>0. m_head \in Nat /\ m_tail \in Nat /\ head \in Nat /\ batch \in Nat
  BY DEF TypeOK, RingType, ProducerType, WriterType
<1>1. CASE Start
  BY <1>1 DEF Start, StartNoDirectory, StartNoFile, StartOpened, StartArm,
              ResetCapture
<1>2. CASE Stop
  BY <1>2 DEF Stop, StopCapture, SignalStop, CloseFile, Finalize
<1>3. CASE Publish
  BY <1>0, <1>3 DEF Publish
<1>4. CASE SeeCapturing \/ EnterPush \/ CopyFirst \/ CopyWrapped
  BY <1>4 DEF SeeCapturing, EnterPush, CopyFirst, CopyWrapped
<1>5. CASE ReadHead
  BY <1>0, <1>5 DEF ReadHead, RingInv
<1>6. CASE BeginBlock
  BY <1>0, <1>6 DEF BeginBlock
<1>7. CASE ReadStop \/ FoundEmpty \/ AppendSample \/ EndBlock
  BY <1>7 DEF ReadStop, FoundEmpty, AppendSample, EndBlock
<1>8. CASE Exhausted
  BY <1>8 DEF Exhausted, vars
<1> QED
  BY <1>1, <1>2, <1>3, <1>4, <1>5, <1>6, <1>7, <1>8
     DEF Next, WriteSamples, WriterLoop

-----------------------------------------------------------------------------
(* The copy puts sample k of the batch into the slot of index m_head + k.  *)

\* What the two segments leave unchanged and what they fill.
LEMMA CopyFirstSlots ==
  ASSUME TypeOK, ControlInv, RingInv, CopyFirst
  PROVE  /\ \A k \in 0..FirstSegment-1 :
              m_ring'[Slot(m_head + k)] = BatchSample(k)
         /\ \A i \in m_tail..m_head-1 : m_ring'[Slot(i)] = m_ring[Slot(i)]
<1>0. /\ m_head \in Nat /\ m_tail \in Nat /\ batch \in Nat
      /\ RingSize \in Nat /\ RingSize > 0 /\ FirstSegment \in Nat
      /\ Slot(m_head) \in 0..RingSize-1
      /\ FirstSegment <= batch /\ FirstSegment <= RingSize - Slot(m_head)
  <2>1. m_head \in Nat /\ m_tail \in Nat /\ batch \in Nat
    BY DEF TypeOK, RingType, ProducerType
  <2> QED BY <2>1, RingSizeType, FirstSegmentBounds, SlotType
<1>1. /\ m_ring \in [0..RingSize-1 -> Int]
      /\ m_tail <= m_head /\ m_head - m_tail + batch <= RingSize
  BY DEF CopyFirst, ControlInv, RingInv, PushInProgress
<1>2. \A slot \in 0..RingSize-1 :
        m_ring'[slot] = IF slot - Slot(m_head) \in 0..FirstSegment-1
                        THEN BatchSample(slot - Slot(m_head)) ELSE m_ring[slot]
  BY <1>1 DEF CopyFirst
<1>3. ASSUME NEW k \in 0..FirstSegment-1
      PROVE  m_ring'[Slot(m_head + k)] = BatchSample(k)
  <2>1. Slot(m_head + k) = Slot(m_head) + k
    BY <1>0, SlotForward
  <2>2. Slot(m_head) + k \in 0..RingSize-1 /\ (Slot(m_head) + k) - Slot(m_head) = k
    BY <1>0
  <2> QED BY <1>2, <2>1, <2>2
<1>4. ASSUME NEW i \in m_tail..m_head-1
      PROVE  m_ring'[Slot(i)] = m_ring[Slot(i)]
  <2>1. Slot(i) \in 0..RingSize-1
    BY <1>0, SlotType
  <2>2. Slot(i) - Slot(m_head) \notin 0..FirstSegment-1
    <3> SUFFICES ASSUME Slot(i) - Slot(m_head) \in 0..FirstSegment-1
                 PROVE  FALSE
      OBVIOUS
    <3> DEFINE k == Slot(i) - Slot(m_head)
    <3>0. k \in Nat /\ k < FirstSegment /\ Slot(m_head) + k = Slot(i)
      BY <1>0, <2>1
    <3> HIDE DEF k
    <3>1. Slot(m_head + k) = Slot(i)
      BY <1>0, <3>0, SlotForward
    <3>2. i < m_head + k /\ m_head + k < i + RingSize
      BY <1>0, <1>1, <3>0
    <3> QED BY <1>0, <3>0, <3>1, <3>2, SlotsDiffer
  <2> QED BY <1>2, <2>1, <2>2
<1> QED BY <1>3, <1>4

LEMMA CopyWrappedSlots ==
  ASSUME TypeOK, ControlInv, RingInv, CopyInv, CopyWrapped
  PROVE  /\ \A k \in 0..batch-1 : m_ring'[Slot(m_head + k)] = BatchSample(k)
         /\ \A i \in m_tail..m_head-1 : m_ring'[Slot(i)] = m_ring[Slot(i)]
<1>0. /\ m_head \in Nat /\ m_tail \in Nat /\ batch \in Nat
      /\ RingSize \in Nat /\ RingSize > 0 /\ FirstSegment \in Nat
      /\ Slot(m_head) \in 0..RingSize-1
      /\ FirstSegment <= batch /\ FirstSegment <= RingSize - Slot(m_head)
      /\ FirstSegment < batch => FirstSegment = RingSize - Slot(m_head)
  BY RingSizeType, FirstSegmentBounds, SlotType
     DEF TypeOK, RingType, ProducerType
<1>1. /\ m_ring \in [0..RingSize-1 -> Int]
      /\ m_tail <= m_head /\ m_head - m_tail + batch <= RingSize
  BY DEF CopyWrapped, ControlInv, RingInv, PushInProgress
<1>2. \A slot \in 0..RingSize-1 :
        m_ring'[slot] = IF slot < batch - FirstSegment
                        THEN BatchSample(FirstSegment + slot) ELSE m_ring[slot]
  BY <1>1 DEF CopyWrapped
<1>3. ASSUME NEW k \in 0..batch-1
      PROVE  m_ring'[Slot(m_head + k)] = BatchSample(k)
  <2>1. CASE k < FirstSegment
    <3>1. Slot(m_head + k) = Slot(m_head) + k
      BY <1>0, <2>1, SlotForward
    <3>2. /\ Slot(m_head) + k \in 0..RingSize-1
          /\ ~(Slot(m_head) + k < batch - FirstSegment)
      BY <1>0, <1>1, <2>1
    <3>3. m_ring[Slot(m_head + k)] = BatchSample(k)
      BY <2>1, <1>0 DEF CopyInv, CopyWrapped
    <3> QED BY <1>2, <3>1, <3>2, <3>3
  <2>2. CASE k >= FirstSegment
    <3>1. FirstSegment = RingSize - Slot(m_head) /\ k < RingSize
      BY <1>0, <1>1, <2>2
    <3>2. Slot(m_head + k) = Slot(m_head) + k - RingSize
      BY <1>0, <2>2, <3>1, SlotWrapped
    <3>3. Slot(m_head + k) = k - FirstSegment
      BY <1>0, <3>1, <3>2
    <3>4. /\ k - FirstSegment \in 0..RingSize-1
          /\ k - FirstSegment < batch - FirstSegment
          /\ FirstSegment + (k - FirstSegment) = k
      BY <1>0, <2>2, <3>1
    <3> QED BY <1>2, <3>3, <3>4
  <2> QED BY <1>0, <2>1, <2>2
<1>4. ASSUME NEW i \in m_tail..m_head-1
      PROVE  m_ring'[Slot(i)] = m_ring[Slot(i)]
  <2>1. Slot(i) \in 0..RingSize-1
    BY <1>0, SlotType
  <2>2. ~(Slot(i) < batch - FirstSegment)
    <3> SUFFICES ASSUME Slot(i) < batch - FirstSegment PROVE FALSE
      OBVIOUS
    <3> DEFINE k == FirstSegment + Slot(i)
    <3>1. FirstSegment = RingSize - Slot(m_head)
      BY <1>0, <2>1
    <3>2. k \in Nat /\ k < batch /\ k >= RingSize - Slot(m_head) /\ k < RingSize
      <4>1. Slot(i) \in Nat /\ Slot(i) < batch - FirstSegment
        BY <2>1
      <4>2. batch <= RingSize
        BY <1>0, <1>1
      <4> QED BY <1>0, <3>1, <4>1, <4>2
    <3> HIDE DEF k
    <3>3. Slot(m_head + k) = Slot(m_head) + k - RingSize
      BY <1>0, <3>2, SlotWrapped
    <3>4. Slot(m_head + k) = Slot(i)
      BY <1>0, <2>1, <3>1, <3>3 DEF k
    <3>5. i < m_head + k /\ m_head + k < i + RingSize
      BY <1>0, <1>1, <3>2
    <3> QED BY <1>0, <3>2, <3>4, <3>5, SlotsDiffer
  <2> QED BY <1>2, <2>1, <2>2
<1> QED BY <1>3, <1>4

LEMMA CopyStep ==
  ASSUME TypeOK, ControlInv, RingInv, CopyInv, Next
  PROVE  CopyInv'
<1>1. CASE CopyFirst
  <2>1. /\ producer' = "wrap" /\ m_head' = m_head /\ batch' = batch
        /\ m_received_samples' = m_received_samples
    BY <1>1 DEF CopyFirst
  <2>2. FirstSegment' = FirstSegment /\ \A k : BatchSample(k)' = BatchSample(k)
    BY <2>1 DEF FirstSegment, BatchSample, Slot
  <2> QED BY <1>1, <2>1, <2>2, CopyFirstSlots DEF CopyInv
<1>2. CASE CopyWrapped
  <2>1. /\ producer' = "publish" /\ m_head' = m_head /\ batch' = batch
        /\ m_received_samples' = m_received_samples
    BY <1>2 DEF CopyWrapped
  <2> QED BY <1>2, <2>1, CopyWrappedSlots DEF CopyInv, BatchSample, Slot
<1>3. CASE SeeCapturing \/ EnterPush \/ Publish
  BY <1>3 DEF SeeCapturing, EnterPush, Publish, CopyInv
<1>4. CASE StartOpened \/ Finalize
  <2>1. ~PushInProgress /\ producer' = producer
    BY <1>4 DEF StartOpened, ResetCapture, Finalize, ControlInv
  <2> QED BY <2>1 DEF CopyInv, PushInProgress
<1>5. CASE StartNoDirectory \/ StartNoFile
  <2>1. ~PushInProgress /\ producer' = producer
    BY <1>5 DEF StartNoDirectory, StartNoFile, ResetCapture, ControlInv
  <2> QED BY <2>1 DEF CopyInv, PushInProgress
<1>6. CASE StartArm \/ StopCapture \/ SignalStop \/ CloseFile \/ WriterLoop
           \/ Exhausted
  <2>1. UNCHANGED <<producer, batch, m_head, m_ring, m_received_samples>>
    BY <1>6 DEF StartArm, StopCapture, SignalStop, CloseFile, WriterLoop,
                ReadStop, ReadHead, FoundEmpty, BeginBlock, AppendSample,
                EndBlock, Exhausted, vars
  <2> QED BY <2>1 DEF CopyInv, FirstSegment, BatchSample, Slot
<1> QED
  BY <1>1, <1>2, <1>3, <1>4, <1>5, <1>6 DEF Next, Start, Stop, WriteSamples

-----------------------------------------------------------------------------
(* First in, first out. *)

LEMMA FifoStep ==
  ASSUME TypeOK, ControlInv, RingInv, CopyInv, WriterInv, RingIsFifo, Next,
         RingInv'
  PROVE  RingIsFifo'
<1>0. m_head \in Nat /\ m_tail \in Nat /\ batch \in Nat /\ accepted \in Seq(Int)
  BY DEF TypeOK, RingType, ProducerType
<1> SUFFICES ASSUME m_ring' # Released
             PROVE  \A i \in m_tail'..m_head'-1 :
                      m_ring'[Slot(i)] = accepted'[i + 1]
  <2>1. m_ring' # Released => main' # "idle"
    BY DEF RingInv
  <2> QED BY <2>1 DEF RingIsFifo, RingInv, Slot
<1>1. CASE CopyFirst \/ CopyWrapped
  <2>1. m_ring # Released /\ UNCHANGED <<m_head, m_tail, accepted>>
    <3>1. main = "capturing"
      BY <1>1 DEF CopyFirst, CopyWrapped, ControlInv, PushInProgress
    <3>2. m_ring # Released
      BY <3>1, ReleasedIsNoRing DEF RingInv
    <3> QED BY <1>1, <3>2 DEF CopyFirst, CopyWrapped
  <2>2. \A i \in m_tail..m_head-1 : m_ring'[Slot(i)] = m_ring[Slot(i)]
    BY <1>1, CopyFirstSlots, CopyWrappedSlots
  <2> QED BY <2>1, <2>2 DEF RingIsFifo
<1>2. CASE Publish
  <2> DEFINE pushed == [k \in 1..batch |-> BatchSample(k - 1)]
  <2>1. /\ m_ring' = m_ring /\ m_tail' = m_tail /\ m_head' = m_head + batch
        /\ accepted' = accepted \o pushed
    BY <1>2 DEF Publish
  <2>2. m_tail <= m_head /\ m_head = Len(accepted)
    BY <2>1 DEF RingIsFifo
  <2>3. pushed \in Seq(Int) /\ Len(pushed) = batch
        /\ \A k \in 1..batch : pushed[k] = BatchSample(k - 1)
    BY <1>0 DEF BatchSample, TypeOK, ProducerType
  <2> HIDE DEF pushed
  <2>4. ASSUME NEW i \in m_tail..m_head-1
        PROVE  m_ring'[Slot(i)] = accepted'[i + 1]
    <3>1. (accepted \o pushed)[i + 1] = accepted[i + 1]
      BY <1>0, <2>2, <2>3, ConcatProperties
    <3> QED BY <2>1, <3>1 DEF RingIsFifo
  <2>5. ASSUME NEW k \in 0..batch-1
        PROVE  m_ring'[Slot(m_head + k)] = accepted'[(m_head + k) + 1]
    <3>1. (accepted \o pushed)[(m_head + k) + 1] = pushed[k + 1]
      BY <1>0, <2>2, <2>3, ConcatProperties
    <3>2. pushed[k + 1] = BatchSample(k)
      BY <1>0, <2>3
    <3>3. m_ring[Slot(m_head + k)] = BatchSample(k)
      BY <1>2 DEF CopyInv, Publish
    <3> QED BY <2>1, <3>1, <3>2, <3>3
  <2>6. \A i \in m_tail'..m_head'-1 :
          \/ i \in m_tail..m_head-1
          \/ \E k \in 0..batch-1 : i = m_head + k
    <3> TAKE i \in m_tail'..m_head'-1
    <3>1. CASE i < m_head
      BY <1>0, <2>1, <3>1
    <3>2. CASE i >= m_head
      <4>1. i - m_head \in 0..batch-1 /\ i = m_head + (i - m_head)
        BY <1>0, <2>1, <3>2
      <4> QED BY <4>1
    <3> QED BY <1>0, <2>1, <3>1, <3>2
  <2> QED BY <2>4, <2>5, <2>6
<1>3. CASE EndBlock
  <2>1. m_tail <= head
    BY <1>3 DEF EndBlock, WriterInv
  <2>2. BlockSize \in Nat
    BY <2>1, BlockSizeBounds
  <2> QED BY <1>0, <1>3, <2>2 DEF EndBlock, RingIsFifo
<1>4. CASE StartOpened
  BY <1>4 DEF StartOpened
<1>5. CASE Finalize
  BY <1>5 DEF Finalize
<1>6. CASE StartNoDirectory \/ StartNoFile
  <2>1. main' = "idle"
    BY <1>6 DEF StartNoDirectory, StartNoFile, ResetCapture
  <2> QED BY <2>1 DEF RingInv
<1>7. CASE \/ StartArm \/ StopCapture \/ SignalStop \/ CloseFile \/ SeeCapturing
           \/ EnterPush \/ Exhausted
           \/ ReadStop \/ ReadHead \/ FoundEmpty \/ BeginBlock \/ AppendSample
  <2>1. UNCHANGED <<m_ring, m_head, m_tail, accepted>>
    BY <1>7 DEF StartArm, StopCapture, SignalStop, CloseFile, SeeCapturing,
                EnterPush, Exhausted, vars, ReadStop, ReadHead, FoundEmpty,
                BeginBlock, AppendSample
  <2> QED BY <2>1 DEF RingIsFifo
<1> QED
  BY <1>1, <1>2, <1>3, <1>4, <1>5, <1>6, <1>7
     DEF Next, Start, Stop, WriteSamples, WriterLoop

-----------------------------------------------------------------------------
(* The theorems. *)

LEMMA InvInit == Init => Inv
<1> SUFFICES ASSUME Init PROVE Inv
  OBVIOUS
<1>1. TypeOK
  BY InitType
<1>2. ControlInv /\ CopyInv /\ WriterInv
  BY DEF Init, ControlInv, PushInProgress, CopyInv, WriterInv
<1>3. RingInv /\ RingIsFifo
  BY DEF Init, RingInv, RingIsFifo, PushInProgress
<1> QED BY <1>1, <1>2, <1>3 DEF Inv

LEMMA InvStep == Inv /\ [Next]_vars => Inv'
<1>1. ASSUME Inv, Next PROVE Inv'
  <2> USE <1>1 DEF Inv
  <2>1. TypeOK'
    <3>1. CASE Exhausted
      BY <3>1 DEF Exhausted, vars, TypeOK, FlagType, RingType, ProducerType,
                  WriterType, MainType, FileType
    <3> QED BY <3>1, StartType, StopType, WriteSamplesType, WriterLoopType
            DEF Next
  <2>2. ControlInv'
    BY ControlStep
  <2>3. RingInv'
    BY <2>1, RingStep
  <2>4. CopyInv'
    BY CopyStep
  <2>5. WriterInv'
    BY WriterStep
  <2>6. RingIsFifo'
    BY <2>3, FifoStep
  <2> QED BY <2>1, <2>2, <2>3, <2>4, <2>5, <2>6
<1>2. ASSUME Inv, UNCHANGED vars PROVE Inv'
  BY <1>2 DEF vars, Inv, TypeOK, FlagType, RingType, ProducerType, WriterType,
     MainType, FileType, ControlInv, PushInProgress, RingInv, CopyInv,
     FirstSegment, BatchSample, Slot, WriterInv, RingIsFifo
<1> QED BY <1>1, <1>2

THEOREM Invariance == Spec => []Inv
BY InvInit, InvStep, PTL DEF Spec

\* Every variable keeps its type, the write buffer its free byte.
THEOREM TypeCorrect == Spec => []TypeOK
<1>1. Inv => TypeOK
  BY DEF Inv
<1> QED BY <1>1, Invariance, PTL

\* No thread touches the ring after stop_capture() released it: the mutex
\* keeps the producer out and join() outlives the writer.
THEOREM RingIsHeld == Spec => []RingHeldWhileUsed
<1>1. Inv => RingHeldWhileUsed
  BY ReleasedIsNoRing DEF Inv, ControlInv, RingInv, RingHeldWhileUsed
<1> QED BY <1>1, Invariance, PTL

\* The ring needs no lock between its two ends: a batch that fits never
\* reaches the slots of the block being written.
THEOREM DisjointAccess == Spec => []NoSharedSlot
<1>1. ASSUME Inv PROVE NoSharedSlot
  <2> SUFFICES ASSUME NEW i \in Copying, NEW j \in Writing
               PROVE  Slot(i) # Slot(j)
    BY DEF NoSharedSlot
  <2> USE <1>1 DEF Inv
  <2>0. /\ m_head \in Nat /\ m_tail \in Nat /\ head \in Nat /\ batch \in Nat
        /\ RingSize \in Nat
    BY RingSizeType DEF TypeOK, RingType, ProducerType, WriterType
  <2>1. PushInProgress /\ i \in m_head..m_head + batch - 1
    BY DEF Copying, PushInProgress
  <2>2. m_head - m_tail + batch <= RingSize
    BY <2>1 DEF RingInv
  <2>3. writer = "write" /\ j \in m_tail..m_tail + BlockSize - 1
    BY DEF Writing
  <2>4. m_tail <= head /\ head <= m_head
    BY <2>3 DEF WriterInv
  <2>5. BlockSize \in Nat /\ BlockSize <= head - m_tail
    BY <2>4, BlockSizeBounds
  <2>6. i \in Int /\ j \in Int /\ j < i /\ i < j + RingSize
    BY <2>0, <2>1, <2>2, <2>3, <2>4, <2>5
  <2> QED BY <2>6, SlotsDiffer
<1> QED BY <1>1, Invariance, PTL

\* What the producer published is what the writer will read, in order.
THEOREM FirstInFirstOut == Spec => []RingIsFifo
<1>1. Inv => RingIsFifo
  BY DEF Inv
<1> QED BY <1>1, Invariance, PTL

\* Clearing m_capturing under the mutex is final for the capture's counters.
THEOREM StopIsFinal == Spec => NoPushAfterStop
<1>1. Inv /\ [Next]_vars
        => [(main \in {"signal", "join", "finalize"}) =>
              (UNCHANGED <<accepted, m_received_samples, m_ring_dropped>>)]_vars
  <2> SUFFICES ASSUME Inv, Next, main \in {"signal", "join", "finalize"}
               PROVE  UNCHANGED <<accepted, m_received_samples, m_ring_dropped>>
    OBVIOUS
  <2>0. ~m_capturing /\ ~PushInProgress
    BY DEF Inv, ControlInv
  <2>1. CASE Start
    BY <2>1 DEF Start, StartNoDirectory, StartNoFile, StartOpened, StartArm,
                ResetCapture
  <2>2. CASE WriteSamples
    BY <2>0, <2>2 DEF WriteSamples, SeeCapturing, EnterPush, StillCapturing,
                      CopyFirst, CopyWrapped, Publish, PushInProgress
  <2>3. CASE Stop \/ WriterLoop \/ Exhausted
    BY <2>3 DEF Stop, StopCapture, SignalStop, CloseFile, Finalize, WriterLoop,
                ReadStop, ReadHead, FoundEmpty, BeginBlock, AppendSample,
                EndBlock, Exhausted, vars
  <2> QED BY <2>1, <2>2, <2>3 DEF Next
<1> QED BY <1>1, Invariance, PTL DEF Spec, NoPushAfterStop

-----------------------------------------------------------------------------
(***************************************************************************)
(* What an I/Q capture leaves on disk, on top of the ring's invariant: the *)
(* data file is a prefix of the accepted samples at every moment, a        *)
(* capture without a write error holds all of them, and its sidecar says   *)
(* how many these are.                                                     *)
(***************************************************************************)

\* Byte i of the samples s as they go to disk; f is what follows the first
\* `from` bytes.
ByteOf(s, i) == s[((i - 1) \div SampleBytes) + 1]
Stream(s, f, from) == \A i \in 1..Len(f) : f[i] = ByteOf(s, from + i)

-----------------------------------------------------------------------------
(* Samples and bytes. *)

LEMMA SampleBytesType == SampleBytes \in Nat \ {0}
BY ConstantsAssumption

LEMMA BytesBounds ==
  /\ \A n \in Nat : SampleBytes * n \in Nat /\ SampleBytes * (n + 1) = SampleBytes * n + SampleBytes
  /\ \A m, n \in Nat : m <= n => SampleBytes * m <= SampleBytes * n
<1>1. \A n \in Nat : SampleBytes * n \in Nat /\ SampleBytes * (n + 1) = SampleBytes * n + SampleBytes
  BY SampleBytesType, SMTT(10)
<1>2. \A m, n \in Nat : m <= n => SampleBytes * m <= SampleBytes * n
  BY SampleBytesType, SMTT(10)
<1> QED BY <1>1, <1>2

\* The sample a byte belongs to.
LEMMA SampleOfByte ==
  ASSUME NEW n \in Nat, NEW r \in 0..SampleBytes-1
  PROVE  (SampleBytes * n + r) \div SampleBytes = n
BY SampleBytesType, SMTT(10)

LEMMA ByteIndex ==
  ASSUME NEW n \in Nat, NEW i \in 1..(SampleBytes * n)
  PROVE  ((i - 1) \div SampleBytes) + 1 \in 1..n
BY SampleBytesType, SMTT(10)

LEMMA BytesOfType ==
  ASSUME NEW s \in Seq(Int)
  PROVE  /\ BytesOf(s) \in Seq(Int) /\ Len(BytesOf(s)) = SampleBytes * Len(s)
         /\ Stream(s, BytesOf(s), 0)
<1>1. Len(s) \in Nat /\ SampleBytes * Len(s) \in Nat
  BY BytesBounds, LenProperties
<1>2. \A i \in 1..(SampleBytes * Len(s)) : s[((i - 1) \div SampleBytes) + 1] \in Int
  BY <1>1, ByteIndex, ElementOfSeq
<1> DEFINE total == SampleBytes * Len(s)
<1>3. BytesOf(s) = [i \in 1..total |-> ByteOf(s, i)]
  BY DEF BytesOf, ByteOf
<1>4. \A i \in 1..total : ByteOf(s, i) \in Int
  BY <1>2 DEF ByteOf
<1>5. total \in Nat
  BY <1>1
<1> HIDE DEF total
<1>6. BytesOf(s) \in Seq(Int)
  BY <1>3, <1>4, <1>5, IsASeq
<1>7. Len(BytesOf(s)) = total
  BY <1>3, <1>5, <1>6, LenProperties
<1>8. Stream(s, BytesOf(s), 0)
  BY <1>3, <1>5, <1>7 DEF Stream
<1> QED BY <1>6, <1>7, <1>8 DEF total

\* A file that follows the stream is a prefix of its bytes, or all of them.
LEMMA StreamIsPrefix ==
  ASSUME NEW s \in Seq(Int), NEW f \in Seq(Int), Stream(s, f, 0),
         Len(f) <= SampleBytes * Len(s)
  PROVE  /\ IsPrefixOf(f, BytesOf(s))
         /\ Len(f) = SampleBytes * Len(s) => f = BytesOf(s)
<1> DEFINE b == BytesOf(s)
<1>1. b \in Seq(Int) /\ Len(b) = SampleBytes * Len(s) /\ Stream(s, b, 0)
  BY BytesOfType
<1> HIDE DEF b
<1>2. Len(f) \in Nat /\ Len(b) \in Nat /\ Len(f) <= Len(b)
  BY <1>1, LenProperties
<1>3. \A i \in 1..Len(f) : f[i] = b[i]
  BY <1>1, <1>2 DEF Stream
<1>4. SubSeq(b, 1, Len(f)) \in Seq(Int) /\ Len(SubSeq(b, 1, Len(f))) = Len(f)
      /\ \A i \in 1..Len(f) : SubSeq(b, 1, Len(f))[i] = b[i]
  BY <1>1, <1>2, SubSeqProperties
<1>5. f = SubSeq(b, 1, Len(f))
  BY <1>3, <1>4, SeqEqual
<1>6. Len(f) = Len(b) => f = b
  BY <1>1, <1>3, SeqEqual
<1> QED BY <1>1, <1>2, <1>5, <1>6 DEF IsPrefixOf, b

LEMMA StreamPrefix ==
  ASSUME NEW s, NEW f \in Seq(Int), Stream(s, f, 0), NEW n \in 0..Len(f)
  PROVE  /\ SubSeq(f, 1, n) \in Seq(Int) /\ Len(SubSeq(f, 1, n)) = n
         /\ Stream(s, SubSeq(f, 1, n), 0)
<1>1. /\ SubSeq(f, 1, n) \in Seq(Int) /\ Len(SubSeq(f, 1, n)) = n
      /\ \A i \in 1..n : SubSeq(f, 1, n)[i] = f[i]
  BY SubSeqProperties, LenProperties
<1>2. \A i \in 1..n : i \in 1..Len(f)
  BY LenProperties
<1> QED BY <1>1, <1>2 DEF Stream

LEMMA StreamConcat ==
  ASSUME NEW s, NEW f \in Seq(Int), NEW b \in Seq(Int),
         Stream(s, f, 0), Stream(s, b, Len(f))
  PROVE  /\ f \o b \in Seq(Int) /\ Len(f \o b) = Len(f) + Len(b)
         /\ Stream(s, f \o b, 0)
<1>1. Len(f) \in Nat /\ Len(b) \in Nat
  BY LenProperties
<1>2. /\ f \o b \in Seq(Int) /\ Len(f \o b) = Len(f) + Len(b)
      /\ \A i \in 1..Len(f) + Len(b) :
           (f \o b)[i] = IF i <= Len(f) THEN f[i] ELSE b[i - Len(f)]
  BY ConcatProperties
<1>3. ASSUME NEW i \in 1..Len(f) + Len(b)
      PROVE  (f \o b)[i] = ByteOf(s, 0 + i)
  <2>1. CASE i <= Len(f)
    <3>1. i \in 1..Len(f)
      BY <1>1, <2>1
    <3> QED BY <1>2, <2>1, <3>1 DEF Stream
  <2>2. CASE ~(i <= Len(f))
    <3>1. i - Len(f) \in 1..Len(b) /\ Len(f) + (i - Len(f)) = 0 + i
      BY <1>1, <2>2
    <3>2. b[i - Len(f)] = ByteOf(s, Len(f) + (i - Len(f)))
      BY <3>1 DEF Stream
    <3> QED BY <1>2, <2>2, <3>1, <3>2
  <2> QED BY <2>1, <2>2
<1> QED BY <1>2, <1>3 DEF Stream

\* Samples published later change no byte before them.
LEMMA StreamGrows ==
  ASSUME NEW s \in Seq(Int), NEW t \in Seq(Int), NEW f \in Seq(Int),
         NEW from \in Nat, Stream(s, f, from), from + Len(f) <= SampleBytes * Len(s)
  PROVE  Stream(s \o t, f, from)
<1>1. Len(s) \in Nat /\ Len(f) \in Nat
  BY LenProperties
<1>2. ASSUME NEW i \in 1..Len(f)
      PROVE  f[i] = ByteOf(s \o t, from + i)
  <2>1. from + i \in 1..(SampleBytes * Len(s))
    <3> DEFINE total == SampleBytes * Len(s)
    <3>1. total \in Nat /\ from + Len(f) <= total
      BY <1>1, BytesBounds
    <3> HIDE DEF total
    <3>2. from + i \in 1..total
      BY <1>1, <3>1
    <3> QED BY <3>2 DEF total
  <2>2. ((from + i - 1) \div SampleBytes) + 1 \in 1..Len(s)
    BY <1>1, <2>1, ByteIndex
  <2>3. \A k \in 1..Len(s) : (s \o t)[k] = s[k]
    BY <1>1, ConcatProperties, LenProperties
  <2> QED BY <2>2, <2>3 DEF Stream, ByteOf
<1> QED BY <1>2 DEF Stream

-----------------------------------------------------------------------------
(* What a flush, a close and the cut leave in the file. *)

LEMMA Flushed ==
  ASSUME NEW s, NEW f \in Seq(Int), NEW b \in Seq(Int),
         Stream(s, f, 0), Stream(s, b, Len(f)),
         NEW result \in FlushResults(f, b)
  PROVE  /\ result.open \in BOOLEAN /\ result.file \in Seq(Int)
         /\ Stream(s, result.file, 0)
         /\ Len(result.file) <= Len(f) + Len(b)
         /\ result.open => Len(result.file) = Len(f) + Len(b)
<1> DEFINE all == f \o b
<1>1. all \in Seq(Int) /\ Len(all) = Len(f) + Len(b) /\ Stream(s, all, 0)
      /\ Len(all) \in Nat
  BY StreamConcat, LenProperties
<1>2. CASE result = [open |-> TRUE, file |-> all]
  <2> HIDE DEF all
  <2> QED BY <1>1, <1>2
<1>3. ASSUME NEW n \in 0..Len(all)-1,
             result = [open |-> FALSE, file |-> SubSeq(all, 1, n)]
      PROVE  /\ result.open = FALSE /\ result.file \in Seq(Int)
             /\ Stream(s, result.file, 0) /\ Len(result.file) <= Len(all)
  <2> HIDE DEF all
  <2>1. n \in 0..Len(all)
    BY <1>1
  <2> QED BY <1>1, <1>3, <2>1, StreamPrefix
<1>4. \/ result = [open |-> TRUE, file |-> all]
      \/ \E n \in 0..Len(all)-1 :
           result = [open |-> FALSE, file |-> SubSeq(all, 1, n)]
  BY Zenon DEF FlushResults
<1> HIDE DEF all
<1> QED BY <1>1, <1>2, <1>3, <1>4

LEMMA Closed ==
  ASSUME NEW s, NEW f \in Seq(Int), Stream(s, f, 0), NEW result \in CloseResults(f)
  PROVE  /\ result.ok \in BOOLEAN /\ result.file \in Seq(Int)
         /\ Stream(s, result.file, 0) /\ Len(result.file) <= Len(f)
         /\ result.ok => result.file = f
<1>1. CASE result = [ok |-> TRUE, file |-> f]
  BY <1>1, LenProperties
<1>2. ASSUME NEW n \in 0..Len(f),
             result = [ok |-> FALSE, file |-> SubSeq(f, 1, n)]
      PROVE  /\ result.ok = FALSE /\ result.file \in Seq(Int)
             /\ Stream(s, result.file, 0) /\ Len(result.file) <= Len(f)
  BY <1>2, StreamPrefix, LenProperties
<1>3. \/ result = [ok |-> TRUE, file |-> f]
      \/ \E n \in 0..Len(f) : result = [ok |-> FALSE, file |-> SubSeq(f, 1, n)]
  BY Zenon DEF CloseResults
<1> QED BY <1>1, <1>2, <1>3

-----------------------------------------------------------------------------
(* The inductive invariant, in parts. *)

\* The samples of the stream that were handed to append_bytes().
Written == m_tail + (IF writer = "write" THEN done ELSE 0)

\* The file follows the stream, and the write buffer the file, as long as the
\* file is open; after the drain without an error it holds every sample.
FileInv ==
  /\ Stream(accepted, file, 0) /\ Len(file) <= SampleBytes * Len(accepted)
  /\ m_data_file =>
       /\ main \in {"arm", "capturing", "signal", "join"}
       /\ Stream(accepted, m_buffer, Len(file))
       /\ Len(file) + Len(m_buffer) = SampleBytes * Written
  /\ main \in {"arm", "capturing", "signal", "join"} =>
       (m_data_file <=> ~m_write_error)
  /\ main \in {"finalize", "idle"} =>
       (m_write_error \/ Len(file) = SampleBytes * Len(accepted))

\* m_stop is read before m_head: a writer that saw it sees the last head, and
\* returns only when the ring is empty.
DrainInv ==
  /\ writer = "write" => done <= BlockSize
  /\ writer # "none" /\ m_stop => main = "join"
  /\ writer \in {"head", "decide", "write"} /\ stopping => main = "join"
  /\ writer \in {"decide", "write"} /\ stopping => head = m_head
  /\ writer = "exited" => main = "join" /\ m_tail = m_head

\* Every sample received is published, dropped, or in the push's hands.
CountInv ==
  Len(accepted) + m_ring_dropped + (IF PushInProgress THEN batch ELSE 0)
    = m_received_samples

SidecarInv ==
  /\ main # "idle" => sidecar.when # "stop"
  /\ "stat" \notin Faults => SidecarIsExact

DiskInv == FileInv /\ DrainInv /\ CountInv /\ SidecarInv

LEMMA DiskTypes ==
  ASSUME Inv
  PROVE  /\ m_head \in Nat /\ m_tail \in Nat /\ head \in Nat /\ done \in Nat
         /\ batch \in Nat /\ m_received_samples \in Nat /\ m_ring_dropped \in Nat
         /\ m_dropped_samples \in Nat /\ sample_count \in Nat
         /\ accepted \in Seq(Int) /\ Len(accepted) \in Nat
         /\ file \in Seq(Int) /\ Len(file) \in Nat
         /\ m_buffer \in Seq(Int) /\ Len(m_buffer) \in Nat
         /\ Len(m_buffer) < BufferBytes
         /\ m_stop \in BOOLEAN /\ stopping \in BOOLEAN /\ m_data_file \in BOOLEAN
         /\ m_write_error \in BOOLEAN
         /\ Written \in Nat
BY LenProperties
DEF Inv, TypeOK, FlagType, RingType, ProducerType, WriterType, MainType, FileType,
    Written

LEMMA InitDisk == Init => DiskInv
<1> SUFFICES ASSUME Init PROVE DiskInv
  OBVIOUS
<1>1. Len(<<>>) = 0 /\ SampleBytes * 0 = 0
  BY SampleBytesType
<1>2. FileInv
  BY <1>1 DEF Init, FileInv, Stream
<1>3. DrainInv /\ CountInv
  BY DEF Init, DrainInv, CountInv, PushInProgress
<1>4. SidecarInv
  BY DEF Init, SidecarInv, SidecarIsExact, Absent
<1> QED BY <1>2, <1>3, <1>4 DEF DiskInv

\* The writer and main drain the ring.
LEMMA DrainStep == Inv /\ DrainInv /\ [Next]_vars => DrainInv'
<1> SUFFICES ASSUME Inv, DrainInv, [Next]_vars PROVE DrainInv'
  OBVIOUS
<1> USE DEF DrainInv
<1>0. ControlInv /\ WriterInv /\ TypeOK
  BY DEF Inv
<1>1. CASE StartNoDirectory \/ StartNoFile \/ StartOpened
  <2>1. writer = "none"
    BY <1>0, <1>1 DEF StartNoDirectory, StartNoFile, StartOpened, ResetCapture,
       ControlInv
  <2> QED BY <1>1, <2>1 DEF StartNoDirectory, StartNoFile, StartOpened, ResetCapture
<1>2. CASE StartArm \/ StopCapture \/ SignalStop
  BY <1>0, <1>2 DEF StartArm, StopCapture, SignalStop, BlockSize, Slot
<1>3. CASE CloseFile \/ Finalize
  BY <1>0, <1>3 DEF CloseFile, Finalize, ControlInv
<1>4. CASE SeeCapturing \/ EnterPush \/ CopyFirst \/ CopyWrapped
  BY <1>4 DEF SeeCapturing, EnterPush, CopyFirst, CopyWrapped, BlockSize, Slot
<1>5. CASE Publish
  BY <1>0, <1>5 DEF Publish, BlockSize, Slot, ControlInv, PushInProgress
<1>6. CASE ReadStop \/ ReadHead
  BY <1>0, <1>6 DEF ReadStop, ReadHead, BlockSize, Slot
<1>7. CASE FoundEmpty
  BY <1>7 DEF FoundEmpty
<1>8. CASE BeginBlock
  <2>1. BlockSize \in Nat /\ BlockSize' = BlockSize
    BY <1>0, <1>8, BlockSizeBounds DEF WriterInv, BeginBlock, BlockSize, Slot
  <2> QED BY <1>8, <2>1 DEF BeginBlock
<1>9. CASE AppendSample
  <2>1. BlockSize \in Nat /\ BlockSize' = BlockSize /\ done \in Nat
    BY <1>0, <1>9, BlockSizeBounds, DiskTypes
    DEF WriterInv, AppendSample, BlockSize, Slot
  <2> QED BY <1>9, <2>1 DEF AppendSample
<1>10. CASE EndBlock
  BY <1>10 DEF EndBlock
<1>11. CASE Exhausted \/ UNCHANGED vars
  BY <1>11 DEF Exhausted, vars, BlockSize, Slot
<1> QED BY <1>1, <1>2, <1>3, <1>4, <1>5, <1>6, <1>7, <1>8, <1>9, <1>10, <1>11
        DEF Next, Start, Stop, WriteSamples, WriterLoop

LEMMA CountStep == Inv /\ CountInv /\ [Next]_vars => CountInv'
<1> SUFFICES ASSUME Inv, CountInv, [Next]_vars PROVE CountInv'
  OBVIOUS
<1> USE DEF CountInv, PushInProgress
<1>0. /\ m_received_samples \in Nat /\ m_ring_dropped \in Nat /\ batch \in Nat
      /\ accepted \in Seq(Int) /\ Len(accepted) \in Nat /\ ControlInv
  BY DiskTypes DEF Inv
<1>1. CASE StartNoDirectory \/ StartNoFile \/ StartOpened
  <2>1. producer \notin {"copy", "wrap", "publish"} /\ producer' = producer
    BY <1>0, <1>1 DEF StartNoDirectory, StartNoFile, StartOpened, ResetCapture,
       ControlInv
  <2>2. accepted' = <<>> /\ m_ring_dropped' = 0 /\ m_received_samples' = 0
    BY <1>1 DEF StartNoDirectory, StartNoFile, StartOpened, ResetCapture
  <2>3. Len(accepted') = 0
    BY <2>2
  <2> QED BY <2>1, <2>2, <2>3
<1>2. CASE StartArm \/ Stop
  BY <1>2 DEF StartArm, Stop, StopCapture, SignalStop, CloseFile, Finalize
<1>3. CASE SeeCapturing \/ CopyFirst \/ CopyWrapped
  BY <1>3 DEF SeeCapturing, CopyFirst, CopyWrapped
<1>4. CASE EnterPush
  BY <1>0, <1>4 DEF EnterPush
<1>5. CASE Publish
  <2> DEFINE pushed == [k \in 1..batch |-> BatchSample(k - 1)]
  <2>1. \A k \in 1..batch : BatchSample(k - 1) \in Int
    BY <1>0 DEF BatchSample
  <2>2. pushed \in Seq(Int)
    BY <1>0, <2>1, IsASeq
  <2>3. Len(pushed) = batch
    BY <1>0, <2>2, LenProperties
  <2>4. accepted' = accepted \o pushed
    BY <1>5 DEF Publish
  <2> HIDE DEF pushed
  <2>5. Len(accepted') = Len(accepted) + batch
    BY <1>0, <2>2, <2>3, <2>4, ConcatProperties
  <2> QED BY <1>0, <1>5, <2>5 DEF Publish
<1>6. CASE WriterLoop
  BY <1>6 DEF WriterLoop, ReadStop, ReadHead, FoundEmpty, BeginBlock,
              AppendSample, EndBlock
<1>7. CASE Exhausted \/ UNCHANGED vars
  BY <1>7 DEF Exhausted, vars
<1> QED BY <1>1, <1>2, <1>3, <1>4, <1>5, <1>6, <1>7 DEF Next, Start, WriteSamples

-----------------------------------------------------------------------------
(* The file through the writer's append, main's close and the cut. *)

\* The writer is never past what was accepted.
LEMMA WrittenBounds ==
  ASSUME Inv, FileInv, m_data_file, PushInProgress, DrainInv
  PROVE  Written \in Nat /\ Written <= Len(accepted)
<1>0. /\ m_tail \in Nat /\ done \in Nat /\ head \in Nat /\ m_head \in Nat
  BY DiskTypes
<1>1. m_head = Len(accepted) /\ m_tail <= m_head
  BY DEF Inv, ControlInv, RingInv
<1>2. CASE writer = "write"
  <2>1. m_tail <= head /\ head <= m_head
    BY <1>2 DEF Inv, WriterInv
  <2>2. BlockSize \in Nat /\ BlockSize <= head - m_tail /\ done <= BlockSize
    BY <1>2, <2>1, BlockSizeBounds DEF Inv, DrainInv
  <2> QED BY <1>0, <1>1, <1>2, <2>1, <2>2 DEF Written
<1>3. CASE writer # "write"
  BY <1>0, <1>1, <1>3 DEF Written
<1> QED BY <1>2, <1>3

\* The sample about to be appended is the next one of the stream.
LEMMA NextSample ==
  ASSUME Inv, AppendSample
  PROVE  /\ Written = m_tail + done /\ Written + 1 <= Len(accepted)
         /\ m_ring[Slot(m_tail + done)] = accepted[Written + 1]
         /\ accepted[Written + 1] \in Int
<1>0. /\ m_tail \in Nat /\ done \in Nat /\ head \in Nat /\ m_head \in Nat
      /\ accepted \in Seq(Int) /\ Len(accepted) \in Nat
  BY DiskTypes
<1>1. writer = "write" /\ done < BlockSize
  BY DEF AppendSample
<1>2. Written = m_tail + done
  BY <1>1 DEF Written
<1>3. m_tail <= head /\ head <= m_head
  BY <1>1 DEF Inv, WriterInv
<1>4. BlockSize \in Nat /\ BlockSize <= head - m_tail
  BY <1>3, BlockSizeBounds DEF Inv
<1>5. m_tail + done \in m_tail..m_head-1
  BY <1>0, <1>1, <1>3, <1>4
<1>6. m_ring # Released
  <2>1. main # "idle"
    BY <1>1 DEF Inv, ControlInv
  <2> QED BY <2>1, ReleasedIsNoRing DEF Inv, RingInv
<1>7. /\ m_head = Len(accepted)
      /\ \A i \in m_tail..m_head-1 : m_ring[Slot(i)] = accepted[i + 1]
  BY <1>6 DEF Inv, RingIsFifo
<1>8. m_ring[Slot(m_tail + done)] = accepted[(m_tail + done) + 1]
  BY <1>5, <1>7
<1>9. (m_tail + done) + 1 \in 1..Len(accepted)
  BY <1>0, <1>5, <1>7
<1>10. accepted[(m_tail + done) + 1] \in Int
  BY <1>0, <1>9, ElementOfSeq
<1> QED BY <1>0, <1>2, <1>8, <1>9, <1>10

\* The bytes of sample n + 1 of the stream.
LEMMA BytesOfSample ==
  ASSUME NEW s, NEW n \in Nat, NEW k \in 1..SampleBytes
  PROVE  ByteOf(s, SampleBytes * n + k) = s[n + 1]
<1>1. k - 1 \in 0..SampleBytes-1 /\ SampleBytes * n \in Nat
  BY SampleBytesType, BytesBounds
<1>2. (SampleBytes * n + (k - 1)) \div SampleBytes = n
  BY <1>1, SampleOfByte
<1> DEFINE before == SampleBytes * n
<1>3. before \in Nat /\ k \in Int /\ (before + (k - 1)) \div SampleBytes = n
  BY <1>1, <1>2
<1> HIDE DEF before
<1>4. (before + k) - 1 = before + (k - 1)
  BY <1>3
<1>5. ByteOf(s, before + k) = s[n + 1]
  BY <1>3, <1>4, Zenon DEF ByteOf
<1> QED BY <1>5 DEF before

\* append_bytes(): what fills the buffer and what starts the next one both
\* follow the stream, however the sample straddles the two.
LEMMA AppendStep == Inv /\ FileInv /\ AppendSample => FileInv'
<1> SUFFICES ASSUME Inv, FileInv, AppendSample PROVE FileInv'
  OBVIOUS
<1> DEFINE n     == Written
           old   == SampleBytes * n
           s     == accepted[n + 1]
           bytes == BytesOf(<<m_ring[Slot(m_tail + done)]>>)
           fits  == Minimum(SampleBytes, BufferBytes - Len(m_buffer))
           full  == m_buffer \o SubSeq(bytes, 1, fits)
           rest  == SubSeq(bytes, fits + 1, SampleBytes)
           total == SampleBytes * Len(accepted)
<1>1. /\ file \in Seq(Int) /\ Len(file) \in Nat
      /\ m_buffer \in Seq(Int) /\ Len(m_buffer) \in Nat
      /\ Len(m_buffer) < BufferBytes
      /\ accepted \in Seq(Int) /\ Len(accepted) \in Nat /\ n \in Nat
      /\ m_tail \in Nat /\ done \in Nat
  BY DiskTypes
<1>2. n = m_tail + done /\ n + 1 <= Len(accepted)
      /\ m_ring[Slot(m_tail + done)] = s /\ s \in Int
  BY NextSample
<1>3. bytes \in Seq(Int) /\ Len(bytes) = SampleBytes
      /\ \A i \in 1..SampleBytes : bytes[i] = s
  BY <1>2, OneSampleBytes
<1>4. fits \in 1..SampleBytes /\ fits <= BufferBytes - Len(m_buffer)
      /\ (fits = SampleBytes \/ fits = BufferBytes - Len(m_buffer))
  BY <1>1, ConstantsAssumption DEF Minimum
<1>5. m_data_file /\ main \in {"arm", "capturing", "signal", "join"}
      /\ main' = main /\ accepted' = accepted
  BY DEF FileInv, AppendSample
<1>6. ~m_write_error
  BY <1>5 DEF FileInv
<1>7. /\ Stream(accepted, file, 0) /\ Stream(accepted, m_buffer, Len(file))
      /\ Len(file) + Len(m_buffer) = old
  BY <1>5 DEF FileInv
<1>8. \A k \in 1..SampleBytes : ByteOf(accepted, old + k) = s
  BY <1>1, BytesOfSample
<1>9. /\ Written' = n + 1 /\ SampleBytes * (n + 1) = old + SampleBytes
      /\ old \in Nat /\ total \in Nat
  <2>1. Written' = m_tail + (done + 1)
    BY DEF Written, AppendSample
  <2>2. SampleBytes * (n + 1) = old + SampleBytes /\ old \in Nat /\ total \in Nat
    BY <1>1, BytesBounds
  <2> QED BY <1>1, <1>2, <2>1, <2>2
<1>10. old + SampleBytes <= total
  <2>1. n + 1 \in Nat
    BY <1>1
  <2>2. SampleBytes * (n + 1) <= SampleBytes * Len(accepted)
    BY <1>1, <1>2, <2>1, BytesBounds
  <2> QED BY <1>9, <2>2
<1> HIDE DEF n, s, bytes, fits, old, total
<1>0. /\ Len(file) + Len(m_buffer) = old /\ old \in Nat /\ fits \in Nat
      /\ Len(file) \in Nat /\ Len(m_buffer) \in Nat /\ fits <= SampleBytes
      /\ SampleBytes \in Nat
  BY <1>1, <1>4, <1>7, <1>9, SampleBytesType
<1>11. full \in Seq(Int) /\ Len(full) = Len(m_buffer) + fits
       /\ Stream(accepted, full, Len(file))
  <2> DEFINE part == SubSeq(bytes, 1, fits)
  <2>1. part \in Seq(Int) /\ Len(part) = fits /\ \A i \in 1..fits : part[i] = bytes[i]
    BY <1>3, <1>4, SampleBytesType, SubSeqProperties
  <2> HIDE DEF part
  <2>2. /\ m_buffer \o part \in Seq(Int) /\ Len(m_buffer \o part) = Len(m_buffer) + fits
        /\ \A i \in 1..Len(m_buffer) + fits :
             (m_buffer \o part)[i] = IF i <= Len(m_buffer) THEN m_buffer[i]
                                                           ELSE part[i - Len(m_buffer)]
    BY <1>1, <2>1, ConcatProperties
  <2>3. ASSUME NEW i \in 1..Len(m_buffer) + fits
        PROVE  (m_buffer \o part)[i] = ByteOf(accepted, Len(file) + i)
    <3>1. CASE i <= Len(m_buffer)
      <4>1. i \in 1..Len(m_buffer)
        BY <1>1, <3>1
      <4> QED BY <1>7, <2>2, <3>1, <4>1 DEF Stream
    <3>2. CASE ~(i <= Len(m_buffer))
      <4>1. /\ i - Len(m_buffer) \in 1..fits
            /\ i - Len(m_buffer) \in 1..SampleBytes
            /\ old + (i - Len(m_buffer)) = Len(file) + i
        BY <1>0, <3>2
      <4>2. part[i - Len(m_buffer)] = s
        BY <1>3, <2>1, <4>1
      <4>3. ByteOf(accepted, old + (i - Len(m_buffer))) = s
        BY <1>8, <4>1
      <4> QED BY <2>2, <3>2, <4>1, <4>2, <4>3
    <3> QED BY <3>1, <3>2
  <2> QED BY <2>2, <2>3 DEF Stream, part
<1>12. rest \in Seq(Int) /\ Len(rest) = SampleBytes - fits
       /\ \A from \in Nat : from = old + fits => Stream(accepted, rest, from)
  <2>1. fits + 1 \in 1..SampleBytes+1
    BY <1>4, SampleBytesType
  <2>2. /\ rest \in Seq(Int) /\ Len(rest) = SampleBytes - fits
        /\ \A i \in 1..SampleBytes - fits : rest[i] = bytes[fits + i]
    <3>1. CASE fits = SampleBytes
      <4>1. rest = <<>>
        BY <1>3, <1>4, <3>1, SampleBytesType
      <4> QED BY <3>1, <4>1, SampleBytesType
    <3>2. CASE fits # SampleBytes
      <4>1. fits + 1 \in 1..Len(bytes) /\ SampleBytes \in fits+1..Len(bytes)
        BY <1>3, <1>4, <3>2, SampleBytesType
      <4>2. /\ rest \in Seq(Int) /\ Len(rest) = SampleBytes - (fits + 1) + 1
            /\ \A i \in 1..SampleBytes - (fits + 1) + 1 :
                 rest[i] = bytes[(fits + 1) + i - 1]
        BY <1>3, <4>1, SubSeqProperties
      <4>3. SampleBytes - (fits + 1) + 1 = SampleBytes - fits
        BY <1>4, SampleBytesType
      <4>4. \A i \in 1..SampleBytes - fits : (fits + 1) + i - 1 = fits + i
        BY <1>4, SampleBytesType
      <4> QED BY <4>2, <4>3, <4>4
    <3> QED BY <3>1, <3>2
  <2> HIDE DEF rest
  <2>3. ASSUME NEW from \in Nat, from = old + fits, NEW i \in 1..Len(rest)
        PROVE  rest[i] = ByteOf(accepted, from + i)
    <3>1. /\ i \in 1..SampleBytes - fits /\ fits + i \in 1..SampleBytes
          /\ old + (fits + i) = from + i
      BY <1>4, <1>9, <2>2, <2>3, SampleBytesType
    <3>2. rest[i] = s
      BY <1>3, <2>2, <3>1
    <3>3. ByteOf(accepted, old + (fits + i)) = s
      BY <1>8, <3>1
    <3> QED BY <3>1, <3>2, <3>3
  <2> QED BY <2>2, <2>3 DEF Stream
<1> HIDE DEF full, rest
<1>13. Len(file) + Len(full) = old + fits
  BY <1>0, <1>11
<1>14. CASE ~BufferFull(full) /\ m_buffer' = full
            /\ UNCHANGED <<m_data_file, file, m_write_error>>
  <2>1. fits = SampleBytes
    BY <1>1, <1>4, <1>11, <1>14, ConstantsAssumption DEF BufferFull
  <2>2. Len(file') + Len(m_buffer') = SampleBytes * Written'
    BY <1>9, <1>13, <1>14, <2>1
  <2>3. Stream(accepted', m_buffer', Len(file'))
    BY <1>5, <1>11, <1>14
  <2>4. Stream(accepted', file', 0) /\ Len(file') <= SampleBytes * Len(accepted')
    BY <1>5, <1>14 DEF FileInv
  <2> QED BY <1>5, <1>6, <1>14, <2>2, <2>3, <2>4 DEF FileInv
<1>15. ASSUME BufferFull(full), NEW flushed \in FlushResults(file, full),
              file' = flushed.file, m_data_file' = flushed.open,
              m_write_error' = (m_write_error \/ ~flushed.open),
              m_buffer' = IF flushed.open THEN rest ELSE <<>>
       PROVE  FileInv'
  <2>1. /\ flushed.open \in BOOLEAN /\ file' \in Seq(Int)
        /\ Stream(accepted, file', 0)
        /\ Len(file') <= old + fits
        /\ flushed.open => Len(file') = old + fits
    BY <1>1, <1>7, <1>11, <1>13, <1>15, Flushed
  <2>2. Len(file') \in Nat
    BY <2>1, LenProperties
  <2>3. Len(file') <= total
    BY <1>4, <1>9, <1>10, <2>1, <2>2, SampleBytesType
  <2>4. Len(file') <= SampleBytes * Len(accepted')
    BY <1>5, <2>3 DEF total
  <2>5. CASE flushed.open
    <3>1. Stream(accepted', m_buffer', Len(file'))
      BY <1>5, <1>12, <1>15, <2>1, <2>2, <2>5
    <3>2. Len(file') + Len(m_buffer') = SampleBytes * Written'
      BY <1>4, <1>9, <1>12, <1>15, <2>1, <2>5, SampleBytesType
    <3> QED BY <1>5, <1>6, <1>15, <2>1, <2>4, <2>5, <3>1, <3>2 DEF FileInv
  <2>6. CASE ~flushed.open
    BY <1>5, <1>6, <1>15, <2>1, <2>4, <2>6 DEF FileInv
  <2> QED BY <2>1, <2>5, <2>6
<1> QED BY <1>14, <1>15, Zenon DEF AppendSample, bytes, fits, full, rest

\* close_files() after the drain: without an error the file holds it all.
LEMMA CloseStep == Inv /\ FileInv /\ DrainInv /\ CloseFile => FileInv'
<1> SUFFICES ASSUME Inv, FileInv, DrainInv, CloseFile PROVE FileInv'
  OBVIOUS
<1>1. /\ file \in Seq(Int) /\ Len(file) \in Nat
      /\ m_buffer \in Seq(Int) /\ Len(m_buffer) \in Nat
      /\ accepted \in Seq(Int) /\ Len(accepted) \in Nat
      /\ m_data_file \in BOOLEAN /\ m_write_error \in BOOLEAN /\ m_tail \in Nat
  BY DiskTypes
<1>2. /\ main = "join" /\ main' = "finalize" /\ m_data_file' = FALSE
      /\ accepted' = accepted /\ writer = "exited"
  BY DEF CloseFile
<1>3. Written = Len(accepted)
  <2>1. m_tail = m_head
    BY <1>2 DEF DrainInv
  <2>2. m_head = Len(accepted)
    BY <1>2 DEF Inv, RingInv
  <2> QED BY <1>1, <1>2, <2>1, <2>2 DEF Written
<1>4. /\ Stream(accepted, file, 0) /\ Len(file) <= SampleBytes * Len(accepted)
      /\ m_data_file <=> ~m_write_error
      /\ m_data_file => /\ Stream(accepted, m_buffer, Len(file))
                        /\ Len(file) + Len(m_buffer) = SampleBytes * Len(accepted)
  BY <1>2, <1>3 DEF FileInv
<1> DEFINE total == SampleBytes * Len(accepted)
<1>5. total \in Nat
  BY <1>1, BytesBounds
<1> HIDE DEF total
<1>6. ASSUME NEW flushed \in LastFlush
      PROVE  /\ flushed.open \in BOOLEAN /\ flushed.file \in Seq(Int)
             /\ Stream(accepted, flushed.file, 0) /\ Len(flushed.file) <= total
             /\ flushed.open => m_data_file /\ Len(flushed.file) = total
  <2>1. CASE m_data_file /\ m_buffer # <<>>
    <3>1. flushed \in FlushResults(file, m_buffer)
      BY <2>1 DEF LastFlush
    <3> QED BY <1>1, <1>4, <2>1, <3>1, Flushed DEF total
  <2>2. CASE ~(m_data_file /\ m_buffer # <<>>)
    <3>1. flushed = [open |-> m_data_file, file |-> file]
      BY <2>2 DEF LastFlush
    <3>2. flushed.open = m_data_file /\ flushed.file = file
      BY <3>1
    <3>3. m_data_file => Len(m_buffer) = 0
      BY <2>2
    <3>4. m_data_file => Len(file) = total
      BY <1>1, <1>4, <3>3 DEF total
    <3> QED BY <1>1, <1>4, <3>2, <3>4 DEF total
  <2> QED BY <2>1, <2>2
<1>7. PICK flushed \in LastFlush :
        \E closed \in IF flushed.open THEN CloseResults(flushed.file)
                      ELSE {[ok |-> ~m_data_file, file |-> flushed.file]} :
          /\ file' = closed.file
          /\ m_write_error' = (m_write_error \/ ~closed.ok)
  BY DEF CloseFile
<1>8. PICK closed \in IF flushed.open THEN CloseResults(flushed.file)
                      ELSE {[ok |-> ~m_data_file, file |-> flushed.file]} :
          /\ file' = closed.file
          /\ m_write_error' = (m_write_error \/ ~closed.ok)
  BY <1>7
<1>9. /\ flushed.open \in BOOLEAN /\ flushed.file \in Seq(Int)
      /\ Stream(accepted, flushed.file, 0) /\ Len(flushed.file) <= total
      /\ flushed.open => m_data_file /\ Len(flushed.file) = total
  BY <1>6
<1>10. Len(flushed.file) \in Nat
  BY <1>9, LenProperties
<1>11. CASE flushed.open
  <2>1. closed \in CloseResults(flushed.file)
    BY <1>8, <1>11
  <2>2. /\ closed.ok \in BOOLEAN /\ closed.file \in Seq(Int)
        /\ Stream(accepted, closed.file, 0)
        /\ Len(closed.file) <= Len(flushed.file)
        /\ closed.ok => closed.file = flushed.file
    BY <1>9, <2>1, Closed
  <2>3. Len(closed.file) \in Nat
    BY <2>2, LenProperties
  <2>4. Len(closed.file) <= total
    BY <1>5, <1>9, <1>10, <2>2, <2>3
  <2>5. m_write_error' \/ Len(file') = total
    BY <1>8, <1>9, <1>11, <2>2
  <2> QED BY <1>2, <1>8, <2>2, <2>4, <2>5 DEF FileInv, total
<1>12. CASE ~flushed.open
  <2>1. closed = [ok |-> ~m_data_file, file |-> flushed.file]
    BY <1>8, <1>12
  <2>2. closed.ok = ~m_data_file /\ closed.file = flushed.file
    BY <2>1
  <2>3. m_write_error'
    BY <1>1, <1>4, <1>8, <2>2
  <2> QED BY <1>2, <1>8, <1>9, <2>2, <2>3 DEF FileInv, total
<1> QED BY <1>9, <1>11, <1>12

\* The cut of close_files() keeps whole samples only.
LEMMA FinalizeStep == Inv /\ FileInv /\ Finalize => FileInv'
<1> SUFFICES ASSUME Inv, FileInv, Finalize PROVE FileInv'
  OBVIOUS
<1>1. file \in Seq(Int) /\ Len(file) \in Nat /\ accepted \in Seq(Int)
      /\ Len(accepted) \in Nat /\ m_data_file \in BOOLEAN /\ m_write_error \in BOOLEAN
  BY DiskTypes
<1>2. /\ main = "finalize" /\ main' = "idle" /\ accepted' = accepted
      /\ m_data_file' = m_data_file /\ m_write_error' = m_write_error
      /\ file' \in CutFile \/ file' = file
  BY DEF Finalize
<1>3. ~m_data_file
  BY <1>2 DEF FileInv
<1>4. CASE file' = file
  BY <1>2, <1>3, <1>4 DEF FileInv
<1>5. CASE file' = SubSeq(file, 1, SampleBytes * WholeSamples)
  <2> DEFINE cut == SampleBytes * WholeSamples
             total == SampleBytes * Len(accepted)
  <2>1. cut \in 0..Len(file)
    BY WholeSamplesType DEF Inv
  <2>2. Stream(accepted, file, 0) /\ Len(file) <= total
        /\ (m_write_error \/ Len(file) = total)
    BY <1>2 DEF FileInv
  <2>3. m_write_error \/ cut = Len(file)
    <3>1. Len(file) = total => WholeSamples = Len(accepted)
      <4>1. 0 \in 0..SampleBytes-1
        BY SampleBytesType
      <4>2. (total + 0) \div SampleBytes = Len(accepted)
        BY <1>1, <4>1, SampleOfByte
      <4>3. total + 0 = total
        BY <1>1, BytesBounds
      <4> QED BY <4>2, <4>3 DEF WholeSamples
    <3> QED BY <2>2, <3>1
  <2>4. total \in Nat
    BY <1>1, BytesBounds
  <2>5. file' = SubSeq(file, 1, cut)
    BY <1>5
  <2> HIDE DEF cut, total
  <2>6. Stream(accepted, file', 0) /\ Len(file') = cut
    BY <1>1, <2>1, <2>2, <2>5, StreamPrefix
  <2>7. Len(file') <= total /\ (m_write_error \/ Len(file') = total)
    BY <1>1, <2>1, <2>2, <2>3, <2>4, <2>6
  <2> QED BY <1>2, <1>3, <2>6, <2>7 DEF FileInv, total
<1> QED BY <1>2, <1>4, <1>5 DEF CutFile


\* Samples published later leave the file and the buffer a part of the stream.
LEMMA PublishStep == Inv /\ FileInv /\ DrainInv /\ Publish => FileInv'
<1> SUFFICES ASSUME Inv, FileInv, DrainInv, Publish PROVE FileInv'
  OBVIOUS
<1> DEFINE pushed == [k \in 1..batch |-> BatchSample(k - 1)]
<1>1. /\ file \in Seq(Int) /\ Len(file) \in Nat
      /\ m_buffer \in Seq(Int) /\ Len(m_buffer) \in Nat
      /\ accepted \in Seq(Int) /\ Len(accepted) \in Nat
      /\ batch \in Nat /\ m_received_samples \in Nat
      /\ m_tail \in Nat /\ done \in Nat /\ head \in Nat /\ m_head \in Nat
  BY DiskTypes
<1>2. /\ main = "capturing" /\ accepted' = accepted \o pushed
      /\ UNCHANGED <<main, file, m_buffer, m_data_file, m_write_error, m_tail,
                     writer, done>>
  BY DEF Publish, Inv, ControlInv, PushInProgress
<1>2a. PushInProgress
  BY DEF Publish, PushInProgress
<1>3. pushed \in Seq(Int) /\ Len(pushed) = batch
  <2>1. \A k \in 1..batch : BatchSample(k - 1) \in Int
    BY <1>1 DEF BatchSample
  <2>2. pushed \in Seq(Int)
    BY <1>1, <2>1, IsASeq
  <2> QED BY <1>1, <2>2, LenProperties
<1> HIDE DEF pushed
<1>4. accepted' \in Seq(Int) /\ Len(accepted') = Len(accepted) + batch
  BY <1>1, <1>2, <1>3, ConcatProperties
<1> DEFINE old == SampleBytes * Len(accepted)
           new == SampleBytes * Len(accepted')
<1>5. old \in Nat /\ new \in Nat /\ old <= new
  <2>1. Len(accepted') \in Nat /\ Len(accepted) <= Len(accepted')
    BY <1>1, <1>4
  <2> QED BY <1>1, <2>1, BytesBounds
<1>6. Stream(accepted, file, 0) /\ Len(file) <= old
  BY DEF FileInv
<1>7. Stream(accepted', file, 0)
  <2>1. 0 + Len(file) <= SampleBytes * Len(accepted)
    BY <1>1, <1>6
  <2> QED BY <1>1, <1>2, <1>3, <1>6, <2>1, StreamGrows
<1>8. m_data_file => /\ Stream(accepted', m_buffer, Len(file))
                     /\ Len(file) + Len(m_buffer) = SampleBytes * Written
  <2> SUFFICES ASSUME m_data_file
               PROVE  /\ Stream(accepted', m_buffer, Len(file))
                      /\ Len(file) + Len(m_buffer) = SampleBytes * Written
    OBVIOUS
  <2>1. /\ Stream(accepted, m_buffer, Len(file))
        /\ Len(file) + Len(m_buffer) = SampleBytes * Written
    BY DEF FileInv
  <2>2. Written \in Nat /\ Written <= Len(accepted)
    BY <1>2a, WrittenBounds
  <2>3. SampleBytes * Written <= SampleBytes * Len(accepted)
    BY <1>1, <2>2, BytesBounds
  <2>4. Len(file) + Len(m_buffer) <= SampleBytes * Len(accepted)
    BY <2>1, <2>3
  <2> QED BY <1>1, <1>2, <1>3, <2>1, <2>4, StreamGrows
<1>9. Written' = Written
  BY <1>2 DEF Written
<1> HIDE DEF old, new
<1>10. Len(file) <= new
  BY <1>1, <1>5, <1>6
<1>11. FileInv'
  BY <1>2, <1>7, <1>8, <1>9, <1>10 DEF FileInv, new
<1> QED BY <1>11

LEMMA FileStep == Inv /\ FileInv /\ DrainInv /\ [Next]_vars => FileInv'
<1> SUFFICES ASSUME Inv, FileInv, DrainInv, [Next]_vars PROVE FileInv'
  OBVIOUS
<1>0. ControlInv /\ WriterInv /\ TypeOK
  BY DEF Inv
<1>1. CASE StartNoDirectory \/ StartNoFile \/ StartOpened
  <2>1. accepted' = <<>> /\ file' = <<>> /\ m_buffer' = <<>> /\ m_write_error' = FALSE
        /\ main = "idle"
    BY <1>1 DEF StartNoDirectory, StartNoFile, StartOpened, ResetCapture
  <2>2. Len(<<>>) = 0 /\ SampleBytes * 0 = 0
    BY SampleBytesType
  <2>3. \A s : Stream(s, <<>>, 0)
    BY <2>2 DEF Stream
  <2>4. CASE StartNoDirectory \/ StartNoFile
    <3>1. m_data_file' = m_data_file /\ main' = main
      BY <2>4 DEF StartNoDirectory, StartNoFile
    <3>2. ~m_data_file
      BY <2>1 DEF FileInv
    <3> QED BY <2>1, <2>2, <2>3, <3>1, <3>2 DEF FileInv
  <2>5. CASE StartOpened
    <3>1. m_data_file' = TRUE /\ main' = "arm" /\ m_tail' = 0 /\ writer' = "loop"
      BY <2>5 DEF StartOpened
    <3>2. Written' = 0
      BY <3>1 DEF Written
    <3> QED BY <2>1, <2>2, <2>3, <3>1, <3>2 DEF FileInv
  <2> QED BY <1>1, <2>4, <2>5
<1>2. CASE \/ StartArm \/ StopCapture \/ SignalStop \/ SeeCapturing \/ EnterPush
           \/ CopyFirst \/ CopyWrapped \/ ReadStop \/ ReadHead \/ FoundEmpty
           \/ Exhausted \/ UNCHANGED vars
  <2>1. UNCHANGED <<accepted, file, m_buffer, m_data_file, m_write_error>>
    BY <1>2 DEF StartArm, StopCapture, SignalStop, SeeCapturing, EnterPush,
                CopyFirst, CopyWrapped, ReadStop, ReadHead, FoundEmpty,
                Exhausted, vars
  <2>2. Written' = Written
    BY <1>2 DEF StartArm, StopCapture, SignalStop, SeeCapturing, EnterPush,
                CopyFirst, CopyWrapped, ReadStop, ReadHead, FoundEmpty,
                Exhausted, vars, Written
  <2>3. \/ main' = main
        \/ /\ main \in {"arm", "capturing", "signal"}
           /\ main' \in {"capturing", "signal", "join"}
    BY <1>2 DEF StartArm, StopCapture, SignalStop, SeeCapturing, EnterPush,
                CopyFirst, CopyWrapped, ReadStop, ReadHead, FoundEmpty,
                Exhausted, vars
  <2> QED BY <2>1, <2>2, <2>3 DEF FileInv
<1>3. CASE BeginBlock
  <2>1. /\ UNCHANGED <<accepted, file, m_buffer, m_data_file, m_write_error, main,
                       m_tail>>
        /\ writer = "decide" /\ writer' = "write" /\ done' = 0
    BY <1>3 DEF BeginBlock
  <2>2. m_tail \in Nat
    BY DiskTypes
  <2>3. Written' = Written
    BY <2>1, <2>2 DEF Written
  <2> QED BY <2>1, <2>3 DEF FileInv
<1>4. CASE EndBlock
  <2>1. /\ UNCHANGED <<accepted, file, m_buffer, m_data_file, m_write_error, main>>
        /\ writer = "write" /\ writer' = "loop" /\ m_tail' = m_tail + BlockSize
        /\ done = BlockSize \/ ~m_data_file
    BY <1>4 DEF EndBlock, BlockWritten
  <2>2. BlockSize \in Nat /\ m_tail \in Nat
    BY <1>0, <2>1, BlockSizeBounds, DiskTypes DEF WriterInv
  <2>3. m_data_file => Written' = Written
    BY <2>1, <2>2 DEF Written
  <2> QED BY <2>1, <2>3 DEF FileInv
<1> QED BY <1>1, <1>2, <1>3, <1>4, AppendStep, CloseStep, FinalizeStep, PublishStep
        DEF Next, Start, Stop, WriteSamples, WriterLoop

-----------------------------------------------------------------------------
(* The sidecar. *)

LEMMA SidecarStep ==
  Inv /\ FileInv /\ CountInv /\ SidecarInv /\ [Next]_vars => SidecarInv'
<1> SUFFICES ASSUME Inv, FileInv, CountInv, SidecarInv, [Next]_vars
             PROVE  SidecarInv'
  OBVIOUS
<1>1. CASE StartNoDirectory \/ StartNoFile \/ StartOpened
  <2>1. sidecar'.when # "stop"
    <3>1. CASE StartNoDirectory
      BY <3>1 DEF StartNoDirectory, Absent
    <3>2. CASE StartNoFile \/ StartOpened
      <4>1. sidecar' \in {Metadata("start", 0, 0, FALSE), Absent, Torn}
        BY <3>2 DEF StartNoFile, StartOpened, SidecarAfter
      <4> QED BY <4>1 DEF Metadata, Absent, Torn
    <3> QED BY <1>1, <3>1, <3>2
  <2> QED BY <2>1 DEF SidecarInv, SidecarIsExact
<1>2. CASE Finalize
  <2>1. main = "finalize" /\ main' = "idle" /\ m_write_error' = m_write_error
        /\ UNCHANGED <<accepted, m_received_samples, m_ring_dropped,
                       m_dropped_samples>>
    BY <1>2 DEF Finalize
  <2>2. /\ file \in Seq(Int) /\ Len(file) \in Nat /\ Len(accepted) \in Nat
        /\ m_received_samples \in Nat /\ m_ring_dropped \in Nat
        /\ m_dropped_samples \in Nat /\ m_write_error \in BOOLEAN
    BY DiskTypes
  <2>3. WholeSamples \in Nat
    BY WholeSamplesType DEF Inv
  <2>4. SidecarIsExact' \/ "stat" \in Faults
    <3> SUFFICES ASSUME "stat" \notin Faults, sidecar'.when = "stop"
                 PROVE  /\ sidecar'.samples = WholeSamples'
                        /\ sidecar'.error = m_write_error'
                        /\ \/ sidecar'.error
                           \/ sidecar'.samples + sidecar'.dropped
                                = m_received_samples' + m_dropped_samples'
      BY DEF SidecarIsExact
    <3>1. sample_count' = WholeSamples /\ file' \in CutFile
      BY <1>2 DEF Finalize
    <3>2. WholeSamples' = WholeSamples
      <4>1. CASE file' = file
        BY <4>1 DEF WholeSamples
      <4>2. CASE file' = SubSeq(file, 1, SampleBytes * WholeSamples)
        <5> DEFINE cut == SampleBytes * WholeSamples
        <5>1. cut \in 0..Len(file)
          BY WholeSamplesType DEF Inv
        <5>2. Len(file') = cut
          <6> HIDE DEF cut
          <6>1. Len(SubSeq(file, 1, cut)) = cut
            BY <2>2, <5>1, SubSeqProperties
          <6> QED BY <4>2, <6>1 DEF cut
        <5>3. (cut + 0) \div SampleBytes = WholeSamples
          <6>1. 0 \in 0..SampleBytes-1
            BY SampleBytesType
          <6> QED BY <2>3, <6>1, SampleOfByte
        <5>4. cut + 0 = cut
          <6> HIDE DEF cut
          <6> QED BY <2>2, <5>1
        <5> HIDE DEF cut
        <5>5. Len(file') \div SampleBytes = WholeSamples
          BY <5>2, <5>3, <5>4
        <5> QED BY <5>5 DEF WholeSamples
      <4> QED BY <3>1, <4>1, <4>2 DEF CutFile
    <3>3. sidecar' \in {Metadata("stop", WholeSamples, DroppedReported, m_write_error),
                        sidecar, Torn}
      BY <1>2, <3>1 DEF Finalize, SidecarAfter
    <3>4. sidecar.when # "stop" /\ Torn.when # "stop"
      BY <2>1 DEF SidecarInv, Torn, Absent
    <3>5. sidecar' = Metadata("stop", WholeSamples, DroppedReported, m_write_error)
      BY <3>3, <3>4
    <3>6. /\ sidecar'.samples = WholeSamples /\ sidecar'.dropped = DroppedReported
          /\ sidecar'.error = m_write_error
      BY <3>5 DEF Metadata
    <3>7. m_write_error \/ WholeSamples = Len(accepted)
      <4> DEFINE total == SampleBytes * Len(accepted)
      <4>1. m_write_error \/ Len(file) = total
        BY <2>1 DEF FileInv
      <4>2. (total + 0) \div SampleBytes = Len(accepted)
        <5>1. 0 \in 0..SampleBytes-1
          BY SampleBytesType
        <5> QED BY <2>2, <5>1, SampleOfByte
      <4>3. total + 0 = total
        BY <2>2, BytesBounds
      <4> QED BY <4>1, <4>2, <4>3 DEF WholeSamples
    <3>8. Len(accepted) + m_ring_dropped = m_received_samples
      <4>1. ~PushInProgress
        BY <2>1 DEF Inv, ControlInv
      <4> QED BY <2>2, <4>1 DEF CountInv
    <3>9. m_write_error \/ WholeSamples + DroppedReported
                             = m_received_samples + m_dropped_samples
      BY <2>2, <3>7, <3>8 DEF DroppedReported
    <3> QED BY <2>1, <3>2, <3>6, <3>9
  <2> QED BY <2>1, <2>4 DEF SidecarInv
<1>3. CASE \/ StartArm \/ StopCapture \/ SignalStop \/ CloseFile
           \/ CopyFirst \/ CopyWrapped \/ Publish \/ WriterLoop
  <2>1. sidecar' = sidecar /\ main # "idle" /\ main' # "idle"
    <3>1. CASE StartArm \/ StopCapture \/ SignalStop \/ CloseFile
      BY <3>1 DEF StartArm, StopCapture, SignalStop, CloseFile
    <3>2. CASE CopyFirst \/ CopyWrapped \/ Publish
      BY <3>2 DEF Inv, ControlInv, PushInProgress, CopyFirst, CopyWrapped, Publish
    <3>3. CASE WriterLoop
      BY <3>3 DEF Inv, ControlInv, WriterLoop, ReadStop, ReadHead, FoundEmpty,
                  BeginBlock, AppendSample, EndBlock
    <3> QED BY <1>3, <3>1, <3>2, <3>3
  <2> QED BY <2>1 DEF SidecarInv, SidecarIsExact
<1>4. CASE EnterPush
  <2>1. main' = main /\ sidecar' = sidecar /\ file' = file
        /\ m_write_error' = m_write_error /\ m_dropped_samples' = m_dropped_samples
    BY <1>4 DEF EnterPush
  <2>2. main = "idle" => m_received_samples' = m_received_samples
    BY <1>4 DEF EnterPush, StillCapturing, Inv, ControlInv
  <2> QED BY <2>1, <2>2 DEF SidecarInv, SidecarIsExact, WholeSamples
<1>5. CASE SeeCapturing \/ Exhausted \/ UNCHANGED vars
  BY <1>5 DEF SeeCapturing, Exhausted, vars, SidecarInv, SidecarIsExact,
              WholeSamples
<1> QED BY <1>1, <1>2, <1>3, <1>4, <1>5 DEF Next, Start, Stop, WriteSamples

-----------------------------------------------------------------------------
(* The theorems. *)

LEMMA DiskStep == Inv /\ DiskInv /\ [Next]_vars => DiskInv'
BY FileStep, DrainStep, CountStep, SidecarStep DEF DiskInv

LEMMA DiskInvariance == Spec => [](Inv /\ DiskInv)
<1>1. Init => Inv /\ DiskInv
  BY InvInit, InitDisk
<1>2. Inv /\ DiskInv /\ [Next]_vars => (Inv /\ DiskInv)'
  BY InvStep, DiskStep
<1> QED BY <1>1, <1>2, PTL DEF Spec

\* The data file is at every moment a prefix of what was accepted: no gap, no
\* misalignment, whatever the buffer and sample size and whichever write fails.
THEOREM FileFollowsStream == Spec => []FileIsPrefix
<1>1. ASSUME Inv, DiskInv PROVE FileIsPrefix
  <2>1. file \in Seq(Int) /\ accepted \in Seq(Int)
    BY <1>1, DiskTypes
  <2>2. Stream(accepted, file, 0) /\ Len(file) <= SampleBytes * Len(accepted)
    BY <1>1 DEF DiskInv, FileInv
  <2> QED BY <2>1, <2>2, StreamIsPrefix DEF FileIsPrefix
<1> QED BY <1>1, DiskInvariance, PTL

\* After stop_capture() what is not in the file is counted as dropped, or the
\* capture has its write error.
THEOREM NoSilentLoss == Spec => []NothingLostSilently
<1>1. ASSUME Inv, DiskInv PROVE NothingLostSilently
  <2> SUFFICES ASSUME main = "idle"
               PROVE  /\ Len(accepted) + m_ring_dropped = m_received_samples
                      /\ (m_write_error \/ file = BytesOf(accepted))
    BY DEF NothingLostSilently
  <2>1. /\ file \in Seq(Int) /\ accepted \in Seq(Int) /\ Len(accepted) \in Nat
        /\ m_ring_dropped \in Nat
    BY <1>1, DiskTypes
  <2>2. Stream(accepted, file, 0) /\ Len(file) <= SampleBytes * Len(accepted)
        /\ (m_write_error \/ Len(file) = SampleBytes * Len(accepted))
    BY <1>1 DEF DiskInv, FileInv
  <2>3. m_write_error \/ file = BytesOf(accepted)
    BY <2>1, <2>2, StreamIsPrefix
  <2>4. ~PushInProgress
    BY <1>1 DEF Inv, ControlInv
  <2>5. Len(accepted) + m_ring_dropped = m_received_samples
    BY <1>1, <2>1, <2>4 DEF DiskInv, CountInv
  <2> QED BY <2>3, <2>5
<1> QED BY <1>1, DiskInvariance, PTL

\* As long as file_size() works, the final sidecar's counts are the file's and
\* add up to what the source delivered and lost.
THEOREM SidecarTellsTheTruth ==
  ASSUME "stat" \notin Faults
  PROVE  Spec => []SidecarIsExact
<1>1. Inv /\ DiskInv => SidecarIsExact
  BY DEF DiskInv, SidecarInv
<1> QED BY <1>1, DiskInvariance, PTL

-----------------------------------------------------------------------------
(***************************************************************************)
(* The logger implements IqCapture: the initial states map to an initial   *)
(* state and every step to one of the abstract capture's or to a stutter.  *)
(***************************************************************************)

\* Until m_capturing is set nothing happened to the new capture, and a push
\* that was begun has a length a delivery can have.
ArmInv ==
  /\ main = "arm" =>
       /\ accepted = <<>> /\ file = <<>> /\ ~m_write_error
       /\ m_received_samples = 0 /\ m_ring_dropped = 0
  /\ producer # "idle" => batch \in BatchSizes

\* The writer finds no block before the first sample is published.
LEMMA NoBlockInArm == Inv /\ ArmInv /\ main = "arm" => writer # "write"
<1> SUFFICES ASSUME Inv, ArmInv, main = "arm", writer = "write" PROVE FALSE
  OBVIOUS
<1>1. m_head \in Nat /\ m_tail \in Nat /\ head \in Nat
  BY DiskTypes
<1>2. m_head = 0
  BY DEF ArmInv, Inv, RingInv
<1>3. m_tail < head /\ head <= m_head
  BY DEF Inv, WriterInv
<1> QED BY <1>1, <1>2, <1>3

LEMMA ArmStep == Inv /\ ArmInv /\ [Next]_vars => ArmInv'
<1> SUFFICES ASSUME Inv, ArmInv, [Next]_vars PROVE ArmInv'
  OBVIOUS
<1> USE DEF ArmInv
<1>0. ControlInv
  BY DEF Inv
<1>1. CASE StartNoDirectory \/ StartNoFile
  BY <1>1 DEF StartNoDirectory, StartNoFile, ResetCapture
<1>2. CASE StartOpened
  BY <1>2 DEF StartOpened, ResetCapture
<1>3. CASE StartArm
  BY <1>3 DEF StartArm
<1>4. CASE StopCapture \/ SignalStop \/ CloseFile \/ Finalize
  BY <1>4 DEF StopCapture, SignalStop, CloseFile, Finalize
<1>5. CASE SeeCapturing \/ CopyFirst \/ CopyWrapped
  BY <1>5 DEF SeeCapturing, CopyFirst, CopyWrapped
<1>6. CASE EnterPush
  BY <1>0, <1>6 DEF EnterPush, StillCapturing, ControlInv
<1>7. CASE Publish
  BY <1>0, <1>7 DEF Publish, ControlInv, PushInProgress
<1>8. CASE ReadStop \/ ReadHead \/ FoundEmpty \/ BeginBlock \/ EndBlock
  BY <1>8 DEF ReadStop, ReadHead, FoundEmpty, BeginBlock, EndBlock
<1>9. CASE AppendSample
  BY <1>9, NoBlockInArm DEF AppendSample
<1>10. CASE Exhausted \/ UNCHANGED vars
  BY <1>10 DEF Exhausted, vars
<1> QED BY <1>1, <1>2, <1>3, <1>4, <1>5, <1>6, <1>7, <1>8, <1>9, <1>10
        DEF Next, Start, Stop, WriteSamples, WriterLoop

LEMMA ArmInvariance == Spec => [](Inv /\ DiskInv /\ ArmInv)
<1>1. Init => ArmInv
  BY DEF Init, ArmInv
<1> QED BY <1>1, ArmStep, DiskInvariance, PTL DEF Spec

\* The whole samples of a file, as WholeSamples and StoredSamples take them.
WholeOf(f)   == Len(f) \div SampleBytes
SamplesOf(f) == [i \in 1..WholeOf(f) |-> f[i * SampleBytes]]

LEMMA WholeBounds ==
  ASSUME NEW n \in Nat
  PROVE  /\ n \div SampleBytes \in Nat
         /\ SampleBytes * (n \div SampleBytes) <= n
         /\ n < SampleBytes * (n \div SampleBytes) + SampleBytes
<1>1. n \div SampleBytes \in Nat
  BY SampleBytesType, SMTT(10)
<1>2. n = SampleBytes * (n \div SampleBytes) + (n % SampleBytes)
  BY SampleBytesType, SMTT(10)
<1>3. n % SampleBytes \in 0..SampleBytes-1
  BY SampleBytesType, SMTT(10)
<1>4. SampleBytes * (n \div SampleBytes) \in Nat
  BY <1>1, BytesBounds
<1> QED BY <1>1, <1>2, <1>3, <1>4, SampleBytesType

\* More bytes hold no fewer samples, and n samples' bytes exactly n.
LEMMA WholeGrows ==
  ASSUME NEW m \in Nat, NEW n \in Nat, m <= n
  PROVE  m \div SampleBytes <= n \div SampleBytes
BY SampleBytesType, SMTT(10)

LEMMA WholeOfBytes ==
  ASSUME NEW n \in Nat
  PROVE  (SampleBytes * n) \div SampleBytes = n
<1>1. 0 \in 0..SampleBytes-1
  BY SampleBytesType
<1>2. (SampleBytes * n + 0) \div SampleBytes = n
  BY <1>1, SampleOfByte
<1>3. SampleBytes * n + 0 = SampleBytes * n
  BY BytesBounds
<1> QED BY <1>2, <1>3

\* The whole samples of a file that follows the stream are its first samples.
LEMMA StoredIsPrefix ==
  ASSUME NEW s \in Seq(Int), NEW f \in Seq(Int), Stream(s, f, 0),
         Len(f) <= SampleBytes * Len(s)
  PROVE  /\ WholeOf(f) \in 0..Len(s)
         /\ SamplesOf(f) = SubSeq(s, 1, WholeOf(f))
<1> DEFINE w == WholeOf(f)
<1>1. Len(f) \in Nat /\ Len(s) \in Nat
  BY LenProperties
<1>2. w \in Nat /\ SampleBytes * w <= Len(f)
  BY <1>1, WholeBounds DEF WholeOf
<1>3. SampleBytes * w \in Nat
  BY <1>2, BytesBounds
<1>4. w <= Len(s)
  <2>1. SampleBytes * Len(s) \in Nat
    BY <1>1, BytesBounds
  <2>2. Len(f) \div SampleBytes <= (SampleBytes * Len(s)) \div SampleBytes
    BY <1>1, <2>1, WholeGrows
  <2> QED BY <1>1, <2>2, WholeOfBytes DEF WholeOf
<1> HIDE DEF w
<1>5. ASSUME NEW i \in 1..w
      PROVE  f[i * SampleBytes] = s[i]
  <2> DEFINE place == SampleBytes * i
  <2>1. i \in Nat /\ i - 1 \in Nat /\ SampleBytes \in 1..SampleBytes
        /\ (i - 1) + 1 = i /\ i <= w
    BY <1>2, SampleBytesType
  <2>2. ByteOf(s, SampleBytes * (i - 1) + SampleBytes) = s[(i - 1) + 1]
    BY <2>1, BytesOfSample
  <2>3. /\ SampleBytes * (i - 1) \in Nat
        /\ SampleBytes * ((i - 1) + 1) = SampleBytes * (i - 1) + SampleBytes
    BY <2>1, BytesBounds
  <2>4. ByteOf(s, place) = s[i]
    BY <2>1, <2>2, <2>3
  <2>5. place <= SampleBytes * w
    BY <1>2, <2>1, BytesBounds
  <2>6. place = SampleBytes * (i - 1) + SampleBytes
    BY <2>1, <2>3
  <2>7. place = i * SampleBytes
    BY <2>1, SampleBytesType
  <2> HIDE DEF place
  <2>8. place \in 1..Len(f)
    <3> DEFINE before == SampleBytes * (i - 1)
               whole  == SampleBytes * w
    <3>1. /\ before \in Nat /\ place = before + SampleBytes
          /\ whole \in Nat /\ place <= whole /\ whole <= Len(f)
      BY <1>2, <1>3, <2>3, <2>5, <2>6
    <3> HIDE DEF before, whole
    <3> QED BY <1>1, <3>1, SampleBytesType
  <2>9. f[place] = ByteOf(s, 0 + place) /\ 0 + place = place
    BY <2>8 DEF Stream
  <2> QED BY <2>4, <2>7, <2>9
<1>6. SubSeq(s, 1, w) = [i \in 1..w |-> s[i]]
  BY <1>1, <1>2, <1>4
<1>7. SamplesOf(f) = [i \in 1..w |-> f[i * SampleBytes]]
  BY DEF SamplesOf, w
<1>8. SamplesOf(f) = SubSeq(s, 1, w)
  BY <1>5, <1>6, <1>7
<1>9. w \in 0..Len(s)
  BY <1>1, <1>2, <1>4
<1> QED BY <1>8, <1>9 DEF w

\* The state as StoredIsPrefix needs it.
LEMMA Files ==
  Inv /\ FileInv =>
    /\ file \in Seq(Int) /\ accepted \in Seq(Int)
    /\ Len(file) \in Nat /\ Len(accepted) \in Nat
    /\ Stream(accepted, file, 0) /\ Len(file) <= SampleBytes * Len(accepted)
BY DiskTypes DEF FileInv

LEMMA StoredView ==
  /\ WholeSamples = WholeOf(file) /\ WholeSamples' = WholeOf(file')
  /\ StoredSamples = SamplesOf(file) /\ StoredSamples' = SamplesOf(file')
BY DEF WholeSamples, StoredSamples, WholeOf, SamplesOf

\* A step that touches none of what IqCapture sees.
LEMMA Unseen ==
  ASSUME Phase' = Phase, Offered' = Offered,
         UNCHANGED <<accepted, m_ring_dropped, file, m_write_error>>
  PROVE  UNCHANGED Capture!vars
BY DEF Capture!vars, StoredSamples, WholeSamples

\* A write stores more of what was accepted, or nothing yet, or it fails.
LEMMA WriteMapped ==
  ASSUME NEW f \in Seq(Int), f = file', NEW e \in BOOLEAN, e = m_write_error',
         Inv, FileInv, Stream(accepted, f, 0), Len(f) <= SampleBytes * Len(accepted),
         ~m_write_error, e \/ Len(file) <= Len(f),
         Phase # "idle", Phase' = Phase, Offered' = Offered,
         UNCHANGED <<accepted, m_ring_dropped>>
  PROVE  [Capture!Next]_(Capture!vars)
<1>0. /\ file \in Seq(Int) /\ accepted \in Seq(Int)
      /\ Len(file) \in Nat /\ Len(accepted) \in Nat /\ Len(f) \in Nat
      /\ Stream(accepted, file, 0) /\ Len(file) <= SampleBytes * Len(accepted)
  BY Files, LenProperties
<1>1. /\ WholeOf(file) \in 0..Len(accepted)
      /\ StoredSamples = SubSeq(accepted, 1, WholeOf(file))
  BY <1>0, StoredIsPrefix, StoredView
<1>2. /\ WholeOf(f) \in 0..Len(accepted)
      /\ StoredSamples' = SubSeq(accepted, 1, WholeOf(f))
  BY <1>0, StoredIsPrefix, StoredView
<1>3. StoredSamples' \in Capture!Prefixes(accepted)
  BY <1>2 DEF Capture!Prefixes
<1>4. CASE e
  <2>1. Capture!Fail
    BY <1>3, <1>4 DEF Capture!Fail
  <2> QED BY <2>1 DEF Capture!Next
<1>5. CASE ~e
  <2>0. m_write_error' = m_write_error
    BY <1>5, DiskTypes
  <2>1. WholeOf(file) <= WholeOf(f)
    BY <1>0, <1>5, WholeGrows DEF WholeOf
  <2>2. CASE WholeOf(file) = WholeOf(f)
    <3>1. StoredSamples' = StoredSamples
      BY <1>1, <1>2, <2>2
    <3> QED BY <2>0, <3>1 DEF Capture!vars
  <2>3. CASE WholeOf(file) # WholeOf(f)
    <3>1. WholeOf(file) < WholeOf(f)
      BY <1>1, <1>2, <2>1, <2>3
    <3>2. /\ Len(StoredSamples) = WholeOf(file)
          /\ Len(StoredSamples') = WholeOf(f)
      <4>1. \A n \in 0..Len(accepted) : Len(SubSeq(accepted, 1, n)) = n
        BY <1>0, SubSeqProperties
      <4> QED BY <1>1, <1>2, <4>1
    <3>3. Len(StoredSamples') > Len(StoredSamples)
      BY <1>1, <1>2, <3>1, <3>2
    <3>4. Capture!Store
      BY <1>3, <2>0, <3>3 DEF Capture!Store
    <3> QED BY <3>4 DEF Capture!Next
  <2> QED BY <2>2, <2>3
<1> QED BY <1>4, <1>5

\* A flush that leaves the file open lost nothing of it.
LEMMA FlushGrows ==
  ASSUME NEW onFile \in Seq(Int), NEW bytes \in Seq(Int),
         NEW result \in FlushResults(onFile, bytes), result.open
  PROVE  Len(onFile) <= Len(result.file)
<1> DEFINE all == onFile \o bytes
<1>1. Len(onFile) <= Len(all)
  BY ConcatProperties, LenProperties
<1>2. result = [open |-> TRUE, file |-> all]
  <2> HIDE DEF all
  <2>1. \A n \in 0..Len(all)-1 : [open |-> FALSE, file |-> SubSeq(all, 1, n)].open = FALSE
    OBVIOUS
  <2> QED BY <2>1, Zenon DEF FlushResults, all
<1> HIDE DEF all
<1> QED BY <1>1, <1>2

\* Every step of the logger is a step of IqCapture or a stutter.
LEMMA StartMapped ==
  ASSUME Inv, DiskInv, ArmInv, Start
  PROVE  [Capture!Next]_(Capture!vars)
<1>0. ControlInv /\ Phase = "idle" /\ Phase' \in {"idle", "open"}
  BY DEF Inv, Start, StartNoDirectory, StartNoFile, StartOpened, StartArm,
         ResetCapture, Phase
<1>1. CASE StartNoDirectory \/ StartNoFile \/ StartOpened
  <2>1. /\ main = "idle" /\ main' \in {"idle", "arm"} /\ producer' = producer
        /\ m_received_samples' = 0 /\ m_ring_dropped' = 0
        /\ m_write_error' = FALSE /\ accepted' = <<>> /\ file' = <<>>
    BY <1>1 DEF StartNoDirectory, StartNoFile, StartOpened, ResetCapture
  <2>2. ~PushInProgress'
    BY <1>0, <2>1 DEF ControlInv, PushInProgress
  <2>3. Offered' = 0 /\ Phase' = "idle"
    BY <2>1, <2>2 DEF Offered, Phase
  <2>4. StoredSamples' = <<>>
    <3>1. WholeOf(<<>>) = 0
      BY SampleBytesType, SMTT(10) DEF WholeOf
    <3>2. SamplesOf(<<>>) = <<>>
      BY <3>1 DEF SamplesOf
    <3> QED BY <2>1, <3>2, StoredView
  <2>5. Capture!Clear
    BY <1>0, <2>1, <2>3, <2>4 DEF Capture!Clear
  <2> QED BY <2>5 DEF Capture!Next
<1>2. CASE StartArm
  <2>1. /\ main = "arm" /\ main' = "capturing" /\ ~PushInProgress
        /\ UNCHANGED <<accepted, file, m_received_samples, m_ring_dropped,
                       m_write_error, producer, batch>>
    BY <1>2 DEF StartArm, MutexFree
  <2>2. /\ accepted = <<>> /\ file = <<>> /\ ~m_write_error
        /\ m_received_samples = 0 /\ m_ring_dropped = 0
    BY <2>1 DEF ArmInv
  <2>3. Offered = 0 /\ Offered' = 0 /\ Phase' = "open"
    BY <2>1, <2>2 DEF Offered, Phase, PushInProgress
  <2>4. StoredSamples = <<>> /\ StoredSamples' = StoredSamples
    <3>1. WholeOf(<<>>) = 0
      BY SampleBytesType, SMTT(10) DEF WholeOf
    <3>2. SamplesOf(<<>>) = <<>>
      BY <3>1 DEF SamplesOf
    <3> QED BY <2>1, <2>2, <3>2, StoredView
  <2>5. Capture!Open
    BY <1>0, <2>1, <2>2, <2>3, <2>4 DEF Capture!Open
  <2> QED BY <2>5 DEF Capture!Next
<1> QED BY <1>1, <1>2 DEF Start

LEMMA WriteSamplesMapped ==
  ASSUME Inv, DiskInv, ArmInv, WriteSamples
  PROVE  [Capture!Next]_(Capture!vars)
<1>0. /\ ControlInv /\ batch \in Nat /\ m_received_samples \in Nat
      /\ m_ring_dropped \in Nat
  BY DiskTypes DEF Inv
<1>1. CASE SeeCapturing \/ CopyFirst \/ CopyWrapped
  <2>1. UNCHANGED <<main, accepted, m_received_samples, m_ring_dropped, file,
                    m_write_error>>
    BY <1>1 DEF SeeCapturing, CopyFirst, CopyWrapped
  <2>2. Offered' = Offered
    BY <1>1 DEF SeeCapturing, CopyFirst, CopyWrapped, Offered, PushInProgress
  <2>3. Phase' = Phase
    BY <2>1 DEF Phase
  <2> QED BY <2>1, <2>2, <2>3, Unseen
<1>2. CASE EnterPush
  <2>0. /\ UNCHANGED <<main, accepted, file, m_write_error, batch>>
        /\ producer = "enter"
    BY <1>2 DEF EnterPush
  <2>1. Phase' = Phase
    BY <2>0 DEF Phase
  <2>2. StoredSamples' = StoredSamples
    BY <2>0, StoredView
  <2>3. CASE ~m_capturing
    <3>1. UNCHANGED <<m_received_samples, m_ring_dropped>> /\ producer' = "idle"
      BY <1>2, <2>3 DEF EnterPush, StillCapturing
    <3>2. Offered' = Offered
      BY <2>0, <3>1 DEF Offered, PushInProgress
    <3> QED BY <2>0, <2>1, <3>1, <3>2, Unseen
  <2>4. CASE m_capturing /\ RingHasRoom
    <3>1. /\ m_received_samples' = m_received_samples + batch
          /\ producer' = "copy" /\ UNCHANGED m_ring_dropped
      BY <1>2, <2>4 DEF EnterPush, StillCapturing
    <3>2. Offered' = Offered
      BY <1>0, <2>0, <3>1 DEF Offered, PushInProgress
    <3> QED BY <2>0, <2>1, <3>1, <3>2, Unseen
  <2>5. CASE m_capturing /\ ~RingHasRoom
    <3>1. /\ m_received_samples' = m_received_samples + batch
          /\ m_ring_dropped' = m_ring_dropped + batch /\ producer' = "idle"
      BY <1>2, <2>5 DEF EnterPush, StillCapturing
    <3>2. Offered' = Offered + batch
      BY <1>0, <2>0, <3>1 DEF Offered, PushInProgress
    <3>3. Phase = "open"
      BY <1>0, <2>5 DEF ControlInv, Phase
    <3>4. batch \in BatchSizes
      BY <2>0 DEF ArmInv
    <3>5. Capture!Lose(batch)
      BY <2>0, <2>1, <2>2, <3>1, <3>2, <3>3 DEF Capture!Lose
    <3> QED BY <3>4, <3>5 DEF Capture!Next
  <2> QED BY <2>3, <2>4, <2>5
<1>3. CASE Publish
  <2>1. /\ producer = "publish" /\ producer' = "idle"
        /\ accepted' = accepted \o [k \in 1..batch |-> BatchSample(k - 1)]
        /\ UNCHANGED <<main, file, m_write_error, m_received_samples,
                       m_ring_dropped, batch>>
    BY <1>3 DEF Publish
  <2>2. main = "capturing"
    BY <1>0, <2>1 DEF ControlInv, PushInProgress
  <2>3. Phase = "open" /\ Phase' = "open"
    BY <2>1, <2>2 DEF Phase
  <2>4. Offered = m_received_samples - batch /\ Offered' = Offered + batch
    BY <1>0, <2>1 DEF Offered, PushInProgress
  <2>5. \A k \in 1..batch : BatchSample(k - 1) = Offered + k - 1
    BY <1>0, <2>4 DEF BatchSample
  <2>6. accepted' = accepted \o [k \in 1..batch |-> Offered + k - 1]
    BY <2>1, <2>5
  <2>7. StoredSamples' = StoredSamples
    BY <2>1, StoredView
  <2>8. batch \in BatchSizes
    BY <2>1 DEF ArmInv
  <2>9. Capture!Accept(batch)
    BY <2>1, <2>3, <2>4, <2>6, <2>7 DEF Capture!Accept
  <2> QED BY <2>8, <2>9 DEF Capture!Next
<1> QED BY <1>1, <1>2, <1>3 DEF WriteSamples

LEMMA WriterLoopMapped ==
  ASSUME Inv, DiskInv, ArmInv, WriterLoop, FileInv'
  PROVE  [Capture!Next]_(Capture!vars)
<1>0. /\ UNCHANGED <<main, producer, batch, accepted, m_received_samples,
                     m_ring_dropped>>
  BY DEF WriterLoop, ReadStop, ReadHead, FoundEmpty, BeginBlock, AppendSample,
         EndBlock
<1>1. Phase' = Phase /\ Offered' = Offered
  BY <1>0 DEF Phase, Offered, PushInProgress
<1>2. CASE ReadStop \/ ReadHead \/ FoundEmpty \/ BeginBlock \/ EndBlock
  <2>1. UNCHANGED <<file, m_write_error>>
    BY <1>2 DEF ReadStop, ReadHead, FoundEmpty, BeginBlock, EndBlock
  <2> QED BY <1>0, <1>1, <2>1, Unseen
<1>3. CASE AppendSample
  <2>1. m_data_file /\ writer = "write"
    BY <1>3 DEF AppendSample
  <2>2. FileInv
    BY DEF DiskInv
  <2>3. ~m_write_error
    BY <2>1, <2>2 DEF FileInv
  <2>4. Phase # "idle"
    <3>1. main # "arm" /\ main # "idle"
      BY <2>1, NoBlockInArm DEF Inv, ControlInv
    <3> QED BY <3>1 DEF Phase
  <2>5. file' \in Seq(Int) /\ m_write_error' \in BOOLEAN
    BY <1>3, AppendSampleType DEF Inv, FlagType, FileType
  <2>6. Stream(accepted, file', 0) /\ Len(file') <= SampleBytes * Len(accepted)
    BY <1>0 DEF FileInv
  <2>7. m_write_error' \/ Len(file) <= Len(file')
    <3>1. CASE file' = file
      BY <2>5, <3>1, DiskTypes
    <3>2. CASE file' # file
      <4> DEFINE bytes == BytesOf(<<m_ring[Slot(m_tail + done)]>>)
                 fits  == Minimum(SampleBytes, BufferBytes - Len(m_buffer))
                 full  == m_buffer \o SubSeq(bytes, 1, fits)
      <4> HIDE DEF bytes, fits, full
      <4>1. PICK flushed \in FlushResults(file, full) :
              /\ file' = flushed.file
              /\ m_write_error' = (m_write_error \/ ~flushed.open)
        BY <1>3, <3>2, Zenon DEF AppendSample, bytes, fits, full
      <4>2. full \in Seq(Int)
        <5>1. m_ring[Slot(m_tail + done)] \in Int
          BY <1>3, NextSample
        <5>2. bytes \in Seq(Int) /\ Len(bytes) = SampleBytes
          BY <5>1, OneSampleBytes DEF bytes
        <5>3. fits \in 1..SampleBytes
          <6>1. /\ Len(m_buffer) \in Nat /\ Len(m_buffer) < BufferBytes
                /\ SampleBytes \in Nat \ {0} /\ BufferBytes \in Nat
            BY DiskTypes, ConstantsAssumption
          <6> QED BY <6>1 DEF fits, Minimum
        <5>4. SubSeq(bytes, 1, fits) \in Seq(Int)
          BY <5>2, <5>3, SubSeqProperties
        <5> QED BY <5>4, DiskTypes, ConcatProperties DEF full
      <4>3. flushed.open => Len(file) <= Len(file')
        BY <4>1, <4>2, DiskTypes, FlushGrows
      <4> QED BY <4>1, <4>2, <4>3, FlushType, DiskTypes
    <3> QED BY <3>1, <3>2
  <2> QED BY <1>0, <1>1, <2>2, <2>3, <2>4, <2>5, <2>6, <2>7, WriteMapped
<1> QED BY <1>2, <1>3 DEF WriterLoop

LEMMA StopMapped ==
  ASSUME Inv, DiskInv, ArmInv, Stop, FileInv', Inv'
  PROVE  [Capture!Next]_(Capture!vars)
<1>0. /\ UNCHANGED <<producer, batch, accepted, m_received_samples,
                     m_ring_dropped>>
      /\ FileInv /\ ControlInv
  BY DEF Stop, StopCapture, SignalStop, CloseFile, Finalize, DiskInv, Inv
<1>1. Offered' = Offered
  BY <1>0 DEF Offered, PushInProgress
<1>2. CASE StopCapture
  <2>1. /\ Phase = "open" /\ Phase' = "stopping"
        /\ UNCHANGED <<file, m_write_error>>
    BY <1>2 DEF StopCapture, Phase
  <2>2. StoredSamples' = StoredSamples
    BY <2>1, StoredView
  <2>3. Capture!BeginStop
    BY <1>0, <1>1, <2>1, <2>2 DEF Capture!BeginStop
  <2> QED BY <2>3 DEF Capture!Next
<1>3. CASE SignalStop
  <2>1. Phase' = Phase /\ UNCHANGED <<file, m_write_error>>
    BY <1>3 DEF SignalStop, Phase
  <2> QED BY <1>0, <1>1, <2>1, Unseen
<1>4. CASE CloseFile
  <2>1. main = "join" /\ main' = "finalize" /\ Phase = "stopping" /\ Phase' = "stopping"
    BY <1>4 DEF CloseFile, Phase
  <2>2. m_data_file <=> ~m_write_error
    BY <1>0, <2>1 DEF FileInv
  <2>3. /\ m_data_file \in BOOLEAN /\ m_write_error \in BOOLEAN
        /\ m_write_error' \in BOOLEAN /\ file' \in Seq(Int)
        /\ file \in Seq(Int) /\ Len(file) \in Nat
    BY DiskTypes DEF Inv, TypeOK, FlagType, FileType
  <2>4. CASE m_write_error
    <3>1. LastFlush = {[open |-> m_data_file, file |-> file]} /\ ~m_data_file
      BY <2>2, <2>4 DEF LastFlush
    <3>2. PICK flushed \in LastFlush :
            \E closed \in IF flushed.open THEN CloseResults(flushed.file)
                          ELSE {[ok |-> ~m_data_file, file |-> flushed.file]} :
              /\ file' = closed.file
              /\ m_write_error' = (m_write_error \/ ~closed.ok)
      BY <1>4 DEF CloseFile
    <3>3. flushed.open = m_data_file /\ flushed.file = file
      BY <3>1, <3>2
    <3>4. PICK closed \in {[ok |-> ~m_data_file, file |-> flushed.file]} :
              /\ file' = closed.file
              /\ m_write_error' = (m_write_error \/ ~closed.ok)
      BY <3>1, <3>2, <3>3
    <3>5. closed.file = file
      BY <3>3, <3>4
    <3>6. UNCHANGED <<file, m_write_error>>
      BY <2>3, <2>4, <3>4, <3>5
    <3> QED BY <1>0, <1>1, <2>1, <3>6, Unseen
  <2>5. CASE ~m_write_error
    <3>1. /\ Stream(accepted, file', 0) /\ Len(file') <= SampleBytes * Len(accepted)
          /\ m_write_error' \/ Len(file') = SampleBytes * Len(accepted)
      BY <1>0, <2>1 DEF FileInv
    <3>2. Len(file) <= SampleBytes * Len(accepted)
      BY <1>0 DEF FileInv
    <3>3. m_write_error' \/ Len(file) <= Len(file')
      BY <3>1, <3>2
    <3> QED BY <1>0, <1>1, <2>1, <2>3, <2>5, <3>1, <3>3, WriteMapped
  <2> QED BY <2>3, <2>4, <2>5
<1>5. CASE Finalize
  <2>1. /\ main = "finalize" /\ Phase = "stopping" /\ Phase' = "idle"
        /\ m_write_error' = m_write_error
        /\ file' \in CutFile \/ file' = file
    BY <1>5 DEF Finalize, Phase
  <2>2. /\ file \in Seq(Int) /\ accepted \in Seq(Int) /\ file' \in Seq(Int)
        /\ Len(file) \in Nat /\ Len(accepted) \in Nat
        /\ Stream(accepted, file, 0) /\ Len(file) <= SampleBytes * Len(accepted)
        /\ m_write_error \/ Len(file) = SampleBytes * Len(accepted)
    BY <1>0, <2>1, Files DEF FileInv, Inv, TypeOK, FileType
  <2>3. Stream(accepted, file', 0) /\ Len(file') <= SampleBytes * Len(accepted)
    BY <1>0 DEF FileInv
  <2>4. WholeOf(file') = WholeOf(file)
    <3>1. CASE file' = file
      BY <3>1
    <3>2. CASE file' = SubSeq(file, 1, SampleBytes * WholeSamples)
      <4> DEFINE cut == SampleBytes * WholeSamples
      <4>1. WholeSamples \in Nat /\ cut \in 0..Len(file)
        BY WholeSamplesType DEF Inv
      <4>2. cut \div SampleBytes = WholeSamples
        BY <4>1, WholeOfBytes
      <4> HIDE DEF cut
      <4>3. Len(SubSeq(file, 1, cut)) = cut
        BY <2>2, <4>1, StreamPrefix
      <4>4. Len(file') = cut
        BY <3>2, <4>3 DEF cut
      <4> QED BY <4>2, <4>4, StoredView DEF WholeOf
    <3> QED BY <2>1, <3>1, <3>2 DEF CutFile
  <2>5. StoredSamples' = StoredSamples
        /\ StoredSamples = SubSeq(accepted, 1, WholeOf(file))
    BY <2>2, <2>3, <2>4, StoredIsPrefix, StoredView
  <2>6. m_write_error \/ StoredSamples = accepted
    <3>1. CASE Len(file) = SampleBytes * Len(accepted)
      <4>1. WholeOf(file) = Len(accepted)
        BY <2>2, <3>1, WholeOfBytes DEF WholeOf
      <4>2. SubSeq(accepted, 1, Len(accepted)) = accepted
        BY <2>2
      <4> QED BY <2>5, <4>1, <4>2
    <3> QED BY <2>2, <3>1
  <2>7. Capture!Close
    BY <1>0, <1>1, <2>1, <2>5, <2>6 DEF Capture!Close
  <2> QED BY <2>7 DEF Capture!Next
<1> QED BY <1>2, <1>3, <1>4, <1>5 DEF Stop

\* The logger implements the abstract capture: every batch is accepted or lost
\* as a whole, what is stored is always the beginning of what was accepted, and
\* a capture closes without a failure only when everything accepted is stored.
\* (That a stop ends, the fairness of ImplementsIqCapture, is left to TLC.)
THEOREM LoggerImplementsCapture == Spec => Capture!Spec
<1>1. Init => Capture!Init
  <2> SUFFICES ASSUME Init PROVE Capture!Init
    OBVIOUS
  <2>1. Phase = "idle" /\ Offered = 0
    BY DEF Init, Phase, Offered, PushInProgress
  <2>2. WholeOf(<<>>) = 0
    BY SampleBytesType, SMTT(10) DEF WholeOf
  <2>3. SamplesOf(<<>>) = <<>>
    BY <2>2 DEF SamplesOf
  <2>4. StoredSamples = <<>>
    BY <2>3, StoredView DEF Init
  <2> QED BY <2>1, <2>4 DEF Init, Capture!Init
<1>2. Inv /\ DiskInv /\ ArmInv /\ [Next]_vars => [Capture!Next]_(Capture!vars)
  <2> SUFFICES ASSUME Inv, DiskInv, ArmInv, [Next]_vars
               PROVE  [Capture!Next]_(Capture!vars)
    OBVIOUS
  <2>1. FileInv' /\ Inv'
    BY InvStep, FileStep DEF DiskInv
  <2>2. CASE Exhausted \/ UNCHANGED vars
    <3>1. UNCHANGED <<main, producer, batch, m_received_samples, accepted,
                      m_ring_dropped, file, m_write_error>>
      BY <2>2 DEF Exhausted, vars
    <3>2. Phase' = Phase /\ Offered' = Offered
      BY <3>1 DEF Phase, Offered, PushInProgress
    <3> QED BY <3>1, <3>2, Unseen
  <2> QED BY <2>1, <2>2, StartMapped, WriteSamplesMapped, WriterLoopMapped,
             StopMapped DEF Next
<1> QED BY <1>1, <1>2, ArmInvariance, PTL DEF Spec, Capture!Spec
=============================================================================
