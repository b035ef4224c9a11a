--------------------------- MODULE Spectrum_proofs ----------------------------
(***************************************************************************)
(* Proofs about the spectrum pane, for every set of FFT sizes and of       *)
(* levels, pane width, stride, margins and decay: the traces hold exactly  *)
(* the frames since they were last cleared, the range keeps bursts in      *)
(* view, and what is laid over a trace presented again belongs to it.      *)
(***************************************************************************)
EXTENDS Spectrum, DataFacts, SequenceTheorems

Frames == UNION {TupleOf(Levels, n) : n \in Sizes}

TypeInv ==
  /\ step \in {"keys", "display", "frame"}
  /\ max_hold \in BOOLEAN /\ averaging \in BOOLEAN /\ trace_reset \in BOOLEAN
  /\ m_max_hold_enabled \in BOOLEAN /\ m_avg_enabled \in BOOLEAN
  /\ changed \in BOOLEAN
  /\ fft_size \in Sizes

\* The display holds the newest frame.
ShownInv ==
  /\ shown \in Seq(Frames)
  /\ hold_from \in 0..Len(shown) /\ avg_from \in 0..Len(shown)
  /\ m_spectrum_data = IF shown = <<>> THEN <<>> ELSE Last(shown)

\* A trace that is switched off holds nothing.
HoldInv ==
  m_max_hold_data = IF m_max_hold_enabled THEN PeakSince(shown, hold_from) ELSE <<>>
AvgInv ==
  m_avg_data = IF m_avg_enabled THEN AverageSince(shown, avg_from) ELSE <<>>

\* The top has fallen by the decay at most since each frame shown.
RangeInv ==
  /\ m_top_db \in Int
  /\ m_range[1] \in Int /\ m_range[2] \in Int /\ m_range[1] < m_range[2]
  /\ shown # <<>> => m_range[2] = m_top_db
  /\ \A k \in 1..Len(shown) : \A bin \in DOMAIN shown[k] :
       shown[k][bin] + Headroom <= m_top_db + (Len(shown) - k) * TopDecay

\* The trace last built is still that of the display's frame and range; its
\* bars are those under the cursor unless the average was cleared since.
OverlayInv ==
  /\ step # "keys" => picture = {}
  /\ step = "frame" => m_max_hold_enabled = max_hold /\ m_avg_enabled = averaging
  /\ spec_verts # {} => shown # <<>>
  /\ \A trace \in spec_verts :
       /\ spec_verts = {trace} /\ trace.range = m_range
       /\ ~changed => trace.bars = Sample
  /\ OverlaysFitTrace

SpectrumInv ==
  TypeInv /\ ShownInv /\ HoldInv /\ AvgInv /\ RangeInv /\ OverlayInv

LEMMA SetTypes ==
  Sizes # {} /\ Sizes \subseteq Nat \ {0} /\ Levels \subseteq Int
  BY SpectrumAssumption

LEMMA Constants ==
  /\ MedianStride \in Nat \ {0} /\ Headroom \in Nat \ {0}
  /\ FloorMargin \in Nat /\ TopDecay \in Nat \ {0}
  BY SpectrumAssumption

-----------------------------------------------------------------------------
(* Frames, their peak and their median.                                    *)

\* A function on 1..n has n entries.
LEMMA LenOf ==
  ASSUME NEW n \in Nat, NEW f, NEW S, f \in [1..n -> S]
  PROVE  f \in Seq(S) /\ Len(f) = n
<1>1. f \in Seq(S)
  BY SeqDef
<1>2. Len(f) \in Nat /\ 1..Len(f) = 1..n
  BY <1>1, LenProperties
<1> QED BY <1>1, <1>2

LEMMA FrameFacts ==
  ASSUME NEW frame \in Frames
  PROVE  /\ Len(frame) \in Nat \ {0} /\ DOMAIN frame = 1..Len(frame)
         /\ frame \in [1..Len(frame) -> Levels]
         /\ \A bin \in DOMAIN frame : frame[bin] \in Int
<1>1. PICK n \in Sizes : frame \in [1..n -> Levels]
  BY DEF Frames, TupleOf
<1>2. n \in Nat \ {0}
  BY SetTypes
<1>3. Len(frame) = n
  BY <1>1, <1>2, LenOf
<1> QED BY <1>1, <1>2, <1>3, SetTypes

LEMMA ToSetFacts ==
  ASSUME NEW frame \in Frames
  PROVE  /\ ToSet(frame) # {} /\ ToSet(frame) \subseteq Int
         /\ IsFiniteSet(ToSet(frame))
<1>1. ToSet(frame) # {} /\ ToSet(frame) \subseteq Int
  BY FrameFacts DEF ToSet
<1>2. IsFiniteSet(DOMAIN frame)
  <2>1. DOMAIN frame = 1..Len(frame) /\ Len(frame) \in Int
    BY FrameFacts
  <2> QED BY <2>1, FS_Interval
<1>3. IsFiniteSet({frame[bin] : bin \in DOMAIN frame})
  BY <1>2, ImageIsFinite
<1> QED BY <1>1, <1>3 DEF ToSet

LEMMA PeakOfFrame ==
  ASSUME NEW frame \in Frames
  PROVE  /\ Max(ToSet(frame)) \in Int
         /\ \A bin \in DOMAIN frame : frame[bin] <= Max(ToSet(frame))
<1>1. /\ Max(ToSet(frame)) \in ToSet(frame)
      /\ \A level \in ToSet(frame) : Max(ToSet(frame)) >= level
  BY ToSetFacts, MaxOf
<1>2. Max(ToSet(frame)) \in Int
  BY <1>1, ToSetFacts
<1>3. ASSUME NEW bin \in DOMAIN frame PROVE frame[bin] <= Max(ToSet(frame))
  <2>1. frame[bin] \in ToSet(frame)
    BY DEF ToSet
  <2> QED BY <1>1, <1>2, <2>1, FrameFacts
<1> QED BY <1>2, <1>3

\* The median of the strided bins is there, one of the frame's own levels.
LEMMA MedianIsLevel ==
  ASSUME NEW frame \in Frames
  PROVE  MedianLevel(frame) \in ToSet(frame)
<1> DEFINE bins == Strided(frame)
           middle == Cardinality(bins) \div 2
           Below(level) == {b \in bins : frame[b] < level}
           UpTo(level) == {b \in bins : frame[b] <= level}
           Enough == {level \in ToSet(frame) : Cardinality(UpTo(level)) > middle}
<1>1. /\ \A b \in bins : b \in DOMAIN frame /\ frame[b] \in Int
      /\ \A b \in bins : frame[b] \in ToSet(frame)
  BY FrameFacts DEF Strided, ToSet
<1>2. IsFiniteSet(bins) /\ 1 \in bins
  <2>1. IsFiniteSet(DOMAIN frame)
    BY FrameFacts, FS_Interval
  <2>2. bins \in SUBSET (DOMAIN frame)
    BY DEF Strided
  <2>3. (1 - 1) % MedianStride = 0
    BY SlotUnique, Constants
  <2>4. 1 \in DOMAIN frame
    BY FrameFacts
  <2> QED BY <2>1, <2>2, <2>3, <2>4, FS_Subset DEF Strided
<1>3. Cardinality(bins) \in Nat /\ Cardinality(bins) > 0
  BY <1>2, FS_CardinalityType, FS_EmptySet
<1>4. middle \in Nat /\ middle < Cardinality(bins)
  BY <1>3
<1>5. ASSUME NEW T \in SUBSET bins
      PROVE  IsFiniteSet(T) /\ Cardinality(T) \in Nat
  BY <1>2, FS_Subset, FS_CardinalityType
<1>6. Enough # {} /\ IsFiniteSet(Enough) /\ Enough \subseteq Int
  <2>1. UpTo(Max(ToSet(frame))) = bins
    BY <1>1, PeakOfFrame
  <2>2. Max(ToSet(frame)) \in ToSet(frame)
    BY ToSetFacts, MaxOf
  <2>3. Max(ToSet(frame)) \in Enough
    BY <1>4, <2>1, <2>2
  <2>4. Enough \in SUBSET ToSet(frame)
    OBVIOUS
  <2> QED BY <2>3, <2>4, ToSetFacts, FS_Subset
<1> DEFINE least == Min(Enough)
<1>7. /\ least \in ToSet(frame) /\ Cardinality(UpTo(least)) > middle
      /\ \A level \in Enough : least <= level
  <2>1. least \in Enough /\ \A level \in Enough : least <= level
    <3> HIDE DEF Enough
    <3> QED BY <1>6, MinOf
  <2> QED BY <2>1
<1>8. Cardinality(Below(least)) <= middle
  <2> SUFFICES ASSUME Cardinality(Below(least)) > middle PROVE FALSE
    <3>1. Below(least) \in SUBSET bins
      OBVIOUS
    <3>2. Cardinality(Below(least)) \in Nat
      <4> HIDE DEF Below
      <4> QED BY <3>1, <1>5
    <3> QED BY <3>2, <1>4
  <2> DEFINE below == Below(least)
             values == {frame[b] : b \in below}
  <2>1. below \in SUBSET bins /\ IsFiniteSet(below) /\ below # {}
    <3>1. below \in SUBSET bins
      OBVIOUS
    <3>2. Cardinality(below) > middle
      OBVIOUS
    <3>3. below # {}
      <4> HIDE DEF below
      <4> QED BY <3>2, <1>4, FS_EmptySet
    <3> HIDE DEF below
    <3> QED BY <3>1, <3>3, <1>5
  <2>2. values # {} /\ values \subseteq Int /\ IsFiniteSet(values)
    <3>1. values # {} /\ values \subseteq Int
      BY <1>1, <2>1
    <3>2. IsFiniteSet(values)
      <4> HIDE DEF below
      <4> QED BY <2>1, ImageIsFinite
    <3> QED BY <3>1, <3>2
  <2>3. Max(values) \in values /\ \A v \in values : Max(values) >= v
    <3> HIDE DEF values
    <3> QED BY <2>2, MaxOf
  <2>4. PICK top \in below : /\ frame[top] = Max(values)
                             /\ \A b \in below : frame[top] >= frame[b]
    BY <2>3
  <2>5. below \subseteq UpTo(frame[top]) /\ UpTo(frame[top]) \in SUBSET bins
    BY <1>1, <2>4
  <2>6. Cardinality(below) <= Cardinality(UpTo(frame[top]))
    <3> HIDE DEF below, UpTo
    <3> QED BY <1>5, <2>5, FS_Subset
  <2>7. Cardinality(UpTo(frame[top])) > middle
    BY <1>4, <1>5, <2>1, <2>5, <2>6
  <2>8. frame[top] \in Enough
    BY <1>1, <2>1, <2>7
  <2>9. least <= frame[top]
    BY <1>7, <2>8
  <2>10. frame[top] < least /\ frame[top] \in Int
    BY <1>1
  <2>11. least \in Int
    BY <1>7, ToSetFacts
  <2> QED BY <2>9, <2>10, <2>11
<1>9. \E level \in ToSet(frame) :
         /\ Cardinality(Below(level)) <= middle
         /\ Cardinality(UpTo(level)) > middle
  BY <1>7, <1>8
<1> QED BY <1>9 DEF MedianLevel

\* The range update_spectrum() sets is never empty, and every bin is below it
\* by the headroom.
LEMMA RangeOfFrame ==
  ASSUME NEW frame \in Frames, m_top_db \in Int
  PROVE  /\ Top(frame) \in Int
         /\ Top(frame) >= m_top_db - TopDecay
         /\ \A bin \in DOMAIN frame : frame[bin] + Headroom <= Top(frame)
         /\ MedianLevel(frame) - FloorMargin \in Int
         /\ MedianLevel(frame) - FloorMargin < Top(frame)
<1> DEFINE peak == Max(ToSet(frame))
           tops == {peak + Headroom, m_top_db - TopDecay}
<1>1. peak \in Int /\ \A bin \in DOMAIN frame : frame[bin] <= peak
  BY PeakOfFrame
<1>2. tops # {} /\ tops \subseteq Int /\ IsFiniteSet(tops)
  <2>1. IsFiniteSet({peak + Headroom}) /\ tops = {peak + Headroom} \cup {m_top_db - TopDecay}
    BY FS_Singleton
  <2>2. IsFiniteSet(tops)
    BY <2>1, FS_AddElement
  <2>3. peak + Headroom \in Int /\ m_top_db - TopDecay \in Int
    BY <1>1, Constants
  <2> QED BY <2>2, <2>3
<1>3. Top(frame) \in tops /\ \A t \in tops : Top(frame) >= t
  <2>1. Top(frame) = Max(tops)
    BY DEF Top
  <2> HIDE DEF tops
  <2> QED BY <1>2, <2>1, MaxOf
<1>4. /\ Top(frame) \in Int /\ Top(frame) >= peak + Headroom
      /\ Top(frame) >= m_top_db - TopDecay
  BY <1>2, <1>3
<1>5. MedianLevel(frame) \in Int /\ MedianLevel(frame) <= peak
  <2>1. PICK bin \in DOMAIN frame : MedianLevel(frame) = frame[bin]
    BY MedianIsLevel DEF ToSet
  <2> QED BY <1>1, <2>1, FrameFacts
<1>6. ASSUME NEW bin \in DOMAIN frame PROVE frame[bin] + Headroom <= Top(frame)
  BY <1>1, <1>4, FrameFacts, Constants
<1> HIDE DEF peak
<1> QED BY <1>1, <1>4, <1>5, <1>6, Constants

-----------------------------------------------------------------------------
(* What the traces are to hold, with one more frame.                       *)

LEMMA AppendFrame ==
  ASSUME NEW frames \in Seq(Frames), NEW frame \in Frames
  PROVE  /\ Append(frames, frame) \in Seq(Frames)
         /\ Len(frames) \in Nat
         /\ Len(Append(frames, frame)) = Len(frames) + 1
         /\ Last(Append(frames, frame)) = frame
         /\ Append(frames, frame)[Len(frames) + 1] = frame
         /\ \A k \in 1..Len(frames) :
              Append(frames, frame)[k] = frames[k] /\ frames[k] \in Frames
  BY LenProperties, ElementOfSeq, AppendProperties DEF Last

\* The run ends with the last frame.
LEMMA RunIsTail ==
  ASSUME NEW frames \in Seq(Frames), NEW from \in 0..Len(frames)
  PROVE  IF from = Len(frames) THEN RunSince(frames, from) = {}
         ELSE \E first \in from+1..Len(frames) :
                 RunSince(frames, from) = first..Len(frames)
<1> DEFINE n == Len(frames)
           run == RunSince(frames, from)
<1>1. n \in Nat /\ from \in 0..n
  BY LenProperties
<1>2. CASE from = n
  <2>1. run = {}
    BY <1>1, <1>2 DEF RunSince
  <2> QED BY <1>2, <2>1
<1>3. CASE from # n
  <2>1. n \in run
    BY <1>1, <1>3 DEF RunSince, Last
  <2>2. run \subseteq Int /\ IsFiniteSet(run) /\ run \in SUBSET (from+1..n)
    <3>1. run \in SUBSET (from+1..n)
      BY DEF RunSince
    <3>2. IsFiniteSet(from+1..n)
      BY <1>1, FS_Interval
    <3>3. IsFiniteSet(run)
      <4> HIDE DEF run
      <4> QED BY <3>1, <3>2, FS_Subset
    <3> QED BY <1>1, <3>1, <3>3
  <2>3. Min(run) \in run /\ \A k \in run : Min(run) <= k
    <3> HIDE DEF run
    <3> QED BY <2>1, <2>2, MinOf
  <2>4. PICK first \in from+1..n : first \in run /\ \A k \in run : first <= k
    BY <2>2, <2>3
  <2>5. ASSUME NEW k \in first..n PROVE k \in run
    <3>1. \A j \in first..n : Len(frames[j]) = Len(Last(frames))
      BY <2>4 DEF RunSince
    <3> QED BY <1>1, <2>4, <3>1 DEF RunSince
  <2>6. ASSUME NEW k \in run PROVE k \in first..n
    <3>1. k \in from+1..n
      BY DEF RunSince
    <3> QED BY <1>1, <2>4, <3>1
  <2>7. run = first..n
    <3> HIDE DEF run
    <3> QED BY <2>5, <2>6
  <2> QED BY <1>3, <2>7
<1> QED BY <1>2, <1>3

\* A frame of another size ends the run; it is always in the next.
LEMMA RunGrows ==
  ASSUME NEW frames \in Seq(Frames), NEW frame \in Frames,
         NEW from \in 0..Len(frames)
  PROVE  RunSince(Append(frames, frame), from)
           = {Len(frames) + 1} \cup
             (IF Len(frames) # 0 /\ Len(Last(frames)) = Len(frame)
              THEN RunSince(frames, from) ELSE {})
<1> DEFINE n == Len(frames)
           longer == Append(frames, frame)
<1>1. /\ n \in Nat /\ Len(longer) = n + 1 /\ Last(longer) = frame
      /\ longer[n + 1] = frame
      /\ \A k \in 1..n : longer[k] = frames[k]
  BY AppendFrame
<1>2. from \in Nat /\ from <= n
  BY <1>1
<1>3. RunSince(longer, from) =
        {k \in from+1..n+1 : \A j \in k..n+1 : Len(longer[j]) = Len(frame)}
  BY <1>1 DEF RunSince
<1>4. RunSince(frames, from) =
        {k \in from+1..n : \A j \in k..n : Len(frames[j]) = Len(Last(frames))}
  BY DEF RunSince
<1>5. n + 1 \in RunSince(longer, from)
  BY <1>1, <1>2, <1>3
<1>6. ASSUME NEW k \in from+1..n
      PROVE  k \in RunSince(longer, from)
               <=> n # 0 /\ Len(Last(frames)) = Len(frame)
                     /\ k \in RunSince(frames, from)
  <2>1. /\ k \in 1..n /\ n \in k..n /\ n # 0 /\ n \in k..n+1 /\ k \in from+1..n+1
        /\ longer[n] = Last(frames)
    BY <1>1, <1>2 DEF Last
  <2>2. ASSUME \A j \in k..n+1 : Len(longer[j]) = Len(frame)
        PROVE  /\ Len(Last(frames)) = Len(frame)
               /\ \A j \in k..n : Len(frames[j]) = Len(Last(frames))
    <3>1. Len(Last(frames)) = Len(frame)
      BY <2>1, <2>2
    <3>2. ASSUME NEW j \in k..n PROVE Len(frames[j]) = Len(Last(frames))
      <4>1. j \in k..n+1 /\ j \in 1..n
        BY <1>1, <1>2
      <4> QED BY <1>1, <2>2, <3>1, <4>1
    <3> QED BY <3>1, <3>2
  <2>3. ASSUME Len(Last(frames)) = Len(frame),
               \A j \in k..n : Len(frames[j]) = Len(Last(frames)),
               NEW j \in k..n+1
        PROVE  Len(longer[j]) = Len(frame)
    <3>1. CASE j = n + 1
      BY <1>1, <3>1
    <3>2. CASE j # n + 1
      <4>1. j \in k..n /\ j \in 1..n
        BY <1>1, <1>2, <3>2
      <4> QED BY <1>1, <2>3, <4>1
    <3> QED BY <3>1, <3>2
  <2> HIDE DEF n, longer
  <2> QED BY <1>3, <1>4, <2>1, <2>2, <2>3
<1>7. \A k \in RunSince(longer, from) : k = n + 1 \/ k \in from+1..n
  BY <1>1, <1>2, <1>3
<1>8. RunSince(frames, from) \in SUBSET (from+1..n)
  BY <1>4
<1> HIDE DEF n, longer
<1>9. RunSince(longer, from)
        = {n + 1} \cup (IF n # 0 /\ Len(Last(frames)) = Len(frame)
                        THEN RunSince(frames, from) ELSE {})
  <2>1. CASE n # 0 /\ Len(Last(frames)) = Len(frame)
    BY <2>1, <1>5, <1>6, <1>7, <1>8
  <2>2. CASE ~(n # 0 /\ Len(Last(frames)) = Len(frame))
    BY <2>2, <1>5, <1>6, <1>7
  <2> QED BY <2>1, <2>2
<1> QED BY <1>9 DEF n, longer

\* The levels of one bin in a run have a peak.
LEMMA LevelsOfRun ==
  ASSUME NEW frames \in Seq(Frames), NEW from \in 0..Len(frames),
         from # Len(frames), NEW bin \in DOMAIN Last(frames)
  PROVE  LET levels == {frames[k][bin] : k \in RunSince(frames, from)}
         IN  /\ levels # {} /\ levels \subseteq Int /\ IsFiniteSet(levels)
             /\ Max(levels) \in Int
<1> DEFINE run == RunSince(frames, from)
           levels == {frames[k][bin] : k \in run}
<1>1. PICK first \in from+1..Len(frames) : run = first..Len(frames)
  BY RunIsTail
<1>2. Len(frames) \in Nat /\ first \in 1..Len(frames)
  BY LenProperties
<1>3. ASSUME NEW k \in run PROVE frames[k][bin] \in Int
  <2>1. k \in 1..Len(frames) /\ Len(frames[k]) = Len(Last(frames))
    <3>1. k \in k..Len(frames)
      BY <1>1, <1>2
    <3> QED BY <1>1, <1>2, <3>1 DEF RunSince
  <2>2. frames[k] \in Frames /\ Last(frames) \in Frames
    BY <1>2, <2>1, ElementOfSeq DEF Last
  <2>3. DOMAIN frames[k] = DOMAIN Last(frames)
    BY <2>1, <2>2, FrameFacts
  <2> QED BY <2>2, <2>3, FrameFacts
<1>4. levels # {} /\ levels \subseteq Int
  BY <1>1, <1>2, <1>3
<1>5. IsFiniteSet(levels)
  <2>1. IsFiniteSet(run)
    BY <1>1, <1>2, FS_Interval
  <2> DEFINE f == [k \in run |-> frames[k][bin]]
  <2>2. levels = {f[k] : k \in run}
    OBVIOUS
  <2> HIDE DEF run, f
  <2>3. IsFiniteSet({f[k] : k \in run})
    BY <2>1, ImageIsFinite
  <2> QED BY <2>2, <2>3
<1>6. Max(levels) \in Int
  <2> HIDE DEF levels
  <2> QED BY <1>4, <1>5, MaxOf
<1> QED BY <1>4, <1>5, <1>6

\* What the held peak is to be, bin by bin.
LEMMA PeakForm ==
  ASSUME NEW frames \in Seq(Frames), NEW from \in 0..Len(frames)
  PROVE  /\ from = Len(frames) => PeakSince(frames, from) = <<>>
         /\ from # Len(frames) =>
              /\ Last(frames) \in Frames
              /\ Len(PeakSince(frames, from)) = Len(Last(frames))
              /\ PeakSince(frames, from) =
                   [bin \in DOMAIN Last(frames) |->
                      Max({frames[k][bin] : k \in RunSince(frames, from)})]
<1>1. CASE from = Len(frames)
  BY <1>1, RunIsTail DEF PeakSince
<1>2. CASE from # Len(frames)
  <2> DEFINE peak == [bin \in DOMAIN Last(frames) |->
                        Max({frames[k][bin] : k \in RunSince(frames, from)})]
  <2>1. PICK first \in from+1..Len(frames) : RunSince(frames, from) = first..Len(frames)
    BY <1>2, RunIsTail
  <2>2. Len(frames) \in Nat /\ RunSince(frames, from) # {}
    BY <2>1, LenProperties
  <2>3. Last(frames) \in Frames
    BY <2>1, <2>2, ElementOfSeq DEF Last
  <2>4. PeakSince(frames, from) = peak
    BY <2>2 DEF PeakSince
  <2>5. Len(peak) = Len(Last(frames))
    <3>1. \A bin \in DOMAIN Last(frames) :
            Max({frames[k][bin] : k \in RunSince(frames, from)}) \in Int
      BY <1>2, LevelsOfRun
    <3>2. DOMAIN Last(frames) = 1..Len(Last(frames)) /\ Len(Last(frames)) \in Nat
      BY <2>3, FrameFacts
    <3>3. peak \in [1..Len(Last(frames)) -> Int]
      BY <3>1, <3>2
    <3> HIDE DEF peak
    <3> QED BY <3>2, <3>3, LenOf
  <2> QED BY <1>2, <2>3, <2>4, <2>5
<1> QED BY <1>1, <1>2

\* The greater of a peak and one more level.
LEMMA PeakOfMore ==
  ASSUME NEW S, S # {}, S \subseteq Int, IsFiniteSet(S), NEW x \in Int
  PROVE  Max({Max(S), x}) = Max({x} \cup S)
<1>1. Max(S) \in S /\ \A y \in S : Max(S) >= y
  BY MaxOf
<1>2. PICK m \in Int : m = Max(S) /\ m \in S /\ \A y \in S : m >= y
  BY <1>1
<1>3. CASE x >= m
  <2>1. Max({m, x}) = x
    <3>1. {m, x} \subseteq Int /\ x \in {m, x} /\ \A y \in {m, x} : x >= y
      BY <1>3
    <3> QED BY ONLY <3>1, MaxIs
  <2>2. Max({x} \cup S) = x
    <3>1. \A y \in S : x >= y
      BY <1>2, <1>3
    <3>2. {x} \cup S \subseteq Int /\ x \in {x} \cup S /\ \A y \in {x} \cup S : x >= y
      BY <3>1
    <3> QED BY ONLY <3>2, MaxIs
  <2> QED BY <1>2, <2>1, <2>2
<1>4. CASE ~(x >= m)
  <2>1. Max({m, x}) = m
    <3>1. {m, x} \subseteq Int /\ m \in {m, x} /\ \A y \in {m, x} : m >= y
      BY <1>4
    <3> QED BY ONLY <3>1, MaxIs
  <2>2. Max({x} \cup S) = m
    <3>1. {x} \cup S \subseteq Int /\ m \in {x} \cup S /\ \A y \in {x} \cup S : m >= y
      BY <1>2, <1>4
    <3> QED BY ONLY <3>1, MaxIs
  <2> QED BY <1>2, <2>1, <2>2
<1> QED BY <1>3, <1>4

\* A frame added to the held peak: the peak of the run it is in.
LEMMA PeakGrows ==
  ASSUME NEW frames \in Seq(Frames), NEW frame \in Frames,
         NEW from \in 0..Len(frames)
  PROVE  HeldWith(PeakSince(frames, from), frame)
           = PeakSince(Append(frames, frame), from)
<1> DEFINE n == Len(frames)
           longer == Append(frames, frame)
           run == RunSince(frames, from)
           grown == RunSince(longer, from)
<1>1. /\ n \in Nat /\ from \in 0..n /\ longer \in Seq(Frames) /\ Len(longer) = n + 1
      /\ Last(longer) = frame /\ longer[n + 1] = frame
      /\ \A k \in 1..n : longer[k] = frames[k]
  BY AppendFrame
<1>2. from \in 0..Len(longer) /\ from # Len(longer)
  BY <1>1
<1>3. PeakSince(longer, from) =
        [bin \in DOMAIN frame |-> Max({longer[k][bin] : k \in grown})]
  BY <1>1, <1>2, PeakForm
<1>4. Len(frame) \in Nat \ {0}
  BY FrameFacts
<1>5. CASE from # n /\ Len(Last(frames)) = Len(frame)
  <2>1. grown = {n + 1} \cup run
    BY <1>1, <1>5, RunGrows
  <2>2. /\ Last(frames) \in Frames /\ Len(PeakSince(frames, from)) = Len(frame)
        /\ PeakSince(frames, from) =
             [bin \in DOMAIN Last(frames) |-> Max({frames[k][bin] : k \in run})]
    BY <1>5, PeakForm
  <2>3. DOMAIN Last(frames) = DOMAIN frame
    BY <1>5, <2>2, FrameFacts
  <2>4. ASSUME NEW bin \in DOMAIN frame
        PROVE  Max({PeakSince(frames, from)[bin], frame[bin]})
                 = Max({longer[k][bin] : k \in grown})
    <3> DEFINE levels == {frames[k][bin] : k \in run}
    <3>1. levels # {} /\ levels \subseteq Int /\ IsFiniteSet(levels)
      BY <1>5, <2>3, LevelsOfRun
    <3>2. PeakSince(frames, from)[bin] = Max(levels)
      BY <2>2, <2>3
    <3>3. {longer[k][bin] : k \in grown} = {frame[bin]} \cup levels
      <4>1. \A k \in run : k \in 1..n
        BY <1>1 DEF RunSince
      <4> QED BY <1>1, <2>1, <4>1
    <3>4. frame[bin] \in Int
      BY FrameFacts
    <3> HIDE DEF levels
    <3>5. Max({Max(levels), frame[bin]}) = Max({frame[bin]} \cup levels)
      BY <3>1, <3>4, PeakOfMore
    <3> QED BY <3>2, <3>3, <3>5
  <2>5. HeldWith(PeakSince(frames, from), frame) =
          [bin \in DOMAIN frame |-> Max({PeakSince(frames, from)[bin], frame[bin]})]
    BY <2>2 DEF HeldWith
  <2>6. HeldWith(PeakSince(frames, from), frame) = PeakSince(longer, from)
    <3> HIDE DEF longer, grown
    <3> QED BY <1>3, <2>4, <2>5
  <2> QED BY <2>6
<1>6. CASE ~(from # n /\ Len(Last(frames)) = Len(frame))
  <2>1. grown = {n + 1}
    <3>1. from = n => run = {}
      BY RunIsTail
    <3> QED BY <1>1, <1>6, <3>1, RunGrows
  <2>2. Len(PeakSince(frames, from)) # Len(frame)
    <3>1. CASE from = n
      <4>1. PeakSince(frames, from) = <<>> /\ Len(<<>>) = 0
        BY <3>1, PeakForm
      <4> QED BY <1>4, <4>1
    <3>2. CASE from # n
      BY <1>6, <3>2, PeakForm
    <3> QED BY <3>1, <3>2
  <2>3. HeldWith(PeakSince(frames, from), frame) = frame
    BY <2>2 DEF HeldWith
  <2>4. ASSUME NEW bin \in DOMAIN frame
        PROVE  Max({longer[k][bin] : k \in grown}) = frame[bin]
    <3>1. {longer[k][bin] : k \in grown} = {frame[bin]}
      BY <1>1, <2>1
    <3>2. {frame[bin]} \subseteq Int /\ \A y \in {frame[bin]} : frame[bin] >= y
      BY FrameFacts
    <3>3. Max({frame[bin]}) = frame[bin]
      BY <3>2, MaxIs
    <3> QED BY <3>1, <3>3
  <2>5. frame = [bin \in DOMAIN frame |-> frame[bin]]
    BY FrameFacts
  <2>6. HeldWith(PeakSince(frames, from), frame) = PeakSince(longer, from)
    <3> HIDE DEF longer, grown
    <3> QED BY <1>3, <2>3, <2>4, <2>5
  <2> QED BY <2>6
<1> QED BY <1>5, <1>6

\* The levels of a bin from one frame on, and what the average is to hold, once
\* the run is known.
LevelsFrom(frames, first, bin) ==
  [k \in 1..Len(frames) - first + 1 |-> frames[first + k - 1][bin]]

LEMMA AverageForm ==
  ASSUME NEW frames \in Seq(Frames), NEW from \in 0..Len(frames),
         NEW first \in from+1..Len(frames),
         RunSince(frames, from) = first..Len(frames)
  PROVE  /\ AverageSince(frames, from) =
              [bin \in DOMAIN Last(frames) |->
                 LevelsFrom(frames, first, bin)]
         /\ Last(frames) \in Frames
         /\ Len(AverageSince(frames, from)) = Len(Last(frames))
         /\ \A bin \in DOMAIN Last(frames) :
              /\ LevelsFrom(frames, first, bin) \in Seq(Int)
              /\ Len(LevelsFrom(frames, first, bin)) = Len(frames) - first + 1
<1> DEFINE n == Len(frames)
           run == RunSince(frames, from)
           count == n - first + 1
<1>1. n \in Nat /\ first \in 1..n /\ count \in Nat
  <2>1. n \in Nat
    BY LenProperties
  <2> QED BY <2>1
<1>2. Cardinality(run) = count /\ Min(run) = first
  <2>1. Cardinality(first..n) = count
    BY <1>1, FS_Interval
  <2>2. first..n \subseteq Int /\ first \in first..n /\ \A k \in first..n : first <= k
    BY <1>1
  <2>3. Min(first..n) = first
    BY ONLY <2>2, MinIs
  <2> QED BY <2>1, <2>3
<1>3. Last(frames) \in Frames
  BY <1>1, ElementOfSeq DEF Last
<1>4. run # {}
  BY <1>1
<1>5. AverageSince(frames, from) =
        [bin \in DOMAIN Last(frames) |-> LevelsFrom(frames, first, bin)]
  BY <1>2, <1>4 DEF AverageSince, LevelsFrom
<1>6. ASSUME NEW bin \in DOMAIN Last(frames), NEW k \in 1..count
      PROVE  frames[first + k - 1][bin] \in Int
  <2>1. PICK j \in first..n : j = first + k - 1
    BY <1>1
  <2>2. j \in 1..n /\ j \in j..n /\ j \in run
    BY <1>1
  <2>3. frames[j] \in Frames /\ Len(frames[j]) = Len(Last(frames))
    BY <2>2, ElementOfSeq DEF RunSince
  <2>4. DOMAIN frames[j] = DOMAIN Last(frames)
    BY <1>3, <2>3, FrameFacts
  <2> QED BY <2>1, <2>3, <2>4, FrameFacts
<1>7. \A bin \in DOMAIN Last(frames) :
         /\ LevelsFrom(frames, first, bin) \in Seq(Int)
         /\ Len(LevelsFrom(frames, first, bin)) = count
  <2> SUFFICES ASSUME NEW bin \in DOMAIN Last(frames)
               PROVE  /\ LevelsFrom(frames, first, bin) \in Seq(Int)
                      /\ Len(LevelsFrom(frames, first, bin)) = count
    OBVIOUS
  <2>1. LevelsFrom(frames, first, bin) \in [1..count -> Int]
    BY <1>6 DEF LevelsFrom
  <2> HIDE DEF count
  <2> QED BY <1>1, <2>1, LenOf
<1>8. Len(AverageSince(frames, from)) = Len(Last(frames))
  <2>1. DOMAIN Last(frames) = 1..Len(Last(frames)) /\ Len(Last(frames)) \in Nat
    BY <1>3, FrameFacts
  <2>2. AverageSince(frames, from)
          \in [1..Len(Last(frames)) -> Seq(Int)]
    BY <1>5, <1>7, <2>1
  <2> HIDE DEF n
  <2> QED BY <2>1, <2>2, LenOf
<1> QED BY <1>3, <1>5, <1>7, <1>8

LEMMA AverageLength ==
  ASSUME NEW frames \in Seq(Frames), NEW from \in 0..Len(frames)
  PROVE  /\ from = Len(frames) => AverageSince(frames, from) = <<>>
         /\ from # Len(frames) =>
              /\ Last(frames) \in Frames
              /\ Len(AverageSince(frames, from)) = Len(Last(frames))
<1>1. CASE from = Len(frames)
  BY <1>1, RunIsTail DEF AverageSince
<1>2. CASE from # Len(frames)
  <2>1. PICK first \in from+1..Len(frames) : RunSince(frames, from) = first..Len(frames)
    BY <1>2, RunIsTail
  <2> QED BY <1>2, <2>1, AverageForm
<1> QED BY <1>1, <1>2

\* A frame added to the average: the levels of the run it is in.
LEMMA AverageGrows ==
  ASSUME NEW frames \in Seq(Frames), NEW frame \in Frames,
         NEW from \in 0..Len(frames)
  PROVE  Averaged(AverageSince(frames, from), frame)
           = AverageSince(Append(frames, frame), from)
<1> DEFINE n == Len(frames)
           longer == Append(frames, frame)
           run == RunSince(frames, from)
           grown == RunSince(longer, from)
<1>1. /\ n \in Nat /\ from \in 0..n /\ longer \in Seq(Frames) /\ Len(longer) = n + 1
      /\ Last(longer) = frame /\ longer[n + 1] = frame
      /\ \A k \in 1..n : longer[k] = frames[k]
  BY AppendFrame
<1>2. from \in 0..Len(longer)
  BY <1>1
<1>3. Len(frame) \in Nat \ {0} /\ \A bin \in DOMAIN frame : frame[bin] \in Int
  BY FrameFacts
<1>4. CASE from # n /\ Len(Last(frames)) = Len(frame)
  <2>1. PICK first \in from+1..n : run = first..n
    BY <1>4, RunIsTail
  <2>2. PICK m \in Nat : m = n - first + 1 /\ m + 1 = Len(longer) - first + 1
    BY <1>1
  <2>3. AverageSince(longer, from) =
          [bin \in DOMAIN frame |->
             LevelsFrom(longer, first, bin)]
    <3>1. first \in 1..n /\ n # 0 /\ first \in from+1..Len(longer)
      BY <1>1, <2>2
    <3>2. grown = {n + 1} \cup (first..n)
      BY <1>1, <1>4, <2>1, <3>1, RunGrows
    <3>3. grown = first..Len(longer)
      BY <1>1, <3>1, <3>2
    <3> HIDE DEF longer
    <3> QED BY <1>1, <1>2, <3>1, <3>3, AverageForm
  <2>4. /\ Last(frames) \in Frames /\ Len(AverageSince(frames, from)) = Len(frame)
        /\ \A bin \in DOMAIN Last(frames) :
             /\ LevelsFrom(frames, first, bin) \in Seq(Int)
             /\ Len(LevelsFrom(frames, first, bin)) = m
             /\ AverageSince(frames, from)[bin]
                  = LevelsFrom(frames, first, bin)
    BY <1>4, <2>1, <2>2, AverageForm
  <2>5. DOMAIN Last(frames) = DOMAIN frame
    BY <1>4, <2>4, FrameFacts
  <2>6. ASSUME NEW bin \in DOMAIN frame
        PROVE  Append(AverageSince(frames, from)[bin], frame[bin])
                 = LevelsFrom(longer, first, bin)
    <3> DEFINE before == AverageSince(frames, from)[bin]
               after == LevelsFrom(longer, first, bin)
    <3>1. before = LevelsFrom(frames, first, bin)
      BY <2>4, <2>5
    <3>2. before \in Seq(Int) /\ Len(before) = m /\ \A k \in 1..m : before[k] \in Int
      <4>1. before \in Seq(Int) /\ Len(before) = m
        BY <2>4, <2>5, <3>1
      <4> HIDE DEF before
      <4> QED BY <4>1, ElementOfSeq
    <3>3. /\ Append(before, frame[bin]) \in Seq(Int)
          /\ Len(Append(before, frame[bin])) = m + 1
          /\ \A k \in 1..m : Append(before, frame[bin])[k] = before[k]
          /\ Append(before, frame[bin])[m + 1] = frame[bin]
      <4> HIDE DEF before
      <4> QED BY <1>3, <3>2, AppendProperties
    <3>4. ASSUME NEW k \in 1..m PROVE after[k] = before[k] /\ after[k] \in Int
      <4>1. first + k - 1 \in 1..n /\ k \in 1..m+1
        BY <1>1, <2>1, <2>2
      <4>2. before[k] = frames[first + k - 1][bin] /\ before[k] \in Int
        <5> HIDE DEF before
        <5> QED BY <2>2, <3>1, <3>2 DEF LevelsFrom
      <4>3. after[k] = longer[first + k - 1][bin]
        BY <2>2, <4>1 DEF LevelsFrom
      <4> HIDE DEF after, before
      <4> QED BY <1>1, <4>1, <4>2, <4>3
    <3>5. after[m + 1] = frame[bin]
      <4>1. first + (m + 1) - 1 = n + 1 /\ m + 1 \in 1..m+1
        BY <1>1, <2>1, <2>2
      <4>2. after[m + 1] = longer[first + (m + 1) - 1][bin]
        BY <2>2, <4>1 DEF LevelsFrom
      <4> HIDE DEF after
      <4> QED BY <1>1, <4>1, <4>2
    <3>6. after \in Seq(Int) /\ Len(after) = m + 1
      <4>1. DOMAIN after = 1..m+1 /\ after = [k \in DOMAIN after |-> after[k]]
        BY <2>2 DEF LevelsFrom
      <4> HIDE DEF after
      <4>2. \A k \in 1..m+1 : after[k] \in Int
        BY <1>3, <3>4, <3>5
      <4>3. after \in [1..m+1 -> Int]
        BY <4>1, <4>2
      <4> QED BY <4>3, m + 1 \in Nat, LenOf
    <3> HIDE DEF after, before
    <3>7. \A k \in 1..m+1 : Append(before, frame[bin])[k] = after[k]
      BY <3>3, <3>4, <3>5
    <3>8. Append(before, frame[bin]) = after
      BY <3>3, <3>6, <3>7, SeqEqual
    <3> QED BY <3>8 DEF after, before
  <2>7. Averaged(AverageSince(frames, from), frame) =
          [bin \in DOMAIN frame |-> Append(AverageSince(frames, from)[bin], frame[bin])]
    BY <2>4 DEF Averaged
  <2>8. Averaged(AverageSince(frames, from), frame) = AverageSince(longer, from)
    <3> HIDE DEF longer, n
    <3> QED BY <2>3, <2>6, <2>7
  <2> QED BY <2>8
<1>5. CASE ~(from # n /\ Len(Last(frames)) = Len(frame))
  <2>1. grown = {n + 1}
    <3>1. from = n => run = {}
      BY RunIsTail
    <3> QED BY <1>1, <1>5, <3>1, RunGrows
  <2>2. Averaged(AverageSince(frames, from), frame) = Raw(frame)
    <3>1. CASE from = n
      <4>1. AverageSince(frames, from) = <<>> /\ Len(<<>>) = 0
        BY <3>1, AverageLength
      <4> QED BY <1>3, <4>1 DEF Averaged
    <3>2. CASE from # n
      BY <1>5, <3>2, AverageLength DEF Averaged
    <3> QED BY <3>1, <3>2
  <2>3. PICK last \in from+1..Len(longer), one \in Nat :
           last = n + 1 /\ one = 1 /\ one = Len(longer) - last + 1
    BY <1>1
  <2>4. AverageSince(longer, from) =
          [bin \in DOMAIN frame |->
             LevelsFrom(longer, last, bin)]
    <3>1. grown = last..Len(longer)
      BY <1>1, <2>1, <2>3
    <3> HIDE DEF longer, n
    <3> QED BY <1>1, <1>2, <2>3, <3>1, AverageForm
  <2>5. ASSUME NEW bin \in DOMAIN frame
        PROVE  LevelsFrom(longer, last, bin) = <<frame[bin]>>
    <3>1. \A k \in 1..one : k = 1 /\ last + k - 1 = n + 1
      BY <1>1, <2>3
    <3>2. LevelsFrom(longer, last, bin) = [k \in 1..one |-> frame[bin]]
      <4> HIDE DEF longer, n
      <4> QED BY <1>1, <2>3, <3>1 DEF LevelsFrom
    <3>3. <<frame[bin]>> = [k \in 1..1 |-> frame[bin]]
      OBVIOUS
    <3> QED BY <2>3, <3>2, <3>3
  <2>6. Averaged(AverageSince(frames, from), frame) = AverageSince(longer, from)
    <3> HIDE DEF longer, n
    <3> QED BY <2>2, <2>4, <2>5 DEF Raw
  <2> QED BY <2>6
<1> QED BY <1>4, <1>5

-----------------------------------------------------------------------------
(* The steps.                                                              *)

LEMMA InitInv == Init => SpectrumInv
<1> SUFFICES ASSUME Init PROVE SpectrumInv
  OBVIOUS
<1> USE DEF Init
<1>1. TypeInv
  BY DEF TypeInv
<1>2. shown = <<>> /\ shown \in Seq(Frames) /\ Len(shown) = 0
  BY EmptySeq
<1>3. ShownInv
  BY <1>2 DEF ShownInv
<1>4. HoldInv /\ AvgInv
  <2>1. \A from \in 0..Len(shown) :
           from = Len(shown) => AverageSince(shown, from) = <<>>
    BY <1>2, AverageLength
  <2>2. avg_from \in 0..Len(shown) /\ avg_from = Len(shown)
    BY <1>2
  <2> QED BY <2>1, <2>2 DEF HoldInv, AvgInv
<1>5. RangeInv
  <2>1. m_top_db \in Int
    <3>1. Min(Levels) \in Levels
      BY SpectrumAssumption DEF Min
    <3> QED BY <3>1, SetTypes
  <2>2. m_range[1] = -120 /\ m_range[2] = 0
    OBVIOUS
  <2>3. 1..Len(shown) = {}
    BY <1>2
  <2> QED BY <1>2, <2>1, <2>2, <2>3 DEF RangeInv
<1>6. OverlayInv
  BY DEF OverlayInv, OverlaysFitTrace
<1> QED BY <1>1, <1>3, <1>4, <1>5, <1>6 DEF SpectrumInv

\* The display and what is known of its history stay.
LEMMA DisplayStays ==
  ASSUME SpectrumInv,
         UNCHANGED <<traceVars, rangeVars, shown, hold_from, avg_from>>
  PROVE  ShownInv' /\ HoldInv' /\ AvgInv' /\ RangeInv' /\ Sample' = Sample
<1> USE DEF SpectrumInv, traceVars, rangeVars
<1>1. ShownInv' /\ HoldInv' /\ AvgInv' /\ RangeInv'
  BY DEF ShownInv, HoldInv, AvgInv, RangeInv
<1>2. Sample' = Sample
  BY DEF Sample
<1> QED BY <1>1, <1>2

LEMMA KeysInv ==
  ASSUME SpectrumInv, Keys
  PROVE  SpectrumInv'
<1> USE DEF SpectrumInv, Keys, historyVars
<1>1. ShownInv' /\ HoldInv' /\ AvgInv' /\ RangeInv' /\ Sample' = Sample
  BY DisplayStays
<1>2. TypeInv'
  BY DEF TypeInv, traceVars
<1>3. OverlayInv'
  <2>1. step' = "display" /\ picture' = {}
    OBVIOUS
  <2>2. /\ spec_verts' # {} => shown' # <<>>
        /\ \A trace \in spec_verts' :
             /\ spec_verts' = {trace} /\ trace.range = m_range'
             /\ ~changed' => trace.bars = Sample'
    BY <1>1 DEF OverlayInv, rangeVars
  <2> QED BY <2>1, <2>2 DEF OverlayInv, OverlaysFitTrace
<1> QED BY <1>1, <1>2, <1>3

\* A trace cleared holds what it is to hold from here on: nothing.
LEMMA ApplyKeysInv ==
  ASSUME SpectrumInv, ApplyKeys
  PROVE  SpectrumInv'
<1> USE DEF SpectrumInv
<1>1. /\ step = "display" /\ step' = "frame"
      /\ m_max_hold_enabled' = max_hold /\ m_avg_enabled' = averaging
      /\ trace_reset' = FALSE
      /\ changed' = (changed \/ avg_from' # avg_from)
      /\ UNCHANGED <<max_hold, averaging, fft_size, m_spectrum_data, m_top_db,
                     m_range, spec_verts, picture, shown>>
  BY DEF ApplyKeys, rangeVars
<1>2. shown \in Seq(Frames) /\ Len(shown) \in Nat
  BY LenProperties DEF ShownInv
<1>3. HoldInv' /\ hold_from' \in 0..Len(shown)
  <2>1. CASE Cleared(max_hold, m_max_hold_enabled)
    <3>1. m_max_hold_data' = <<>> /\ hold_from' = Len(shown)
      BY <2>1 DEF ApplyKeys, Cleared
    <3>2. PeakSince(shown, Len(shown)) = <<>>
      BY <1>2, PeakForm
    <3> QED BY <1>1, <1>2, <3>1, <3>2 DEF HoldInv
  <2>2. CASE ~Cleared(max_hold, m_max_hold_enabled)
    <3>1. /\ m_max_hold_data' = m_max_hold_data /\ hold_from' = hold_from
          /\ max_hold = m_max_hold_enabled
      BY <2>2 DEF ApplyKeys, Cleared
    <3> QED BY <1>1, <3>1 DEF HoldInv, ShownInv
  <2> QED BY <2>1, <2>2
<1>4. /\ AvgInv' /\ avg_from' \in 0..Len(shown)
      /\ spec_verts # {} => Sample' = Sample \/ avg_from' # avg_from
  <2>1. CASE Cleared(averaging, m_avg_enabled)
    <3>1. m_avg_data' = <<>> /\ avg_from' = Len(shown)
      BY <2>1 DEF ApplyKeys, Cleared
    <3>2. AverageSince(shown, Len(shown)) = <<>>
      BY <1>2, AverageLength
    <3>3. AvgInv' /\ avg_from' \in 0..Len(shown)
      BY <1>1, <1>2, <3>1, <3>2 DEF AvgInv
    <3>4. ASSUME spec_verts # {}, avg_from' = avg_from
          PROVE  Sample' = Sample
      <4>1. m_avg_data = <<>>
        BY <3>1, <3>2, <3>4 DEF AvgInv
      <4>2. Len(<<>>) # Len(m_spectrum_data)
        <5>1. shown # <<>> /\ m_spectrum_data = shown[Len(shown)]
          BY <3>4 DEF OverlayInv, ShownInv, Last
        <5>2. shown[Len(shown)] \in Frames
          BY <1>2, <5>1, EmptySeq, ElementOfSeq
        <5>3. Len(m_spectrum_data) \in Nat \ {0}
          BY <5>1, <5>2, FrameFacts
        <5> QED BY <5>3
      <4>3. Sample = PerColumn(Raw(m_spectrum_data))
        BY <4>1, <4>2 DEF Sample
      <4>4. Sample' = PerColumn(Raw(m_spectrum_data'))
        BY <1>1, <3>1, <4>2 DEF Sample
      <4> QED BY <1>1, <4>3, <4>4
    <3> QED BY <3>3, <3>4
  <2>2. CASE ~Cleared(averaging, m_avg_enabled)
    <3>1. /\ m_avg_data' = m_avg_data /\ avg_from' = avg_from
          /\ averaging = m_avg_enabled
      BY <2>2 DEF ApplyKeys, Cleared
    <3> QED BY <1>1, <3>1 DEF AvgInv, ShownInv, Sample
  <2> QED BY <2>1, <2>2
<1>5. TypeInv'
  <2>1. changed' \in BOOLEAN
    BY <1>1 DEF TypeInv
  <2> QED BY <1>1, <2>1 DEF TypeInv
<1>6. ShownInv' /\ RangeInv'
  BY <1>1, <1>3, <1>4 DEF ShownInv, RangeInv
<1>7. OverlayInv'
  <2>1. picture' = {}
    BY <1>1 DEF OverlayInv
  <2>2. ASSUME NEW trace \in spec_verts'
        PROVE  /\ spec_verts' = {trace} /\ trace.range = m_range'
               /\ ~changed' => trace.bars = Sample'
    BY <1>1, <1>4 DEF OverlayInv
  <2>3. spec_verts' # {} => shown' # <<>>
    BY <1>1 DEF OverlayInv
  <2> QED BY <1>1, <2>1, <2>2, <2>3 DEF OverlayInv, OverlaysFitTrace
<1> QED BY <1>3, <1>4, <1>5, <1>6, <1>7

\* The last picture's trace is presented again under the axis and the readout
\* of the display it was built from.
LEMMA PresentAgainInv ==
  ASSUME SpectrumInv, PresentAgain
  PROVE  SpectrumInv'
<1> USE DEF SpectrumInv
<1>1. /\ step = "frame" /\ step' = "keys" /\ spec_verts' = spec_verts
      /\ UNCHANGED <<keyVars, traceVars, rangeVars, historyVars>>
      /\ picture' = {[trace |-> trace, readout |-> Sample, axis |-> m_range,
                      avg |-> averaging, max |-> max_hold, fresh |-> FALSE,
                      before |-> spec_verts, changed |-> changed]
                        : trace \in spec_verts'}
      /\ \A trace \in spec_verts : spec_verts = {trace}
  BY DEF PresentAgain, Present, OverlayInv
<1>2. ShownInv' /\ HoldInv' /\ AvgInv' /\ RangeInv' /\ Sample' = Sample
  BY <1>1, DisplayStays DEF historyVars
<1>3. TypeInv'
  BY <1>1 DEF TypeInv, keyVars, traceVars, historyVars
<1>4. /\ spec_verts' # {} => shown' # <<>>
      /\ changed' = changed /\ m_range' = m_range
      /\ \A trace \in spec_verts' :
           /\ spec_verts' = {trace} /\ trace.range = m_range
           /\ ~changed => trace.bars = Sample
  BY <1>1 DEF OverlayInv, historyVars, rangeVars
<1>5. OverlaysFitTrace'
  <2> SUFFICES ASSUME NEW p \in picture'
               PROVE  /\ p.fresh = FALSE /\ p.before = {p.trace}
                      /\ \A trace \in p.before :
                           p.axis = trace.range
                           /\ (~p.changed => p.readout = trace.bars)
    BY DEF OverlaysFitTrace
  <2>1. PICK trace \in spec_verts' :
          p = [trace |-> trace, readout |-> Sample, axis |-> m_range,
               avg |-> averaging, max |-> max_hold, fresh |-> FALSE,
               before |-> spec_verts, changed |-> changed]
    BY <1>1
  <2>2. /\ p.fresh = FALSE /\ p.trace = trace /\ p.before = spec_verts
        /\ p.axis = m_range /\ p.readout = Sample /\ p.changed = changed
    BY <2>1
  <2>3. p.before = {p.trace}
    BY <1>1, <2>2
  <2> QED BY <1>1, <1>4, <2>2, <2>3
<1>6. OverlayInv'
  BY <1>1, <1>2, <1>4, <1>5 DEF OverlayInv
<1> QED BY <1>2, <1>3, <1>6

\* A new frame: it is in the traces that are on, under the range and the bars
\* its trace is built from.
LEMMA DrawFrameInv ==
  ASSUME SpectrumInv, DrawFrame
  PROVE  SpectrumInv'
<1> USE DEF SpectrumInv
<1>1. PICK frame \in TupleOf(Levels, fft_size) :
        UpdateSpectrum(frame) /\ shown' = Append(shown, frame)
  BY DEF DrawFrame
<1>2. /\ step = "frame" /\ step' = "keys" /\ changed' = FALSE
      /\ UNCHANGED <<max_hold, averaging, trace_reset, fft_size, hold_from, avg_from>>
      /\ spec_verts' = {Trace(m_avg_enabled', m_avg_data', m_max_hold_enabled',
                              m_max_hold_data', m_spectrum_data', m_range')}
      /\ picture' = {[trace |-> trace, readout |-> Sample, axis |-> m_range,
                      avg |-> averaging, max |-> max_hold, fresh |-> TRUE,
                      before |-> spec_verts, changed |-> changed]
                        : trace \in spec_verts'}
  BY DEF DrawFrame, Present, keyVars
<1>3. /\ m_spectrum_data' = frame
      /\ m_avg_data' = IF m_avg_enabled THEN Averaged(m_avg_data, frame)
                       ELSE m_avg_data
      /\ m_max_hold_data' = IF m_max_hold_enabled
                            THEN HeldWith(m_max_hold_data, frame)
                            ELSE m_max_hold_data
      /\ m_top_db' = Top(frame)
      /\ m_range' = <<MedianLevel(frame) - FloorMargin, Top(frame)>>
      /\ UNCHANGED <<m_max_hold_enabled, m_avg_enabled>>
  BY <1>1 DEF UpdateSpectrum
<1>4. frame \in Frames
  <2>1. fft_size \in Sizes
    BY DEF TypeInv
  <2> QED BY <2>1 DEF Frames
<1>5. /\ shown \in Seq(Frames) /\ Len(shown) \in Nat
      /\ shown' \in Seq(Frames) /\ Len(shown') = Len(shown) + 1
      /\ Last(shown') = frame /\ shown'[Len(shown) + 1] = frame
      /\ \A k \in 1..Len(shown) : shown'[k] = shown[k] /\ shown[k] \in Frames
  <2>1. shown \in Seq(Frames)
    BY DEF ShownInv
  <2> QED BY <1>1, <1>4, <2>1, AppendFrame
<1>6. shown' # <<>>
  BY <1>5, EmptySeq
<1>7. TypeInv'
  BY <1>2, <1>3 DEF TypeInv
<1>8. ShownInv'
  <2>1. hold_from \in 0..Len(shown) + 1 /\ avg_from \in 0..Len(shown) + 1
    BY <1>5 DEF ShownInv
  <2> QED BY <1>2, <1>3, <1>5, <1>6, <2>1 DEF ShownInv
<1>9. HoldInv'
  <2>1. \A from \in 0..Len(shown) :
           HeldWith(PeakSince(shown, from), frame)
             = PeakSince(Append(shown, frame), from)
    BY <1>4, <1>5, PeakGrows
  <2>2. HeldWith(PeakSince(shown, hold_from), frame) = PeakSince(shown', hold_from')
    BY <1>1, <1>2, <2>1 DEF ShownInv
  <2> QED BY <1>3, <2>2 DEF HoldInv
<1>10. AvgInv'
  <2>1. \A from \in 0..Len(shown) :
           Averaged(AverageSince(shown, from), frame)
             = AverageSince(Append(shown, frame), from)
    BY <1>4, <1>5, AverageGrows
  <2>2. Averaged(AverageSince(shown, avg_from), frame)
          = AverageSince(shown', avg_from')
    BY <1>1, <1>2, <2>1 DEF ShownInv
  <2> QED BY <1>3, <2>2 DEF AvgInv
<1>11. RangeInv'
  <2>1. m_top_db \in Int
    BY DEF RangeInv
  <2>2. PICK t \in Int :
          /\ t = m_top_db' /\ t >= m_top_db - TopDecay
          /\ \A bin \in DOMAIN frame : frame[bin] + Headroom <= t
    BY <1>3, <1>4, <2>1, RangeOfFrame
  <2>3. /\ m_range'[1] \in Int /\ m_range'[2] \in Int /\ m_range'[1] < m_range'[2]
        /\ m_range'[2] = m_top_db'
    <3>1. /\ MedianLevel(frame) - FloorMargin \in Int /\ Top(frame) \in Int
          /\ MedianLevel(frame) - FloorMargin < Top(frame)
      BY <1>4, <2>1, RangeOfFrame
    <3>2. m_range'[1] = MedianLevel(frame) - FloorMargin /\ m_range'[2] = Top(frame)
      BY <1>3
    <3> QED BY <1>3, <3>1, <3>2
  <2>4. ASSUME NEW k \in 1..Len(shown'), NEW bin \in DOMAIN shown'[k]
        PROVE  shown'[k][bin] + Headroom
                 <= m_top_db' + (Len(shown') - k) * TopDecay
    <3>1. CASE k = Len(shown) + 1
      <4>1. (Len(shown') - k) * TopDecay = 0
        <5>1. Len(shown') - k = 0
          BY <1>5, <3>1
        <5>2. 0 * TopDecay = 0
          BY Constants
        <5> QED BY <5>1, <5>2
      <4>2. frame[bin] + Headroom <= t
        BY <1>5, <2>2, <2>4, <3>1
      <4> QED BY <1>5, <2>2, <3>1, <4>1, <4>2
    <3>2. CASE k # Len(shown) + 1
      <4>1. k \in 1..Len(shown) /\ shown'[k] = shown[k] /\ shown[k] \in Frames
        BY <1>5, <2>4, <3>2
      <4>2. PICK level \in Int : level = shown[k][bin]
        BY <2>4, <4>1, FrameFacts
      <4>3. PICK fall \in Int : fall = (Len(shown) - k) * TopDecay
        BY <1>5, <4>1, Constants
      <4>4. level + Headroom <= m_top_db + fall
        BY <2>4, <4>1, <4>2, <4>3 DEF RangeInv
      <4>5. (Len(shown') - k) * TopDecay = fall + TopDecay
        <5>1. \A a, b \in Int : (a + 1) * b = a * b + b
          OBVIOUS
        <5>2. Len(shown') - k = (Len(shown) - k) + 1 /\ Len(shown) - k \in Int
          BY <1>5, <4>1
        <5> QED BY <4>3, <5>1, <5>2, Constants
      <4>6. level + Headroom <= t + (fall + TopDecay)
        <5>1. Headroom \in Int /\ TopDecay \in Int
          BY Constants
        <5>2. t >= m_top_db - TopDecay
          BY <2>2
        <5> QED BY <2>1, <4>4, <5>1, <5>2
      <4> QED BY <2>2, <4>1, <4>2, <4>5, <4>6
    <3> QED BY <3>1, <3>2
  <2> QED BY <2>2, <2>3, <2>4 DEF RangeInv
<1>12. m_max_hold_enabled = max_hold /\ m_avg_enabled = averaging
  BY <1>2 DEF OverlayInv
<1>13. ASSUME NEW trace \in spec_verts'
       PROVE  /\ trace.range = m_range' /\ trace.bars = Sample'
              /\ trace.avg = averaging /\ trace.max = max_hold
  <2>1. trace = Trace(m_avg_enabled', m_avg_data', m_max_hold_enabled',
                      m_max_hold_data', m_spectrum_data', m_range')
    BY <1>2
  <2>2. /\ trace.range = m_range' /\ trace.avg = m_avg_enabled'
        /\ trace.max = m_max_hold_enabled'
        /\ trace.bars = PerColumn(Bars(m_avg_enabled', m_avg_data', m_spectrum_data'))
    BY <2>1 DEF Trace
  <2>3. trace.bars = Sample'
    BY <2>2 DEF Bars, Sample
  <2> QED BY <1>3, <1>12, <2>2, <2>3
<1>14. OverlaysFitTrace'
  <2> SUFFICES ASSUME NEW p \in picture'
               PROVE  /\ p.fresh = TRUE
                      /\ p.avg = p.trace.avg /\ p.max = p.trace.max
                      /\ \A trace \in p.before :
                           p.axis = trace.range
                           /\ (~p.changed => p.readout = trace.bars)
    BY DEF OverlaysFitTrace
  <2>1. PICK trace \in spec_verts' :
          p = [trace |-> trace, readout |-> Sample, axis |-> m_range,
               avg |-> averaging, max |-> max_hold, fresh |-> TRUE,
               before |-> spec_verts, changed |-> changed]
    BY <1>2
  <2>2. /\ p.fresh = TRUE /\ p.trace = trace /\ p.before = spec_verts
        /\ p.avg = averaging /\ p.max = max_hold
        /\ p.axis = m_range /\ p.readout = Sample /\ p.changed = changed
    BY <2>1
  <2>3. \A t \in spec_verts : t.range = m_range /\ (~changed => t.bars = Sample)
    BY DEF OverlayInv
  <2> QED BY <1>13, <2>1, <2>2, <2>3
<1>15. OverlayInv'
  BY <1>2, <1>6, <1>13, <1>14 DEF OverlayInv
<1> QED BY <1>7, <1>8, <1>9, <1>10, <1>11, <1>15

LEMMA StutterInv ==
  ASSUME SpectrumInv, UNCHANGED vars
  PROVE  SpectrumInv'
<1> USE DEF SpectrumInv, vars
<1>1. ShownInv' /\ HoldInv' /\ AvgInv' /\ RangeInv' /\ Sample' = Sample
  BY DisplayStays DEF historyVars
<1>2. TypeInv'
  BY DEF TypeInv, keyVars, traceVars, historyVars
<1>3. OverlayInv'
  <2>1. /\ step' = step /\ picture' = picture /\ spec_verts' = spec_verts
        /\ shown' = shown /\ changed' = changed /\ m_range' = m_range
        /\ max_hold' = max_hold /\ averaging' = averaging
        /\ m_max_hold_enabled' = m_max_hold_enabled /\ m_avg_enabled' = m_avg_enabled
    BY DEF historyVars, rangeVars, keyVars, traceVars
  <2>2. OverlaysFitTrace'
    BY <2>1 DEF OverlayInv, OverlaysFitTrace
  <2> QED BY <1>1, <2>1, <2>2 DEF OverlayInv
<1> QED BY <1>1, <1>2, <1>3

-----------------------------------------------------------------------------
(* The theorems.                                                           *)

\* The pane's state is consistent in every state: history, traces, range and
\* what is laid over the last trace.
THEOREM SpectrumIsConsistent == Spec => []SpectrumInv
<1>1. SpectrumInv /\ [Next]_vars => SpectrumInv'
  <2> SUFFICES ASSUME SpectrumInv, [Next]_vars PROVE SpectrumInv'
    OBVIOUS
  <2>1. CASE Keys
    BY <2>1, KeysInv
  <2>2. CASE ApplyKeys
    BY <2>2, ApplyKeysInv
  <2>3. CASE PresentAgain
    BY <2>3, PresentAgainInv
  <2>4. CASE DrawFrame
    BY <2>4, DrawFrameInv
  <2>5. CASE UNCHANGED vars
    BY <2>5, StutterInv
  <2> QED BY <2>1, <2>2, <2>3, <2>4, <2>5 DEF Next
<1> QED BY InitInv, <1>1, PTL DEF Spec

\* The types, the range that is never empty, and a trace in use that has a
\* level for every bin of the frame it is drawn with, or none yet.
THEOREM SpectrumTypes == Spec => []TypeOK
<1>1. SpectrumInv => TypeOK
  <2> SUFFICES ASSUME SpectrumInv PROVE TypeOK
    OBVIOUS
  <2> USE DEF SpectrumInv
  <2>1. {max_hold, averaging, trace_reset, m_max_hold_enabled, m_avg_enabled,
         changed} \subseteq BOOLEAN
    BY DEF TypeInv
  <2>2. step \in {"keys", "display", "frame"} /\ fft_size \in Sizes
    BY DEF TypeInv
  <2>3. m_spectrum_data \in {<<>>} \cup Frames
    <3>1. CASE shown = <<>>
      BY <3>1 DEF ShownInv
    <3>2. CASE shown # <<>>
      BY <3>2, EmptySeq, ElementOfSeq DEF ShownInv, Last
    <3> QED BY <3>1, <3>2
  <2>4. shown = <<>> => Len(shown) = 0
    BY EmptySeq
  <2>5. m_max_hold_enabled => Len(m_max_hold_data) \in {0, Len(m_spectrum_data)}
    <3> SUFFICES ASSUME m_max_hold_enabled
                 PROVE  Len(m_max_hold_data) \in {0, Len(m_spectrum_data)}
      OBVIOUS
    <3>1. m_max_hold_data = PeakSince(shown, hold_from)
      BY DEF HoldInv
    <3>2. CASE hold_from = Len(shown)
      <4>1. m_max_hold_data = <<>>
        BY <3>1, <3>2, PeakForm DEF ShownInv
      <4> QED BY <4>1
    <3>3. CASE hold_from # Len(shown)
      <4>1. shown # <<>>
        BY <2>4, <3>3 DEF ShownInv
      <4>2. Len(PeakSince(shown, hold_from)) = Len(Last(shown))
        BY <3>3, PeakForm DEF ShownInv
      <4> QED BY <3>1, <4>1, <4>2 DEF ShownInv
    <3> QED BY <3>2, <3>3
  <2>6. m_avg_enabled => Len(m_avg_data) \in {0, Len(m_spectrum_data)}
    <3> SUFFICES ASSUME m_avg_enabled
                 PROVE  Len(m_avg_data) \in {0, Len(m_spectrum_data)}
      OBVIOUS
    <3>1. m_avg_data = AverageSince(shown, avg_from)
      BY DEF AvgInv
    <3>2. CASE avg_from = Len(shown)
      <4>1. m_avg_data = <<>>
        BY <3>1, <3>2, AverageLength DEF ShownInv
      <4> QED BY <4>1
    <3>3. CASE avg_from # Len(shown)
      <4>1. shown # <<>>
        BY <2>4, <3>3 DEF ShownInv
      <4>2. Len(AverageSince(shown, avg_from)) = Len(Last(shown))
        BY <3>3, AverageLength DEF ShownInv
      <4> QED BY <3>1, <4>1, <4>2 DEF ShownInv
    <3> QED BY <3>2, <3>3
  <2>7. m_top_db \in Int /\ m_range[1] < m_range[2]
    BY DEF RangeInv
  <2> QED BY <2>1, <2>2, <2>3, <2>5, <2>6, <2>7 DEF TypeOK, Frames
<1> QED BY SpectrumIsConsistent, <1>1, PTL

\* The held peak and the average are of exactly the frames since each was last
\* cleared, and of one size.
THEOREM TracesAreSinceReset == Spec => []TracesSinceReset
<1>1. SpectrumInv => TracesSinceReset
  BY DEF SpectrumInv, HoldInv, AvgInv, TracesSinceReset
<1> QED BY SpectrumIsConsistent, <1>1, PTL

\* A burst stays inside the pane for as long as the headroom lasts at the
\* decay, whatever frames follow it.
THEOREM NoBurstClipped == Spec => []BurstsStayInView
<1>1. SpectrumInv => BurstsStayInView
  <2> SUFFICES ASSUME SpectrumInv, NEW k \in DOMAIN shown,
                      (Len(shown) - k) * TopDecay <= Headroom,
                      NEW bin \in DOMAIN shown[k]
               PROVE  shown[k][bin] <= m_range[2]
    BY DEF BurstsStayInView
  <2> USE DEF SpectrumInv
  <2>1. shown \in Seq(Frames) /\ Len(shown) \in Nat /\ k \in 1..Len(shown)
    BY LenProperties DEF ShownInv
  <2>2. PICK level \in Int : level = shown[k][bin]
    BY <2>1, ElementOfSeq, FrameFacts
  <2>3. PICK fall \in Int : fall = (Len(shown) - k) * TopDecay
    BY <2>1, Constants
  <2>4. m_top_db \in Int /\ level + Headroom <= m_top_db + fall
    BY <2>1, <2>2, <2>3 DEF RangeInv
  <2>5. m_range[2] = m_top_db
    BY <2>1, EmptySeq DEF RangeInv
  <2>6. level <= m_top_db
    BY <2>3, <2>4, Constants
  <2> QED BY <2>2, <2>5, <2>6
<1> QED BY SpectrumIsConsistent, <1>1, PTL

\* Axis and cursor's dot are those of the trace on screen when the pass began,
\* unless the average was switched or reset under it: of the very trace shown
\* when it is presented again, in a freeze too, and of the one before a new one.
\* A new trace is drawn in the modes the panel names.
THEOREM OverlaysAreOfTheTrace == Spec => []OverlaysFitTrace
<1>1. SpectrumInv => OverlaysFitTrace
  BY DEF SpectrumInv, OverlayInv
<1> QED BY SpectrumIsConsistent, <1>1, PTL
=============================================================================
