--------------------------- MODULE Waterfall_proofs ---------------------------
(***************************************************************************)
(* Proofs about the waterfall, for every history length, line width,       *)
(* number of levels and set of colour maps: the ring holds the last lines  *)
(* added, the histogram kept line by line is that of a recount, the range  *)
(* read off it is the median and the top of all pixels, and both ways of   *)
(* drawing leave the history on screen in its current colours.             *)
(*                                                                         *)
(* The range sums the histogram up with a fold.  That the fold computes    *)
(* the size of a union of pixel sets is SumOfSizes in DataFacts.           *)
(***************************************************************************)
EXTENDS Waterfall, DataFacts, SequenceTheorems

Lut == <<m_color_map, ReferenceRange>>

RingInv ==
  /\ m_data \in [0..Capacity-1 -> Lines \cup {<<>>}]
  /\ m_size \in 0..Capacity /\ m_head \in 0..Capacity-1
  /\ recent \in Seq(Lines)
  /\ HistoryIsRecent

CountInv == m_hist_counts \in [Levels -> Nat] /\ HistogramMatchesHistory

\* Only after reset() may the table be older than the range.
RangeInv ==
  /\ m_global_range = IF recent = <<>> THEN DefaultRange ELSE ReferenceRange
  /\ recent # <<>> => m_rgba_lut = <<m_color_map, m_global_range>>

\* What the next scrolled frame starts from is what is on screen.
TextureInv ==
  screen = IF m_wf_scroll_tex = NoTexture THEN m_texture ELSE m_wf_scroll_tex

\* The screen before the newest line scrolls in below it.
ScrollInv ==
  /\ m_new_line = Expected(Capacity)
  /\ \A row \in Rows \ {1} :
       /\ screen[row] # Black => screen[row].lut = Lut
       /\ seeded \/ row > Capacity - scrolled => screen[row] = Expected(row - 1)

FrameType ==
  /\ main \in {"changed", "render", "drawn"}
  /\ m_needs_full_render \in BOOLEAN /\ seeded \in BOOLEAN
  /\ scrolled \in 0..Capacity

FrameInv ==
  /\ main = "changed" => m_needs_full_render
  /\ main # "changed" => recent # <<>>
  /\ main = "drawn" => /\ ~m_needs_full_render
                       /\ ~HistoryFull => ~seeded /\ scrolled = 0
  /\ main = "render" =>
       IF NeedsFullRender THEN \A row \in Rows : m_pixels[row] = Expected(row)
                          ELSE ScrollInv
  /\ ScreenShowsRecent /\ ColoursAreCurrent

WaterfallInv ==
  RingInv /\ CountInv /\ RangeInv /\ TextureInv /\ FrameType /\ FrameInv

-----------------------------------------------------------------------------
(* The ring.                                                               *)

LEMMA Constants ==
  /\ Capacity \in Nat /\ Capacity > 0 /\ Width \in Nat /\ Width > 0
  /\ MaxLevel \in Nat
BY WaterfallAssumption

\* The number of lines after push().
SizeAfter(size) == IF size = Capacity THEN size ELSE size + 1

\* A pushed line is the newest; the others keep their slots, and their places
\* or, when the ring was full, one less.
LEMMA SlotAfterPush ==
  ASSUME NEW head \in 0..Capacity-1, NEW size \in 0..Capacity,
         NEW index \in 0..SizeAfter(size)-1
  PROVE  LET new == SizeAfter(size)
             old == index + 1 + size - new
         IN  /\ index = new - 1 => SlotAt((head + 1) % Capacity, new, index) = head
             /\ index < new - 1 =>
                  /\ SlotAt((head + 1) % Capacity, new, index)
                       = SlotAt(head, size, old)
                  /\ SlotAt(head, size, old) # head
                  /\ old \in 0..size-1
<1> DEFINE new == SizeAfter(size)
           old == index + 1 + size - new
           turn == index + Capacity - new
<1>1. new \in 1..Capacity /\ index \in 0..new-1 /\ turn \in Int
  BY Constants DEF SizeAfter
<1>2. index < new - 1 => old \in 0..size-1
  BY Constants DEF SizeAfter
<1> HIDE DEF new
<1>3. SlotAt((head + 1) % Capacity, new, index) = (head + 1 + turn) % Capacity
  <2>1. (head + 1) % Capacity \in Int
    BY Constants, SlotInRange
  <2>2. ((head + 1) % Capacity) - new + index + Capacity
          = ((head + 1) % Capacity) + turn
    BY <1>1, <2>1, Constants
  <2>3. Capacity \in Nat \ {0} /\ head + 1 \in Int
    BY Constants
  <2> HIDE DEF turn
  <2>4. (((head + 1) % Capacity) + turn) % Capacity = (head + 1 + turn) % Capacity
    BY <2>3, <1>1, SlotOfSlot
  <2> QED BY <2>2, <2>4 DEF SlotAt
<1>4. ASSUME index = new - 1
      PROVE  SlotAt((head + 1) % Capacity, new, index) = head
  <2>1. head + 1 + turn = Capacity + head
    BY <1>4, <1>1, Constants
  <2>2. Capacity \in Nat \ {0} /\ head \in Int /\ head = Capacity * 0 + head
    BY Constants
  <2>3. (Capacity + head) % Capacity = head % Capacity
    BY <2>2, WholeTurn
  <2>4. head % Capacity = head
    BY <2>2, SlotUnique
  <2> QED BY <1>3, <2>1, <2>3, <2>4
<1>5. ASSUME index < new - 1
      PROVE  /\ SlotAt((head + 1) % Capacity, new, index)
                  = SlotAt(head, size, old)
             /\ SlotAt(head, size, old) # head
  <2>1. head - size + old + Capacity = head + 1 + turn
    BY <1>1, Constants
  <2>2. SlotAt(head, size, old) = (head + 1 + turn) % Capacity
    BY <2>1 DEF SlotAt
  <2> DEFINE j == head + 1 + turn
  <2>3. j \in Int /\ head < j /\ j < head + Capacity
    BY <1>1, <1>5, Constants
  <2>4. Capacity \in Nat \ {0} /\ head \in Int /\ head = Capacity * 0 + head
    BY Constants
  <2>5. head % Capacity = head
    BY <2>4, SlotUnique
  <2>6. j % Capacity # head % Capacity
    <3> HIDE DEF j
    <3> QED BY <2>3, <2>4, SlotsDistinct
  <2> QED BY <1>3, <2>2, <2>5, <2>6
<1> QED BY <1>2, <1>4, <1>5 DEF new

LEMMA SlotType ==
  ASSUME NEW head \in Int, NEW size \in Int, NEW index \in Int
  PROVE  SlotAt(head, size, index) \in 0..Capacity-1
<1>1. Capacity \in Nat \ {0} /\ head - size + index + Capacity \in Int
  BY Constants
<1> QED BY <1>1, SlotInRange DEF SlotAt

\* The lines that stay when another one is added.
Kept(lines) == IF Len(lines) = Capacity THEN Tail(lines) ELSE lines

LEMMA KeptLines ==
  ASSUME NEW lines \in Seq(Lines), Len(lines) <= Capacity
  PROVE  /\ Kept(lines) \in Seq(Lines)
         /\ Len(Kept(lines)) = SizeAfter(Len(lines)) - 1
         /\ \A i \in 1..Len(Kept(lines)) :
              /\ i + 1 + Len(lines) - SizeAfter(Len(lines)) \in 1..Len(lines)
              /\ Kept(lines)[i] = lines[i + 1 + Len(lines) - SizeAfter(Len(lines))]
<1>1. CASE Len(lines) = Capacity
  <2>1. lines # <<>>
    BY <1>1, Constants, EmptySeq
  <2>2. /\ Tail(lines) \in Seq(Lines)
        /\ Len(Tail(lines)) = Len(lines)-1
        /\ \A i \in 1 .. Len(Tail(lines)) : Tail(lines)[i] = lines[i+1]
    BY <2>1, HeadTailProperties
  <2>3. Kept(lines) = Tail(lines) /\ SizeAfter(Len(lines)) = Len(lines)
    BY <1>1 DEF Kept, SizeAfter
  <2> QED BY <1>1, <2>2, <2>3, Constants
<1>2. CASE Len(lines) # Capacity
  <2>1. Kept(lines) = lines /\ SizeAfter(Len(lines)) = Len(lines) + 1
    BY <1>2 DEF Kept, SizeAfter
  <2>2. Len(lines) \in Nat
    BY LenProperties
  <2> QED BY <2>1, <2>2
<1> QED BY <1>1, <1>2

\* push() keeps the ring the last lines added.
LEMMA PushKeepsRing ==
  ASSUME RingInv, NEW line \in Lines, Push(line)
  PROVE  /\ RingInv'
         /\ recent' = Append(Kept(recent), line) /\ recent' # <<>>
         /\ m_size' = SizeAfter(m_size)
<1>1. /\ m_size = Len(recent) /\ m_size \in 0..Capacity /\ m_head \in 0..Capacity-1
      /\ recent \in Seq(Lines)
  BY DEF RingInv, HistoryIsRecent
<1>2. /\ Kept(recent) \in Seq(Lines) /\ Len(Kept(recent)) = SizeAfter(m_size) - 1
      /\ \A i \in 1..Len(Kept(recent)) :
              /\ i + 1 + m_size - SizeAfter(m_size) \in 1..m_size
              /\ Kept(recent)[i] = recent[i + 1 + m_size - SizeAfter(m_size)]
  BY <1>1, KeptLines
<1>3. recent' = Append(Kept(recent), line)
  BY DEF Push, Kept
<1>4. m_size' = SizeAfter(m_size) /\ m_size' \in 1..Capacity
  BY <1>1, Constants DEF Push, HistoryFull, SizeAfter
<1>5. /\ recent' \in Seq(Lines) /\ Len(recent') = m_size'
      /\ recent'[m_size'] = line
      /\ \A i \in 1..m_size'-1 : recent'[i] = Kept(recent)[i]
  <2>1. /\ Append(Kept(recent), line) \in Seq(Lines)
        /\ Len(Append(Kept(recent), line)) = Len(Kept(recent)) + 1
        /\ \A i \in 1..Len(Kept(recent)) : Append(Kept(recent), line)[i] = Kept(recent)[i]
        /\ Append(Kept(recent), line)[Len(Kept(recent))+1] = line
    BY <1>2, AppendProperties
  <2> QED BY <2>1, <1>2, <1>3, <1>4
<1>6. m_data' \in [0..Capacity-1 -> Lines \cup {<<>>}]
  BY <1>1 DEF Push, RingInv
<1>7. m_head' \in 0..Capacity-1
  <2>1. Capacity \in Nat \ {0} /\ m_head + 1 \in Int
    BY <1>1, Constants
  <2> QED BY <2>1, SlotInRange DEF Push
<1>8. ASSUME NEW index \in 0..m_size'-1
      PROVE  m_data'[SlotAt(m_head', m_size', index)] = recent'[index + 1]
  <2> DEFINE old == index + 1 + m_size - m_size'
  <2>1. m_head' = (m_head + 1) % Capacity /\ m_data' = [m_data EXCEPT ![m_head] = line]
    BY DEF Push
  <2>2. /\ index = m_size' - 1 => SlotAt(m_head', m_size', index) = m_head
        /\ index < m_size' - 1 =>
             /\ SlotAt(m_head', m_size', index) = SlotAt(m_head, m_size, old)
             /\ SlotAt(m_head, m_size, old) # m_head
             /\ old \in 0..m_size-1
    BY <1>1, <1>4, <2>1, SlotAfterPush
  <2>3. CASE index = m_size' - 1
    <3>1. m_data'[m_head] = line
      BY <1>1, <2>1 DEF RingInv
    <3> QED BY <2>2, <2>3, <3>1, <1>4, <1>5
  <2>4. CASE index < m_size' - 1
    <3>1. SlotAt(m_head, m_size, old) \in 0..Capacity-1
      <4>1. old \in Int /\ m_head \in Int /\ m_size \in Int
        BY <1>1, <2>2, <2>4
      <4> HIDE DEF old
      <4> QED BY <4>1, SlotType
    <3>2. m_data'[SlotAt(m_head, m_size, old)] = m_data[SlotAt(m_head, m_size, old)]
      BY <2>1, <2>2, <2>4, <3>1 DEF RingInv
    <3>3. m_data[SlotAt(m_head, m_size, old)] = recent[old + 1]
      BY <2>2, <2>4 DEF RingInv, HistoryIsRecent
    <3>4. recent'[index + 1] = recent[old + 1]
      <4>1. index + 1 \in 1..m_size'-1
        BY <2>4, <1>4
      <4>2. recent'[index + 1] = recent[index + 1 + 1 + m_size - m_size']
        BY <4>1, <1>2, <1>4, <1>5
      <4>3. index + 1 + 1 + m_size - m_size' = old + 1
        BY <1>1, <1>4
      <4> QED BY <4>2, <4>3
    <3>5. SlotAt(m_head', m_size', index) = SlotAt(m_head, m_size, old)
      BY <2>2, <2>4
    <3> QED BY <3>2, <3>3, <3>4, <3>5
  <2> QED BY <2>3, <2>4, <1>4
<1>9. RingInv'
  BY <1>4, <1>5, <1>6, <1>7, <1>8 DEF RingInv, HistoryIsRecent
<1>10. recent' # <<>>
  BY <1>4, <1>5, EmptySeq
<1> QED BY <1>3, <1>4, <1>9, <1>10

-----------------------------------------------------------------------------
(* The histogram.                                                          *)

\* The columns of a line at a level.
Row(line, q) == {column \in 1..Width : line[column] = q}

LEMMA RowCount ==
  ASSUME NEW line, NEW q, NEW i
  PROVE  /\ IsFiniteSet(Row(line, q)) /\ IsFiniteSet({i} \X Row(line, q))
         /\ Cardinality({i} \X Row(line, q)) = CountIn(line, q)
         /\ CountIn(line, q) \in Nat
<1>1. IsFiniteSet(Row(line, q))
  <2>1. IsFiniteSet(1..Width)
    BY Constants, FS_Interval
  <2>2. Row(line, q) \in SUBSET (1..Width)
    BY DEF Row
  <2> QED BY <2>1, <2>2, FS_Subset
<1>2. IsFiniteSet({i}) /\ Cardinality({i}) = 1
  BY FS_Singleton
<1>3. Cardinality(Row(line, q)) = CountIn(line, q) /\ CountIn(line, q) \in Nat
  BY <1>1, FS_CardinalityType DEF Row, CountIn
<1>4. /\ IsFiniteSet({i} \X Row(line, q))
      /\ Cardinality({i} \X Row(line, q)) = 1 * Cardinality(Row(line, q))
  BY <1>1, <1>2, FS_Product
<1> QED BY <1>1, <1>3, <1>4

LEMMA PixelsFinite ==
  ASSUME NEW lines \in Seq(Lines), NEW q
  PROVE  /\ IsFiniteSet(PixelsAt(lines, q))
         /\ Cardinality(PixelsAt(lines, q)) \in Nat
<1>1. DOMAIN lines = 1..Len(lines) /\ Len(lines) \in Nat
  BY LenProperties
<1>2. IsFiniteSet(1..Len(lines)) /\ IsFiniteSet(1..Width)
  BY <1>1, Constants, FS_Interval
<1>3. IsFiniteSet((1..Len(lines)) \X (1..Width))
  BY <1>2, FS_Product
<1>4. PixelsAt(lines, q) \in SUBSET ((1..Len(lines)) \X (1..Width))
  BY <1>1 DEF PixelsAt
<1>5. IsFiniteSet(PixelsAt(lines, q))
  BY <1>3, <1>4, FS_Subset
<1> QED BY <1>5, FS_CardinalityType

\* A line more has its own pixels more.
LEMMA PixelsOfAppend ==
  ASSUME NEW lines \in Seq(Lines), NEW line \in Lines, NEW q
  PROVE  Cardinality(PixelsAt(Append(lines, line), q))
           = Cardinality(PixelsAt(lines, q)) + CountIn(line, q)
<1> DEFINE n == Len(lines)
           more == Append(lines, line)
           new == {n + 1} \X Row(line, q)
<1>1. /\ n \in Nat /\ DOMAIN lines = 1..n
      /\ DOMAIN more = 1..(n + 1) /\ more[n + 1] = line
      /\ \A i \in 1..n : more[i] = lines[i]
  BY LenProperties, AppendProperties
<1> HIDE DEF n, more
<1>2. PixelsAt(more, q) = PixelsAt(lines, q) \cup new
  <2>1. ASSUME NEW p \in PixelsAt(more, q)
        PROVE  p \in PixelsAt(lines, q) \cup new
    <3>1. /\ p = <<p[1], p[2]>> /\ p[1] \in 1..(n + 1) /\ p[2] \in 1..Width
          /\ more[p[1]][p[2]] = q
      BY <1>1 DEF PixelsAt
    <3>2. CASE p[1] = n + 1
      <4>1. p[2] \in Row(line, q)
        BY <1>1, <3>1, <3>2 DEF Row
      <4>2. <<p[1], p[2]>> \in new
        BY <3>2, <4>1
      <4> QED BY <3>1, <4>2
    <3>3. CASE p[1] \in 1..n
      <4>1. p \in (DOMAIN lines) \X (1..Width)
        BY <1>1, <3>1, <3>3
      <4>2. lines[p[1]][p[2]] = q
        BY <1>1, <3>1, <3>3
      <4> QED BY <4>1, <4>2 DEF PixelsAt
    <3> QED BY <3>1, <3>2, <3>3, <1>1
  <2>2. ASSUME NEW p \in PixelsAt(lines, q)
        PROVE  p \in PixelsAt(more, q)
    <3>1. /\ p = <<p[1], p[2]>> /\ p[1] \in 1..n /\ p[2] \in 1..Width
          /\ lines[p[1]][p[2]] = q
      BY <1>1 DEF PixelsAt
    <3>2. p \in (DOMAIN more) \X (1..Width) /\ more[p[1]][p[2]] = q
      BY <3>1, <1>1
    <3> QED BY <3>2 DEF PixelsAt
  <2>3. ASSUME NEW p \in new
        PROVE  p \in PixelsAt(more, q)
    <3>1. p = <<p[1], p[2]>> /\ p[1] = n + 1 /\ p[2] \in 1..Width /\ line[p[2]] = q
      BY DEF Row
    <3>2. p \in (DOMAIN more) \X (1..Width) /\ more[p[1]][p[2]] = q
      BY <3>1, <1>1
    <3> QED BY <3>2 DEF PixelsAt
  <2> QED BY <2>1, <2>2, <2>3
<1>3. PixelsAt(lines, q) \cap new = {}
  BY <1>1 DEF PixelsAt
<1>4. /\ IsFiniteSet(PixelsAt(lines, q)) /\ IsFiniteSet(new)
      /\ Cardinality(new) = CountIn(line, q) /\ CountIn(line, q) \in Nat
      /\ Cardinality(PixelsAt(lines, q)) \in Nat
  BY PixelsFinite, RowCount
<1> HIDE DEF new
<1>5. Cardinality(PixelsAt(lines, q) \cup new)
        = Cardinality(PixelsAt(lines, q)) + Cardinality(new)
          - Cardinality(PixelsAt(lines, q) \cap new)
  BY <1>4, FS_Union
<1>6. Cardinality(PixelsAt(lines, q) \cap new) = 0
  BY <1>3, FS_EmptySet
<1>7. Cardinality(PixelsAt(more, q))
        = Cardinality(PixelsAt(lines, q)) + CountIn(line, q)
  BY <1>2, <1>4, <1>5, <1>6
<1> QED BY <1>7 DEF more

\* Without the oldest line its pixels are gone.
LEMMA PixelsOfTail ==
  ASSUME NEW lines \in Seq(Lines), lines # <<>>, NEW q
  PROVE  Cardinality(PixelsAt(Tail(lines), q))
           = Cardinality(PixelsAt(lines, q)) - CountIn(lines[1], q)
<1> DEFINE n == Len(lines)
           rest == Tail(lines)
           old == {1} \X Row(lines[1], q)
           stay == PixelsAt(lines, q) \ old
           f == [p \in PixelsAt(rest, q) |-> <<p[1] + 1, p[2]>>]
<1>1. /\ n \in Nat \ {0} /\ DOMAIN lines = 1..n
      /\ rest \in Seq(Lines) /\ DOMAIN rest = 1..(n - 1)
      /\ \A i \in 1..(n - 1) : rest[i] = lines[i + 1]
  <2>1. n \in Nat \ {0}
    BY EmptySeq
  <2>2. /\ rest \in Seq(Lines) /\ Len(rest) = n - 1
        /\ \A i \in 1..Len(rest) : rest[i] = lines[i + 1]
    BY HeadTailProperties
  <2>3. DOMAIN rest = 1..Len(rest) /\ DOMAIN lines = 1..n
    BY <2>2, LenProperties
  <2> QED BY <2>1, <2>2, <2>3
<1> HIDE DEF n, rest
<1>2. ASSUME NEW p \in PixelsAt(rest, q)
      PROVE  /\ p = <<p[1], p[2]>> /\ p[1] \in 1..(n - 1) /\ p[2] \in 1..Width
             /\ f[p] = <<p[1] + 1, p[2]>>
             /\ f[p] \in stay
  <2>1. /\ p = <<p[1], p[2]>> /\ p[1] \in 1..(n - 1) /\ p[2] \in 1..Width
        /\ rest[p[1]][p[2]] = q
    BY <1>1 DEF PixelsAt
  <2>2. f[p] = <<p[1] + 1, p[2]>>
    OBVIOUS
  <2> DEFINE r == <<p[1] + 1, p[2]>>
  <2>3. r \in (DOMAIN lines) \X (1..Width) /\ lines[r[1]][r[2]] = q
    BY <1>1, <2>1
  <2>4. r \notin old
    BY <2>1
  <2>5. r \in stay
    BY <2>3, <2>4 DEF PixelsAt
  <2> QED BY <2>1, <2>2, <2>5
<1>3. ASSUME NEW r \in stay
      PROVE  \E p \in PixelsAt(rest, q) : f[p] = r
  <2>1. /\ r = <<r[1], r[2]>> /\ r[1] \in 1..n /\ r[2] \in 1..Width
        /\ lines[r[1]][r[2]] = q
    BY <1>1 DEF PixelsAt
  <2>2. r[1] # 1
    <3> SUFFICES ASSUME r[1] = 1 PROVE FALSE
      OBVIOUS
    <3>1. r[2] \in Row(lines[1], q)
      BY <2>1 DEF Row
    <3>2. <<r[1], r[2]>> \in old
      BY <3>1
    <3> QED BY <2>1, <3>2
  <2> DEFINE p == <<r[1] - 1, r[2]>>
  <2>3. p \in (DOMAIN rest) \X (1..Width) /\ rest[p[1]][p[2]] = q
    <3>1. r[1] - 1 \in 1..(n - 1) /\ r[1] - 1 + 1 = r[1]
      BY <1>1, <2>1, <2>2
    <3> QED BY <1>1, <2>1, <3>1
  <2>4. p \in PixelsAt(rest, q)
    BY <2>3 DEF PixelsAt
  <2>5. <<p[1] + 1, p[2]>> = r
    BY <1>1, <2>1
  <2> QED BY <2>4, <2>5
<1>4. ASSUME NEW p \in PixelsAt(rest, q), NEW r \in PixelsAt(rest, q), f[p] = f[r]
      PROVE  p = r
  <2> HIDE DEF f
  <2>1. <<p[1] + 1, p[2]>> = <<r[1] + 1, r[2]>>
    BY <1>2, <1>4
  <2>2. p = <<p[1], p[2]>> /\ r = <<r[1], r[2]>> /\ p[1] \in Int /\ r[1] \in Int
    BY <1>2, <1>1
  <2>3. p[1] = r[1] /\ p[2] = r[2]
    BY <2>1, <2>2
  <2> QED BY <2>2, <2>3
<1>5. f \in Bijection(PixelsAt(rest, q), stay)
  <2> HIDE DEF stay
  <2>1. f \in [PixelsAt(rest, q) -> stay]
    BY <1>2
  <2> HIDE DEF f
  <2> QED BY <2>1, <1>3, <1>4, Zenon DEF Bijection, Injection, Surjection, IsInjective
<1>6. /\ IsFiniteSet(PixelsAt(rest, q)) /\ IsFiniteSet(PixelsAt(lines, q))
      /\ Cardinality(PixelsAt(lines, q)) \in Nat
      /\ IsFiniteSet(old) /\ Cardinality(old) = CountIn(lines[1], q)
  BY <1>1, PixelsFinite, RowCount
<1>7. Cardinality(stay) = Cardinality(PixelsAt(rest, q))
  <2> HIDE DEF stay, f
  <2>1. ExistsBijection(PixelsAt(rest, q), stay)
    BY <1>5 DEF ExistsBijection
  <2> QED BY <2>1, <1>6, FS_Bijection
<1>8. PixelsAt(lines, q) \cap old = old
  <2> SUFFICES ASSUME NEW p \in old PROVE p \in PixelsAt(lines, q)
    OBVIOUS
  <2>1. p = <<p[1], p[2]>> /\ p[1] = 1 /\ p[2] \in 1..Width /\ lines[1][p[2]] = q
    BY DEF Row
  <2>2. p \in (DOMAIN lines) \X (1..Width) /\ lines[p[1]][p[2]] = q
    BY <1>1, <2>1
  <2> QED BY <2>2 DEF PixelsAt
<1> HIDE DEF old
<1>9. Cardinality(stay) = Cardinality(PixelsAt(lines, q))
                          - Cardinality(PixelsAt(lines, q) \cap old)
  BY <1>6, FS_Difference
<1>10. Cardinality(PixelsAt(rest, q))
         = Cardinality(PixelsAt(lines, q)) - CountIn(lines[1], q)
  BY <1>6, <1>7, <1>8, <1>9
<1> QED BY <1>10 DEF rest

\* What is subtracted for a full ring is the line push() overwrites.
LEMMA CountsAreRecount ==
  ASSUME RingInv, CountInv, NEW line \in Lines, Push(line)
  PROVE  /\ CountsWith(line) \in [Levels -> Nat]
         /\ \A q \in Levels :
              CountsWith(line)[q] = Cardinality(PixelsAt(recent', q))
<1> SUFFICES ASSUME NEW q \in Levels
             PROVE  CountsWith(line)[q] = Cardinality(PixelsAt(recent', q))
  <2>1. recent' \in Seq(Lines)
    BY PushKeepsRing DEF RingInv
  <2>2. \A p \in Levels : Cardinality(PixelsAt(recent', p)) \in Nat
    BY <2>1, PixelsFinite
  <2>3. CountsWith(line)
          = [p \in Levels |-> m_hist_counts[p] - Evicted(p) + CountIn(line, p)]
    BY DEF CountsWith
  <2> QED BY <2>2, <2>3
<1>1. /\ recent \in Seq(Lines) /\ m_size = Len(recent) /\ m_size \in 0..Capacity
      /\ m_hist_counts[q] = Cardinality(PixelsAt(recent, q))
      /\ recent' = Append(Kept(recent), line) /\ Kept(recent) \in Seq(Lines)
  BY PushKeepsRing, KeptLines
  DEF RingInv, HistoryIsRecent, CountInv, HistogramMatchesHistory
<1>2. Cardinality(PixelsAt(recent, q)) \in Nat /\ CountIn(line, q) \in Nat
  BY <1>1, PixelsFinite, RowCount
<1>3. Cardinality(PixelsAt(Kept(recent), q)) = m_hist_counts[q] - Evicted(q)
  <2>1. CASE HistoryFull
    <3>1. m_size = Capacity /\ recent # <<>> /\ Kept(recent) = Tail(recent)
      BY <1>1, <2>1, Constants, EmptySeq DEF HistoryFull, Kept
    <3>2. m_data[SlotAt(m_head, m_size, 0)] = recent[0 + 1]
      BY <1>1, <3>1, Constants DEF RingInv, HistoryIsRecent
    <3>3. Evicted(q) = CountIn(recent[1], q)
      BY <2>1, <3>2 DEF Evicted
    <3> QED BY <1>1, <3>1, <3>3, PixelsOfTail
  <2>2. CASE ~HistoryFull
    <3>1. Kept(recent) = recent /\ Evicted(q) = 0
      BY <1>1, <2>2 DEF HistoryFull, Kept, Evicted
    <3> QED BY <1>1, <1>2, <3>1
  <2> QED BY <2>1, <2>2
<1>4. Cardinality(PixelsAt(recent', q))
        = Cardinality(PixelsAt(Kept(recent), q)) + CountIn(line, q)
  BY <1>1, PixelsOfAppend
<1>5. CountsWith(line)[q] = m_hist_counts[q] - Evicted(q) + CountIn(line, q)
  BY DEF CountsWith
<1> QED BY <1>3, <1>4, <1>5

-----------------------------------------------------------------------------
(* The range.                                                              *)

UpTo(lines, q) == UNION {PixelsAt(lines, p) : p \in 0..q}

\* The sum over a histogram's first levels is the number of their pixels.
LEMMA SumIsPixels ==
  ASSUME NEW lines \in Seq(Lines), NEW counts,
         \A q \in Levels : counts[q] = Cardinality(PixelsAt(lines, q)),
         NEW q \in Levels
  PROVE  /\ IsFiniteSet(UpTo(lines, q)) /\ PixelsUpTo(lines, q) \in Nat
         /\ PixelsUpTo(lines, q) = Cardinality(UpTo(lines, q))
         /\ SumFunctionOnSet(counts, 0..q) = PixelsUpTo(lines, q)
<1> DEFINE S == 0..q
           P == [p \in S |-> PixelsAt(lines, p)]
           All == {P[p] : p \in S}
<1>1. IsFiniteSet(S) /\ S \subseteq Levels
  BY Constants, FS_Interval DEF Levels
<1>2. \A p \in S : IsFiniteSet(P[p]) /\ counts[p] = Cardinality(P[p])
  BY <1>1, PixelsFinite
<1>3. \A p, r \in S : p # r => P[p] \cap P[r] = {}
  BY DEF PixelsAt
<1>4. UNION All = UpTo(lines, q)
  BY DEF UpTo
<1>5. IsFiniteSet(UNION All)
  <2>1. P \in Surjection(S, All)
    BY DEF Surjection
  <2>2. \A T \in All : IsFiniteSet(T)
    BY <1>2
  <2> HIDE DEF P, All, S
  <2>3. \A f \in Surjection(S, All) : IsFiniteSet(All)
    BY <1>1, FS_Surjection
  <2> QED BY <2>1, <2>2, <2>3, FS_UNION
<1>6. SumFunctionOnSet(counts, S) = Cardinality(UNION All)
  <2> HIDE DEF P, S
  <2> QED BY <1>1, <1>2, <1>3, SumOfSizes
<1>7. PixelsUpTo(lines, q) = Cardinality(UpTo(lines, q))
  BY DEF PixelsUpTo, UpTo
<1> QED BY <1>4, <1>5, <1>6, <1>7, FS_CardinalityType

LEMMA MorePixelsAbove ==
  ASSUME NEW lines \in Seq(Lines), NEW p \in Levels, NEW q \in Levels, p <= q
  PROVE  PixelsUpTo(lines, p) <= PixelsUpTo(lines, q)
<1> DEFINE counts == [r \in Levels |-> Cardinality(PixelsAt(lines, r))]
<1>1. \A r \in Levels : counts[r] = Cardinality(PixelsAt(lines, r))
  OBVIOUS
<1> HIDE DEF counts
<1>2. /\ IsFiniteSet(UpTo(lines, q))
      /\ PixelsUpTo(lines, p) = Cardinality(UpTo(lines, p))
      /\ PixelsUpTo(lines, q) = Cardinality(UpTo(lines, q))
  BY <1>1, SumIsPixels
<1>3. UpTo(lines, p) \in SUBSET UpTo(lines, q)
  BY DEF UpTo, Levels
<1> QED BY <1>2, <1>3, FS_Subset

\* The top: no pixel is above it, and, unless it is 0, one is at it.
LEMMA TopIsReference ==
  ASSUME NEW lines \in Seq(Lines), NEW counts \in [Levels -> Nat],
         \A q \in Levels : counts[q] = Cardinality(PixelsAt(lines, q))
  PROVE  /\ TopLevel(counts) \in Levels
         /\ PixelsUpTo(lines, TopLevel(counts)) = PixelsUpTo(lines, MaxLevel)
         /\ TopLevel(counts) = RangeOf(lines)[2]
<1> DEFINE S == {0} \cup {q \in Levels : counts[q] # 0}
           top == TopLevel(counts)
           R == {q \in Levels : PixelsUpTo(lines, q) = PixelsUpTo(lines, MaxLevel)}
<1>1. Levels \subseteq Int /\ IsFiniteSet(Levels) /\ 0 \in Levels /\ MaxLevel \in Levels
  BY Constants, FS_Interval DEF Levels
<1>2. top \in S /\ \A y \in S : top >= y
  <2>1. S \subseteq Int /\ S # {}
    BY <1>1
  <2>2. IsFiniteSet(S)
    BY <1>1, FS_Subset
  <2> HIDE DEF S
  <2>3. Max(S) \in S /\ \A y \in S : Max(S) >= y
    BY <2>1, <2>2, MaxOf
  <2> QED BY <2>3 DEF TopLevel, S
<1>3. top \in Levels
  BY <1>1, <1>2
<1> HIDE DEF top
<1>4. UpTo(lines, top) = UpTo(lines, MaxLevel)
  <2>1. ASSUME NEW p \in 0..MaxLevel, p > top PROVE PixelsAt(lines, p) = {}
    <3>1. p \in Levels /\ p \notin S
      BY <1>1, <1>2, <2>1 DEF Levels
    <3>2. Cardinality(PixelsAt(lines, p)) = 0
      BY <3>1
    <3> QED BY <3>2, PixelsFinite, FS_EmptySet
  <2>2. top \in 0..MaxLevel /\ MaxLevel \in Nat
    BY <1>3, Constants DEF Levels
  <2>3. \A p \in 0..MaxLevel : p \in 0..top \/ p > top
    BY <2>2
  <2> QED BY <2>1, <2>2, <2>3 DEF UpTo
<1>5. PixelsUpTo(lines, top) = PixelsUpTo(lines, MaxLevel)
  BY <1>4 DEF PixelsUpTo, UpTo
<1>6. ASSUME NEW q \in R PROVE top <= q
  <2> SUFFICES ASSUME q < top PROVE FALSE
    BY <1>1, <1>3
  <2>1. q \in Levels /\ PixelsUpTo(lines, q) = PixelsUpTo(lines, top)
    BY <1>5
  <2>2. /\ IsFiniteSet(UpTo(lines, top))
        /\ Cardinality(UpTo(lines, q)) = Cardinality(UpTo(lines, top))
    BY <1>3, <2>1, SumIsPixels
  <2>3. UpTo(lines, q) \in SUBSET UpTo(lines, top)
    BY <1>3, <2>1 DEF UpTo, Levels
  <2>4. UpTo(lines, q) = UpTo(lines, top)
    BY <2>2, <2>3, FS_Subset
  <2>5. PixelsAt(lines, top) # {}
    <3>1. top # 0
      BY <2>1 DEF Levels
    <3>2. Cardinality(PixelsAt(lines, top)) # 0
      BY <3>1, <1>2
    <3> QED BY <3>2, FS_EmptySet
  <2>6. PICK pixel : pixel \in PixelsAt(lines, top)
    BY <2>5
  <2>7. pixel \in UpTo(lines, top)
    <3>1. top \in 0..top
      BY <1>3 DEF Levels
    <3> QED BY <3>1, <2>6 DEF UpTo
  <2>8. PICK p \in 0..q : pixel \in PixelsAt(lines, p)
    BY <2>4, <2>7 DEF UpTo
  <2>9. p = top
    BY <2>6, <2>8 DEF PixelsAt
  <2> QED BY <2>8, <2>9, <2>1, <1>1
<1>7. Min(R) = top
  <2>1. R \subseteq Int /\ top \in R
    BY <1>1, <1>3, <1>5
  <2> HIDE DEF R
  <2> QED BY <2>1, <1>6, MinIs
<1>8. RangeOf(lines)[2] = Min(R)
  BY DEF RangeOf
<1> QED BY <1>3, <1>5, <1>7, <1>8 DEF top

\* update_global_range() finds the median and the top of all pixels.
LEMMA RangeIsReference ==
  ASSUME NEW lines \in Seq(Lines), NEW counts \in [Levels -> Nat],
         \A q \in Levels : counts[q] = Cardinality(PixelsAt(lines, q))
  PROVE  <<MedianLevel(counts), TopLevel(counts)>> = RangeOf(lines)
<1> DEFINE top == TopLevel(counts)
           all == PixelsUpTo(lines, MaxLevel)
           Half(q) == 2 * PixelsUpTo(lines, q) >= all
           A == {top} \cup {q \in 0..top-1 : Half(q)}
           B == {q \in Levels : Half(q)}
<1>1. /\ top \in Levels /\ PixelsUpTo(lines, top) = all
      /\ top = RangeOf(lines)[2]
  BY TopIsReference
<1> HIDE DEF top
<1>2. top \in 0..MaxLevel /\ Levels = 0..MaxLevel /\ MaxLevel \in Levels
  BY <1>1, Constants DEF Levels
<1>3. all \in Nat /\ \A q \in Levels : PixelsUpTo(lines, q) \in Nat
  BY <1>2, SumIsPixels
<1>4. Half(top)
  BY <1>1, <1>3
<1>5. Min(A) = Min(B)
  <2>1. A \subseteq Int /\ IsFiniteSet(A) /\ A # {}
    <3>1. IsFiniteSet(0..MaxLevel)
      BY Constants, FS_Interval
    <3>2. A \in SUBSET (0..MaxLevel)
      BY <1>2
    <3> HIDE DEF A
    <3>3. IsFiniteSet(A)
      BY <3>1, <3>2, FS_Subset
    <3>4. A # {} /\ A \subseteq Int
      BY <3>2 DEF A
    <3> QED BY <3>3, <3>4
  <2> DEFINE m == Min(A)
  <2>2. m \in A /\ \A y \in A : m =< y
    <3> HIDE DEF A
    <3> QED BY <2>1, MinOf
  <2> HIDE DEF m
  <2>3. m \in B
    BY <1>2, <1>4, <2>2
  <2>4. ASSUME NEW y \in B PROVE m =< y
    <3>1. CASE y < top
      <4>1. y \in A
        BY <3>1, <1>2
      <4> QED BY <4>1, <2>2
    <3>2. CASE y >= top
      <4>1. m =< top
        BY <2>2
      <4> QED BY <4>1, <3>2, <2>3, <1>2
    <3> QED BY <3>1, <3>2, <1>2
  <2>5. Min(B) = m
    <3>1. B \subseteq Int
      BY <1>2
    <3> HIDE DEF B
    <3> QED BY <3>1, <2>3, <2>4, MinIs
  <2> QED BY <2>5 DEF m
<1>6. MedianLevel(counts) = Min(A)
  <2>1. \A q \in 0..top-1 : SumFunctionOnSet(counts, 0..q) = PixelsUpTo(lines, q)
    <3>1. \A q \in 0..top-1 : q \in Levels
      BY <1>2
    <3> QED BY <3>1, SumIsPixels
  <2>2. SumFunction(counts) = all
    <3>1. SumFunctionOnSet(counts, 0..MaxLevel) = all
      BY <1>2, SumIsPixels
    <3>2. DOMAIN counts = 0..MaxLevel
      BY <1>2
    <3> QED BY <3>1, <3>2 DEF SumFunction
  <2>3. {q \in 0..top-1 : 2 * SumFunctionOnSet(counts, 0..q) >= SumFunction(counts)}
          = {q \in 0..top-1 : Half(q)}
    BY <2>1, <2>2
  <2> QED BY <2>3 DEF MedianLevel, top
<1>7. RangeOf(lines) = <<Min(B), RangeOf(lines)[2]>>
  BY DEF RangeOf
<1> QED BY <1>1, <1>5, <1>6, <1>7 DEF top

\* No two levels give the range the display starts with.
LEMMA RangeIsNotDefault ==
  ASSUME NEW lines \in Seq(Lines)
  PROVE  RangeOf(lines) # DefaultRange
<1> DEFINE counts == [r \in Levels |-> Cardinality(PixelsAt(lines, r))]
<1>1. counts \in [Levels -> Nat]
  BY PixelsFinite
<1>2. \A r \in Levels : counts[r] = Cardinality(PixelsAt(lines, r))
  OBVIOUS
<1> HIDE DEF counts
<1>3. RangeOf(lines)[2] \in Levels
  BY <1>1, <1>2, TopIsReference
<1> QED BY <1>3 DEF Levels, DefaultRange

-----------------------------------------------------------------------------
(* The steps.                                                              *)

LEMMA EmptyHistory ==
  /\ <<>> \in Seq(Lines) /\ Len(<<>>) = 0
  /\ \A q : Cardinality(PixelsAt(<<>>, q)) = 0
<1>1. <<>> \in Seq(Lines) /\ Len(<<>>) = 0
  BY EmptySeq
<1>2. ASSUME NEW q PROVE Cardinality(PixelsAt(<<>>, q)) = 0
  <2>1. PixelsAt(<<>>, q) = {}
    BY DEF PixelsAt
  <2> QED BY <2>1, FS_EmptySet
<1> QED BY <1>1, <1>2

LEMMA InitInv == Init => WaterfallInv
<1> SUFFICES ASSUME Init PROVE WaterfallInv
  OBVIOUS
<1> USE DEF Init
<1>1. RingInv
  BY EmptyHistory, Constants DEF RingInv, HistoryIsRecent
<1>2. CountInv
  BY EmptyHistory DEF CountInv, HistogramMatchesHistory
<1>3. RangeInv /\ TextureInv
  BY DEF RangeInv, TextureInv
<1>4. FrameType
  <2>1. scrolled \in 0..Capacity
    BY Constants
  <2> QED BY <2>1 DEF FrameType
<1>5. FrameInv
  BY DEF FrameInv, ScreenShowsRecent, ColoursAreCurrent
<1> QED BY <1>1, <1>2, <1>3, <1>4, <1>5 DEF WaterfallInv

\* After a line was added the range is that of the history and the table that
\* of the range; unless a full render is asked for, neither has changed.
LEMMA AddKeepsRange ==
  ASSUME WaterfallInv, AddSpectrumLine
  PROVE  /\ CountInv' /\ RangeInv'
         /\ m_rgba_lut' = Lut' /\ m_needs_full_render' \in BOOLEAN
         /\ ~m_needs_full_render' =>
              ~m_needs_full_render /\ recent # <<>> /\ Lut' = Lut
<1> USE DEF WaterfallInv
<1>1. PICK line \in Lines :
        /\ Push(line) /\ m_hist_counts' = CountsWith(line)
        /\ m_global_range' = <<MedianLevel(m_hist_counts'),
                               TopLevel(m_hist_counts')>>
        /\ RebuildOnNewRange
  BY DEF AddSpectrumLine
<1>2. recent' \in Seq(Lines) /\ recent' # <<>>
  BY <1>1, PushKeepsRing DEF RingInv
<1>3. CountInv'
  BY <1>1, CountsAreRecount DEF CountInv, HistogramMatchesHistory
<1>4. m_global_range' = ReferenceRange'
  <2>1. m_global_range' = RangeOf(recent')
    BY <1>1, <1>2, <1>3, RangeIsReference DEF CountInv, HistogramMatchesHistory
  <2> QED BY <2>1 DEF ReferenceRange
<1>5. m_global_range' # DefaultRange
  BY <1>2, <1>4, RangeIsNotDefault DEF ReferenceRange
<1>6. m_color_map' = m_color_map
  BY DEF AddSpectrumLine
<1>7. CASE m_global_range' = m_global_range
  <2>1. recent # <<>> /\ m_rgba_lut' = m_rgba_lut
        /\ m_needs_full_render' = m_needs_full_render
    BY <1>1, <1>5, <1>7 DEF RangeInv, RebuildOnNewRange
  <2>2. m_rgba_lut = <<m_color_map, m_global_range>> /\ m_global_range = ReferenceRange
    BY <2>1 DEF RangeInv
  <2>3. Lut' = <<m_color_map', ReferenceRange'>>
    BY DEF Lut
  <2> QED BY <1>2, <1>3, <1>4, <1>6, <1>7, <2>1, <2>2, <2>3
          DEF RangeInv, Lut, FrameType
<1>8. CASE m_global_range' # m_global_range
  <2>1. m_rgba_lut' = <<m_color_map, m_global_range'>> /\ m_needs_full_render' = TRUE
    BY <1>1, <1>8 DEF RebuildOnNewRange
  <2>2. Lut' = <<m_color_map', ReferenceRange'>>
    BY DEF Lut
  <2> QED BY <1>2, <1>3, <1>4, <1>6, <2>1, <2>2 DEF RangeInv
<1> QED BY <1>7, <1>8

\* A line added is drawn, alone or with the whole pane, as the screen is to
\* show it.
LEMMA AddKeepsFrame ==
  ASSUME WaterfallInv, AddSpectrumLine
  PROVE  RingInv' /\ TextureInv' /\ FrameType' /\ FrameInv'
<1> USE DEF WaterfallInv
<1>1. PICK line \in Lines : Push(line) /\ RenderLine(line)
  BY DEF AddSpectrumLine
<1>2. /\ RingInv' /\ recent' = Append(Kept(recent), line) /\ recent' # <<>>
      /\ m_size' = SizeAfter(m_size)
  BY <1>1, PushKeepsRing
<1>3. /\ m_rgba_lut' = Lut' /\ m_needs_full_render' \in BOOLEAN
      /\ ~m_needs_full_render' =>
              ~m_needs_full_render /\ recent # <<>> /\ Lut' = Lut
  BY AddKeepsRange
<1>4. /\ main \in {"changed", "drawn"} /\ main' = "render"
      /\ UNCHANGED <<m_texture, m_wf_scroll_tex, screen, seeded, scrolled>>
  BY DEF AddSpectrumLine, paneVars
<1>5. TextureInv'
  BY <1>4 DEF TextureInv
<1>6. /\ recent \in Seq(Lines) /\ m_size = Len(recent) /\ m_size \in 0..Capacity
      /\ recent' \in Seq(Lines) /\ m_size' = Len(recent') /\ m_size' \in 1..Capacity
      /\ m_head' \in 0..Capacity-1
  <2>1. m_size' # 0
    BY <1>2, EmptySeq DEF RingInv, HistoryIsRecent
  <2> QED BY <1>2, <2>1, Constants DEF RingInv, HistoryIsRecent
<1>7. /\ Kept(recent) \in Seq(Lines) /\ Len(Kept(recent)) = m_size' - 1
      /\ \A i \in 1..m_size'-1 :
              /\ i + 1 + m_size - m_size' \in 1..m_size
              /\ Kept(recent)[i] = recent[i + 1 + m_size - m_size']
  <2>1. Len(recent) <= Capacity /\ m_size' = SizeAfter(Len(recent))
    BY <1>2, <1>6, Constants
  <2>2. /\ Kept(recent) \in Seq(Lines)
        /\ Len(Kept(recent)) = SizeAfter(Len(recent)) - 1
        /\ \A i \in 1..Len(Kept(recent)) :
              /\ i + 1 + Len(recent) - SizeAfter(Len(recent)) \in 1..Len(recent)
              /\ Kept(recent)[i]
                   = recent[i + 1 + Len(recent) - SizeAfter(Len(recent))]
    BY <1>6, <2>1, KeptLines
  <2> QED BY <1>6, <2>1, <2>2
<1>8. /\ recent'[m_size'] = line
      /\ \A i \in 1..m_size'-1 : recent'[i] = recent[i + 1 + m_size - m_size']
  <2>1. /\ \A i \in 1..Len(Kept(recent)) : Append(Kept(recent), line)[i] = Kept(recent)[i]
        /\ Append(Kept(recent), line)[Len(Kept(recent))+1] = line
    BY <1>7, AppendProperties
  <2> QED BY <2>1, <1>2, <1>6, <1>7
<1>9. \A row : Expected(row)' = IF row <= m_size' THEN Drawn(recent'[row], Lut') ELSE Black
  BY <1>6 DEF Expected, Lut
<1>10. ASSUME NeedsFullRender'
       PROVE  \A row \in Rows : m_pixels'[row] = Expected(row)'
  <2>1. m_pixels' = [row \in Rows |->
            IF row <= m_size'
            THEN Drawn(m_data'[SlotAt(m_head', m_size', row - 1)], m_rgba_lut')
            ELSE Black]
    BY <1>1, <1>10 DEF RenderLine, NeedsFullRender, HistoryFull
  <2>2. ASSUME NEW row \in Rows, row <= m_size'
        PROVE  m_data'[SlotAt(m_head', m_size', row - 1)] = recent'[row]
    <3>1. row - 1 \in 0..m_size'-1 /\ row - 1 + 1 = row
      BY <2>2, <1>6, Constants DEF Rows
    <3> QED BY <3>1, <1>2 DEF RingInv, HistoryIsRecent
  <2> QED BY <2>1, <2>2, <1>3, <1>9
<1>11. ASSUME ~NeedsFullRender'
       PROVE  ScrollInv'
  <2>1. /\ ~m_needs_full_render' /\ m_size' = Capacity
        /\ m_new_line' = Drawn(line, m_rgba_lut')
    BY <1>1, <1>11 DEF RenderLine, NeedsFullRender, HistoryFull
  <2>2. ~m_needs_full_render /\ main = "drawn" /\ Lut' = Lut
    BY <1>3, <1>4, <2>1 DEF FrameInv
  <2>3. m_new_line' = Expected(Capacity)'
    BY <1>3, <1>8, <1>9, <2>1, Constants
  <2>4. ASSUME NEW row \in Rows \ {1}, screen'[row] # Black
        PROVE  screen'[row].lut = Lut'
    BY <2>2, <2>4, <1>4 DEF FrameInv, ColoursAreCurrent, Lut
  <2>5. ASSUME NEW row \in Rows \ {1}, seeded' \/ row > Capacity - scrolled'
        PROVE  screen'[row] = Expected(row - 1)'
    <3>1. row \in 2..Capacity
      BY Constants DEF Rows
    <3>2. HistoryFull
      <4> SUFFICES ASSUME ~HistoryFull PROVE FALSE
        OBVIOUS
      <4>1. ~seeded /\ scrolled = 0
        BY <2>2 DEF FrameInv
      <4> QED BY <4>1, <2>5, <3>1, <1>4, Constants
    <3>3. screen[row] = Expected(row)
      BY <2>2, <2>5, <1>4 DEF FrameInv, ScreenShowsRecent
    <3>4. m_size = Capacity /\ row <= Len(recent)
      BY <3>1, <3>2, <1>6 DEF HistoryFull
    <3>5. Expected(row) = Drawn(recent[row], Lut)
      BY <3>4 DEF Expected, Lut
    <3>6. recent'[row - 1] = recent[row]
      <4>1. row - 1 \in 1..m_size'-1 /\ row - 1 + 1 + m_size - m_size' = row
        BY <2>1, <3>1, <3>4, Constants
      <4> QED BY <4>1, <1>8
    <3>7. row - 1 <= m_size'
      BY <2>1, <3>1, Constants
    <3>8. Expected(row - 1)' = Drawn(recent'[row - 1], Lut')
      BY <1>9, <3>7
    <3> QED BY <3>3, <3>5, <3>6, <3>8, <2>2, <1>4
  <2> QED BY <2>3, <2>4, <2>5 DEF ScrollInv
<1>12. FrameInv'
  BY <1>2, <1>4, <1>10, <1>11
  DEF FrameInv, ScreenShowsRecent, ColoursAreCurrent
<1>13. FrameType'
  BY <1>3, <1>4 DEF FrameType
<1> QED BY <1>2, <1>5, <1>12, <1>13

\* The whole pane, drawn from m_pixels.
LEMMA DrawWholeInv ==
  ASSUME WaterfallInv, DrawWhole
  PROVE  WaterfallInv'
<1> USE DEF WaterfallInv
<1>1. /\ main = "render" /\ NeedsFullRender /\ main' = "drawn"
      /\ m_texture' = m_pixels /\ m_wf_scroll_tex' = Seed /\ screen' = m_pixels
      /\ m_needs_full_render' = FALSE /\ seeded' = HistoryFull /\ scrolled' = 0
      /\ UNCHANGED <<m_data, m_size, m_head, recent, m_hist_counts, m_color_map,
                     m_global_range, m_rgba_lut, m_pixels, m_new_line>>
  BY DEF DrawWhole, ringVars
<1>2. RingInv' /\ CountInv' /\ RangeInv'
  BY <1>1 DEF RingInv, CountInv, RangeInv, HistoryIsRecent,
              HistogramMatchesHistory, ReferenceRange
<1>3. TextureInv'
  BY <1>1 DEF TextureInv, Seed
<1>4. \A row \in Rows : screen'[row] = Expected(row)'
  BY <1>1 DEF FrameInv, Expected, ReferenceRange
<1>5. ScreenShowsRecent'
  BY <1>4 DEF ScreenShowsRecent
<1>6. ColoursAreCurrent'
  <2> SUFFICES ASSUME NEW row \in Rows, screen'[row] # Black
               PROVE  screen'[row].lut = <<m_color_map', ReferenceRange'>>
    BY DEF ColoursAreCurrent
  <2>1. screen'[row] = Drawn(recent'[row], <<m_color_map', ReferenceRange'>>)
    BY <1>4 DEF Expected
  <2> QED BY <2>1 DEF Drawn
<1>7. FrameInv'
  BY <1>1, <1>5, <1>6 DEF FrameInv, HistoryFull
<1>8. FrameType'
  <2>1. scrolled' \in 0..Capacity
    BY <1>1, Constants
  <2>2. seeded' \in BOOLEAN /\ m_needs_full_render' \in BOOLEAN
    BY <1>1 DEF HistoryFull
  <2> QED BY <1>1, <2>1, <2>2 DEF FrameType
<1> QED BY <1>2, <1>3, <1>7, <1>8

\* Last frame's pane moved up, the newest line below it.
LEMMA DrawScrolledInv ==
  ASSUME WaterfallInv, DrawScrolled
  PROVE  WaterfallInv'
<1> USE DEF WaterfallInv
<1>1. /\ main = "render" /\ ~NeedsFullRender /\ main' = "drawn"
      /\ m_wf_scroll_tex' = screen'
      /\ m_needs_full_render' = FALSE
      /\ scrolled' = IF scrolled = Capacity THEN Capacity ELSE scrolled + 1
      /\ UNCHANGED <<m_data, m_size, m_head, recent, m_hist_counts, m_color_map,
                     m_global_range, m_rgba_lut, m_pixels, m_new_line,
                     m_texture, seeded>>
  BY DEF DrawScrolled, ringVars
<1>2. screen' = [row \in Rows |-> IF row = Capacity THEN m_new_line
                                                    ELSE screen[row + 1]]
  BY DEF DrawScrolled, TextureInv
<1>3. RingInv' /\ CountInv' /\ RangeInv'
  BY <1>1 DEF RingInv, CountInv, RangeInv, HistoryIsRecent,
              HistogramMatchesHistory, ReferenceRange
<1>4. TextureInv'
  <2>1. Capacity \in DOMAIN screen' /\ DOMAIN NoTexture = {}
    BY <1>2, Constants DEF Rows, NoTexture
  <2>2. screen' # NoTexture
    BY <2>1
  <2> QED BY <1>1, <2>2 DEF TextureInv
<1>5. HistoryFull /\ ScrollInv /\ Lut' = Lut /\ \A row : Expected(row)' = Expected(row)
  BY <1>1 DEF FrameInv, NeedsFullRender, Lut, Expected, ReferenceRange
<1>6. Len(recent) = Capacity /\ scrolled \in 0..Capacity
  BY <1>5 DEF HistoryFull, RingInv, HistoryIsRecent, FrameType
<1>7. ASSUME NEW row \in Rows
      PROVE  /\ screen'[row] # Black => screen'[row].lut = Lut'
             /\ seeded' \/ row > Capacity - scrolled' => screen'[row] = Expected(row)'
  <2>1. CASE row = Capacity
    <3>1. screen'[row] = Drawn(recent[row], Lut)
      BY <1>2, <1>5, <1>6, <2>1, Constants DEF ScrollInv, Expected, Lut
    <3>2. screen'[row].lut = Lut
      BY <3>1 DEF Drawn
    <3>3. screen'[row] = Expected(row)
      BY <1>2, <1>5, <2>1 DEF ScrollInv
    <3> QED BY <1>5, <3>2, <3>3
  <2>2. CASE row # Capacity
    <3>1. row + 1 \in Rows \ {1} /\ (row + 1) - 1 = row /\ screen'[row] = screen[row + 1]
      BY <1>2, <2>2, Constants DEF Rows
    <3>2. screen[row + 1] # Black => screen[row + 1].lut = Lut
      BY <1>5, <3>1 DEF ScrollInv
    <3>3. seeded \/ row + 1 > Capacity - scrolled => screen[row + 1] = Expected(row)
      BY <1>5, <3>1 DEF ScrollInv
    <3>4. row > Capacity - scrolled' => row + 1 > Capacity - scrolled
      BY <1>1, <1>6, Constants DEF Rows
    <3> QED BY <1>1, <1>5, <3>1, <3>2, <3>3, <3>4
  <2> QED BY <2>1, <2>2
<1>8. ScreenShowsRecent' /\ ColoursAreCurrent'
  BY <1>1, <1>5, <1>7 DEF ScreenShowsRecent, ColoursAreCurrent, HistoryFull, Lut
<1>9. FrameInv'
  BY <1>1, <1>5, <1>8 DEF FrameInv, HistoryFull
<1>10. FrameType'
  <2>1. scrolled' \in 0..Capacity
    BY <1>1, <1>6, Constants
  <2>2. seeded' \in BOOLEAN /\ m_needs_full_render' \in BOOLEAN
    BY <1>1 DEF FrameType
  <2> QED BY <1>1, <2>1, <2>2 DEF FrameType
<1> QED BY <1>3, <1>4, <1>9, <1>10

\* A new colour map is drawn with the next line.
LEMMA SetColorMapInv ==
  ASSUME WaterfallInv, SetColorMap
  PROVE  WaterfallInv'
<1> USE DEF WaterfallInv
<1>1. /\ main' = "changed" /\ m_needs_full_render' = TRUE
      /\ m_rgba_lut' = <<m_color_map', m_global_range>>
      /\ UNCHANGED <<m_data, m_size, m_head, recent, m_hist_counts, m_global_range,
                     m_texture, m_wf_scroll_tex, screen, seeded, scrolled>>
  BY DEF SetColorMap, AskFullRender, ringVars, paneVars
<1>2. RingInv' /\ CountInv' /\ RangeInv' /\ TextureInv'
  BY <1>1 DEF RingInv, CountInv, RangeInv, HistoryIsRecent, TextureInv,
              HistogramMatchesHistory, ReferenceRange
<1>3. FrameType' /\ FrameInv'
  BY <1>1 DEF FrameType, FrameInv, ScreenShowsRecent, ColoursAreCurrent
<1> QED BY <1>2, <1>3

\* reset() empties the ring and the histogram.
LEMMA ResetInv ==
  ASSUME WaterfallInv, Reset
  PROVE  WaterfallInv'
<1> USE DEF WaterfallInv
<1>1. /\ main' = "changed" /\ m_needs_full_render' = TRUE
      /\ m_size' = 0 /\ m_head' = 0 /\ recent' = <<>>
      /\ m_hist_counts' = ResetCounts /\ m_global_range' = DefaultRange
      /\ UNCHANGED <<m_data, m_texture, m_wf_scroll_tex, screen, seeded, scrolled>>
  BY DEF Reset, paneVars
<1>2. RingInv'
  BY <1>1, EmptyHistory, Constants DEF RingInv, HistoryIsRecent
<1>3. CountInv'
  BY <1>1, EmptyHistory DEF CountInv, HistogramMatchesHistory, ResetCounts
<1>4. RangeInv' /\ TextureInv'
  BY <1>1 DEF RangeInv, TextureInv
<1>5. FrameType' /\ FrameInv'
  BY <1>1 DEF FrameType, FrameInv, ScreenShowsRecent, ColoursAreCurrent
<1> QED BY <1>2, <1>3, <1>4, <1>5

LEMMA StutterInv ==
  ASSUME WaterfallInv, UNCHANGED vars
  PROVE  WaterfallInv'
<1> USE DEF vars, ringVars, paneVars
<1>1. RingInv' /\ CountInv' /\ RangeInv' /\ TextureInv'
  BY DEF WaterfallInv, RingInv, CountInv, RangeInv, HistoryIsRecent, TextureInv,
         HistogramMatchesHistory, ReferenceRange
<1>2. FrameInv'
  BY DEF WaterfallInv, FrameInv, ScreenShowsRecent, ColoursAreCurrent, ScrollInv,
         NeedsFullRender, HistoryFull, Expected, ReferenceRange, Lut
<1>3. FrameType'
  BY DEF WaterfallInv, FrameType
<1> QED BY <1>1, <1>2, <1>3 DEF WaterfallInv

-----------------------------------------------------------------------------
(* The theorems.                                                           *)

\* The waterfall's state is consistent in every state: ring, histogram, range,
\* colour table, textures and screen.
THEOREM WaterfallIsConsistent == Spec => []WaterfallInv
<1>1. WaterfallInv /\ [Next]_vars => WaterfallInv'
  <2> SUFFICES ASSUME WaterfallInv, [Next]_vars PROVE WaterfallInv'
    OBVIOUS
  <2>1. CASE AddSpectrumLine
    BY <2>1, AddKeepsRange, AddKeepsFrame DEF WaterfallInv
  <2>2. CASE DrawWhole
    BY <2>2, DrawWholeInv
  <2>3. CASE DrawScrolled
    BY <2>3, DrawScrolledInv
  <2>4. CASE SetColorMap
    BY <2>4, SetColorMapInv
  <2>5. CASE Reset
    BY <2>5, ResetInv
  <2>6. CASE UNCHANGED vars
    BY <2>6, StutterInv
  <2> QED BY <2>1, <2>2, <2>3, <2>4, <2>5, <2>6 DEF Next
<1> QED BY InitInv, <1>1, PTL DEF Spec

\* The ring holds the last lines added since reset(), oldest first, wherever
\* its head is.
THEOREM RingHoldsHistory == Spec => []HistoryIsRecent
<1>1. WaterfallInv => HistoryIsRecent
  BY DEF WaterfallInv, RingInv
<1> QED BY WaterfallIsConsistent, <1>1, PTL

\* The debug assertion of update_global_range() holds: the histogram kept line
\* by line is what a recount of the history finds.
THEOREM HistogramIsExact == Spec => []HistogramMatchesHistory
<1>1. WaterfallInv => HistogramMatchesHistory
  BY DEF WaterfallInv, CountInv
<1> QED BY WaterfallIsConsistent, <1>1, PTL

\* A drawn frame shows the history in its current colours, whichever way it
\* was drawn, but for the rows kept from before the pane was full.
THEOREM DrawnFrameShowsHistory == Spec => []ScreenShowsRecent
<1>1. WaterfallInv => ScreenShowsRecent
  BY DEF WaterfallInv, FrameInv
<1> QED BY WaterfallIsConsistent, <1>1, PTL

\* No row on screen is in colours that a new range, palette or reset() has
\* made out of date.
THEOREM NoStaleColours == Spec => []ColoursAreCurrent
<1>1. WaterfallInv => ColoursAreCurrent
  BY DEF WaterfallInv, FrameInv
<1> QED BY WaterfallIsConsistent, <1>1, PTL
=============================================================================
