------------------------------ MODULE Spectrum ------------------------------
(***************************************************************************)
(* The spectrum pane: SpectrumDisplay (src/visualization/                  *)
(* spectrum_display.{h,cpp}) with the sections of main's loop that drive   *)
(* it (src/main.cpp).  A pass takes the trace keys, hands them to the      *)
(* display, sets the axis, the panel and the cursor's dot from what the    *)
(* display then holds, and either draws a new frame or, frozen or without  *)
(* samples, presents the last picture's trace again.                       *)
(*                                                                         *)
(* A frame is its bins' levels.  The average is kept as the levels that    *)
(* enter it, per bin; its weights are left out.  A bar is drawn from the   *)
(* bins of its column and the dB range, and stands for both; so does the   *)
(* dot.  The levels' unit is as fine as the decay of the range.            *)
(***************************************************************************)
EXTENDS Integers, SequencesExt, FiniteSetsExt

CONSTANTS Sizes,        \* FFT sizes
          Levels,       \* of a bin, in dB
          PaneWidth,    \* columns of the pane
          MedianStride, \* kMedianStride
          Headroom,     \* above the peak, 5 dB
          FloorMargin,  \* kFloorMargin
          TopDecay,     \* kTopDecayDb
          MaxFrames     \* bound: frames drawn

ASSUME SpectrumAssumption ==
  /\ Sizes # {} /\ Sizes \subseteq Nat \ {0}
  /\ Levels \subseteq Int /\ \E lowest \in Levels : \A l \in Levels : lowest <= l
  /\ PaneWidth \in Nat \ {0} /\ MedianStride \in Nat \ {0}
  /\ Headroom \in Nat \ {0} /\ FloorMargin \in Nat /\ TopDecay \in Nat \ {0}
  /\ MaxFrames \in Nat

VARIABLES
  step,             \* main's place in the loop
  max_hold, averaging, trace_reset, fft_size,   \* ControlState
  m_max_hold_enabled, m_avg_enabled,
  m_spectrum_data, m_avg_data, m_max_hold_data, \* empty: none yet
  m_top_db, m_range,   \* m_range is (m_min_db, m_max_db)
  spec_verts,       \* main's vertices: the trace last built
  picture,          \* what was just presented; empty before the first frame
  shown,            \* history: the frames, oldest first
  hold_from, avg_from,   \* history: those drawn when the trace was last cleared
  changed           \* history: the average was, since spec_verts was built

keyVars == <<max_hold, averaging, trace_reset, fft_size>>
traceVars == <<m_max_hold_enabled, m_avg_enabled, m_spectrum_data, m_avg_data,
               m_max_hold_data>>
rangeVars == <<m_top_db, m_range>>
historyVars == <<shown, hold_from, avg_from, changed>>
vars == <<step, keyVars, traceVars, rangeVars, spec_verts, picture, historyVars>>

Init ==
  /\ step = "keys"
  /\ max_hold = FALSE /\ averaging = TRUE /\ trace_reset = FALSE
  /\ fft_size \in Sizes
  /\ m_max_hold_enabled = FALSE /\ m_avg_enabled = TRUE
  /\ m_spectrum_data = <<>> /\ m_avg_data = <<>> /\ m_max_hold_data = <<>>
  /\ m_top_db = Min(Levels)      \* -inf: below what any frame gives
  /\ m_range = <<-120, 0>>
  /\ spec_verts = {} /\ picture = {}
  /\ shown = <<>> /\ hold_from = 0 /\ avg_from = 0 /\ changed = FALSE

-----------------------------------------------------------------------------
(* From bins to columns.                                                   *)

Columns(bins) == Min({bins, PaneWidth})

\* column_bins(): the bins of a column, counted from 1.
ColumnBins(column, columns, bins) ==
  LET lo == (column * bins) \div columns
      hi == ((column + 1) * bins) \div columns
  IN  (lo + 1)..Min({Max({hi, lo + 1}), bins})

\* The bins of each column.
PerColumn(bars) ==
  [column \in 0..Columns(Len(bars))-1 |->
     [bin \in ColumnBins(column, Columns(Len(bars)), Len(bars)) |-> bars[bin]]]

Raw(frame) == [bin \in DOMAIN frame |-> <<frame[bin]>>]

\* What build_vertices() draws the bars from.
Bars(on, average, frame) ==
  IF on /\ Len(average) = Len(frame) THEN average ELSE Raw(frame)

\* The trace build_vertices() makes: bars, and the held peak over them.
Trace(avgOn, average, holdOn, hold, frame, range) ==
  [bars |-> PerColumn(Bars(avgOn, average, frame)),
   hold |-> IF holdOn /\ Len(hold) = Len(frame) THEN PerColumn(hold) ELSE <<>>,
   range |-> range, avg |-> avgOn, max |-> holdOn]

\* Mutant: the readout is always of the newest frame.
BugSampleRaw == PerColumn(Raw(m_spectrum_data))

\* What sample_at_x() finds for the cursor on each column; it mirrors the above.
Sample ==
  PerColumn(IF m_avg_enabled /\ Len(m_avg_data) = Len(m_spectrum_data)
            THEN m_avg_data ELSE Raw(m_spectrum_data))

-----------------------------------------------------------------------------
(* update_spectrum().                                                      *)

\* The average with one more frame, seeded by the first of its size.
Averaged(average, frame) ==
  IF Len(average) # Len(frame) THEN Raw(frame)
  ELSE [bin \in DOMAIN frame |-> Append(average[bin], frame[bin])]

\* The held peak likewise.
BugHoldKeepsSize(hold, frame) ==
  IF hold = <<>> THEN frame
  ELSE [bin \in DOMAIN hold |-> Max({hold[bin], frame[Min({bin, Len(frame)})]})]
HeldWith(hold, frame) ==
  IF Len(hold) # Len(frame) THEN frame
  ELSE [bin \in DOMAIN frame |-> Max({hold[bin], frame[bin]})]

\* Of every kMedianStride-th bin the middle one, of two the upper.
Strided(frame) ==
  {bin \in DOMAIN frame : (bin - 1) % MedianStride = 0}
MedianLevel(frame) ==
  CHOOSE level \in ToSet(frame) :
    LET middle == Cardinality(Strided(frame)) \div 2
    IN  /\ Cardinality({b \in Strided(frame) : frame[b] < level}) <= middle
        /\ Cardinality({b \in Strided(frame) : frame[b] <= level}) > middle

\* The top rises at once and falls slowly.
BugTopOfTheFrame(frame) == Max(ToSet(frame)) + Headroom
Top(frame) == Max({Max(ToSet(frame)) + Headroom, m_top_db - TopDecay})

UpdateSpectrum(frame) ==
  /\ m_spectrum_data' = frame
  /\ m_avg_data' = IF m_avg_enabled THEN Averaged(m_avg_data, frame)
                   ELSE m_avg_data
  /\ m_max_hold_data' = IF m_max_hold_enabled THEN HeldWith(m_max_hold_data, frame)
                        ELSE m_max_hold_data
  /\ m_top_db' = Top(frame)
  /\ m_range' = <<MedianLevel(frame) - FloorMargin, m_top_db'>>
  /\ UNCHANGED <<m_max_hold_enabled, m_avg_enabled>>

-----------------------------------------------------------------------------
(* The passes of the loop.                                                 *)

\* A batch of m, a, x and FFT-size keys; the first three work in a freeze, too.
Keys ==
  /\ step = "keys"
  /\ max_hold' \in BOOLEAN /\ averaging' \in BOOLEAN /\ trace_reset' \in BOOLEAN
  /\ fft_size' \in Sizes
  /\ picture' = {}
  /\ step' = "display"
  /\ UNCHANGED <<traceVars, rangeVars, spec_verts, historyVars>>

\* set_max_hold() and set_averaging() clear on a transition; reset_traces().
BugToggleKeeps(now, was) == trace_reset
Cleared(now, was) == now # was \/ trace_reset

ApplyKeys ==
  /\ step = "display"
  /\ m_max_hold_enabled' = max_hold /\ m_avg_enabled' = averaging
  /\ m_max_hold_data' = IF Cleared(max_hold, m_max_hold_enabled) THEN <<>>
                        ELSE m_max_hold_data
  /\ m_avg_data' = IF Cleared(averaging, m_avg_enabled) THEN <<>> ELSE m_avg_data
  /\ trace_reset' = FALSE
  /\ hold_from' = IF max_hold # m_max_hold_enabled \/ trace_reset
                  THEN Len(shown) ELSE hold_from
  /\ avg_from' = IF averaging # m_avg_enabled \/ trace_reset
                 THEN Len(shown) ELSE avg_from
  /\ changed' = (changed \/ avg_from' # avg_from)
  /\ step' = "frame"
  /\ UNCHANGED <<max_hold, averaging, fft_size, m_spectrum_data, rangeVars,
                 spec_verts, picture, shown>>

\* The left axis, the panel's fields and the cursor are set from what the
\* display holds before this pass may draw a frame; then the vertices are
\* presented with them laid over.  A picture remembers the trace there was when
\* they were set, and whether the average was changed under it.
Present(fresh) ==
  picture' = {[trace |-> trace, readout |-> Sample, axis |-> m_range,
               avg |-> averaging, max |-> max_hold, fresh |-> fresh,
               before |-> spec_verts, changed |-> changed]
                : trace \in spec_verts'}

\* Frozen, or no frame in time.
PresentAgain ==
  /\ step = "frame"
  /\ UNCHANGED spec_verts
  /\ Present(FALSE)
  /\ step' = "keys"
  /\ UNCHANGED <<keyVars, traceVars, rangeVars, historyVars>>

DrawFrame ==
  /\ step = "frame" /\ Len(shown) < MaxFrames
  /\ \E frame \in TupleOf(Levels, fft_size) :
       /\ UpdateSpectrum(frame)
       /\ shown' = Append(shown, frame)
  /\ spec_verts' = {Trace(m_avg_enabled', m_avg_data', m_max_hold_enabled',
                          m_max_hold_data', m_spectrum_data', m_range')}
  /\ changed' = FALSE
  /\ Present(TRUE)
  /\ step' = "keys"
  /\ UNCHANGED <<keyVars, hold_from, avg_from>>

Next == Keys \/ ApplyKeys \/ PresentAgain \/ DrawFrame

Spec == Init /\ [][Next]_vars

-----------------------------------------------------------------------------
(* Properties *)

\* Types; a trace in use has a level for every bin of the frame it is drawn
\* with, or none yet.
TypeOK ==
  /\ step \in {"keys", "display", "frame"}
  /\ {max_hold, averaging, trace_reset, m_max_hold_enabled, m_avg_enabled,
      changed} \subseteq BOOLEAN
  /\ fft_size \in Sizes
  /\ m_spectrum_data \in {<<>>} \cup UNION {TupleOf(Levels, n) : n \in Sizes}
  /\ m_avg_enabled => Len(m_avg_data) \in {0, Len(m_spectrum_data)}
  /\ m_max_hold_enabled => Len(m_max_hold_data) \in {0, Len(m_spectrum_data)}
  /\ m_top_db \in Int /\ m_range[1] < m_range[2]

\* The frames after that one that have the size of the last, with none of
\* another size after them; their peak, and the levels an average of them takes.
RunSince(frames, from) ==
  {k \in from+1..Len(frames) :
     \A j \in k..Len(frames) : Len(frames[j]) = Len(Last(frames))}
PeakSince(frames, from) ==
  LET run == RunSince(frames, from)
  IN  IF run = {} THEN <<>>
      ELSE [bin \in DOMAIN Last(frames) |-> Max({frames[k][bin] : k \in run})]
AverageSince(frames, from) ==
  LET run == RunSince(frames, from)
  IN  IF run = {} THEN <<>>
      ELSE [bin \in DOMAIN Last(frames) |->
              [k \in 1..Cardinality(run) |-> frames[Min(run) + k - 1][bin]]]

\* The held peak and the average are of exactly the frames since the user last
\* switched them on or reset them, and of one size, however keys, size changes
\* and frames come in between.
TracesSinceReset ==
  /\ m_max_hold_enabled => m_max_hold_data = PeakSince(shown, hold_from)
  /\ m_avg_enabled => m_avg_data = AverageSince(shown, avg_from)

\* A burst stays inside the pane, and its held peak readable, for the frames
\* the headroom lasts at this decay, whatever quiet frames follow it.
BurstsStayInView ==
  \A k \in DOMAIN shown :
    (Len(shown) - k) * TopDecay <= Headroom =>
      \A bin \in DOMAIN shown[k] : shown[k][bin] <= m_range[2]

\* What is laid over a trace is of that trace or of the one before it, never of
\* an older one or of a mixture: the axis and, unless the average was switched or
\* reset under it, the cursor's dot are those of the trace on screen when the
\* pass began, which is the one shown unless the pass drew a new one; and a new
\* one is drawn in the modes the panel names.
OverlaysFitTrace ==
  \A p \in picture :
    /\ \A trace \in p.before :
         p.axis = trace.range /\ (~p.changed => p.readout = trace.bars)
    /\ IF p.fresh THEN p.avg = p.trace.avg /\ p.max = p.trace.max
       ELSE p.before = {p.trace}
=============================================================================
