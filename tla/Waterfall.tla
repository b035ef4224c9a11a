------------------------------ MODULE Waterfall ------------------------------
(***************************************************************************)
(* The waterfall (src/visualization/waterfall_display.{h,cpp} over         *)
(* src/utils/ring_buffer.h) and the two ways SdlRenderer draws it: the     *)
(* whole pane from m_pixels, or, in steady state, last frame's texture     *)
(* moved up by one line with the newest line below it.  main.cpp adds one  *)
(* line per frame, draws it and calls mark_rendered().                     *)
(*                                                                         *)
(* A line is its quantized levels.  A drawn row is the line and the lookup *)
(* table it was coloured with, which is the colour map and the dB range    *)
(* autoscaling chose, named by the two levels it is computed from.  Lines  *)
(* are one row high, as main.cpp makes them.  m_line_times is pushed and   *)
(* cleared together with m_history and is not kept apart from it.          *)
(***************************************************************************)
EXTENDS Integers, Sequences, FiniteSetsExt, Functions

CONSTANTS Capacity,   \* history lines, as many as the pane has rows
          Width,      \* columns
          MaxLevel,   \* levels are 0..MaxLevel (255)
          ColorMaps

ASSUME WaterfallAssumption ==
  /\ Capacity \in Nat \ {0} /\ Width \in Nat \ {0} /\ MaxLevel \in Nat
  /\ ColorMaps # {}

VARIABLES
  m_data, m_size, m_head,   \* the ring m_history
  m_hist_counts,
  m_color_map,
  m_global_range,           \* (m_global_min, m_global_max)
  m_rgba_lut,               \* what the table was last built from
  m_needs_full_render,
  m_pixels, m_new_line,     \* what render() drew
  m_texture, m_wf_scroll_tex, screen,  \* the renderer's pane, row by row
  main,     \* "changed": the display has changed since it was drawn;
            \* "render": a line was added; "drawn": the frame is on screen
  recent,   \* history: the last lines added since reset(), oldest first
  seeded,   \* history: the ring was full when the whole pane was last drawn
  scrolled  \* history: lines scrolled in since then, counted to Capacity

ringVars == <<m_data, m_size, m_head, recent>>
paneVars == <<m_texture, m_wf_scroll_tex, screen, seeded, scrolled>>
vars == <<ringVars, m_hist_counts, m_color_map, m_global_range, m_rgba_lut,
          m_needs_full_render, m_pixels, m_new_line, paneVars, main>>

-----------------------------------------------------------------------------
Levels == 0..MaxLevel
Lines == [1..Width -> Levels]
Rows == 1..Capacity

Black == [line |-> <<>>, lut |-> <<>>]
BlackPane == [row \in Rows |-> Black]
Drawn(line, lut) == [line |-> line, lut |-> lut]

NoTexture == <<>>  \* the scroll textures, not yet created

\* (m_min_db, m_max_db), the range while there is no line.  No two levels give
\* it: autoscaling adds a margin below the lower one and above the upper.
DefaultRange == <<-1, -1>>

\* Mutant: the ring is read as if it had never wrapped.
BugNoWrap(head, size, index) == index

\* RingBuffer::operator[](index) of a ring with this head and size.
SlotAt(head, size, index) == (head - size + index + Capacity) % Capacity

HistoryFull == m_size = Capacity

Init ==
  /\ m_data = [slot \in 0..Capacity-1 |-> <<>>] /\ m_size = 0 /\ m_head = 0
  /\ m_hist_counts = [q \in Levels |-> 0]
  /\ m_color_map \in ColorMaps
  /\ m_global_range = DefaultRange
  /\ m_rgba_lut = <<m_color_map, DefaultRange>>
  /\ m_needs_full_render = TRUE
  /\ m_pixels = BlackPane /\ m_new_line = Black
  /\ m_texture = BlackPane /\ m_wf_scroll_tex = NoTexture /\ screen = BlackPane
  /\ main = "changed"
  /\ recent = <<>> /\ seeded = FALSE /\ scrolled = 0

-----------------------------------------------------------------------------
(* add_spectrum_line() *)

CountIn(line, q) == Cardinality({column \in 1..Width : line[column] = q})

\* RingBuffer::push(): the next slot, and no more lines than slots.
Push(line) ==
  /\ m_data' = [m_data EXCEPT ![m_head] = line]
  /\ m_head' = (m_head + 1) % Capacity
  /\ m_size' = IF HistoryFull THEN m_size ELSE m_size + 1
  /\ recent' = Append(IF Len(recent) = Capacity THEN Tail(recent) ELSE recent,
                      line)

\* The counts lose the line that push() overwrites and gain the new one.
BugEvictTheNewest(q) ==
  IF HistoryFull THEN CountIn(m_data[SlotAt(m_head, m_size, m_size - 1)], q)
                 ELSE 0
Evicted(q) ==
  IF HistoryFull THEN CountIn(m_data[SlotAt(m_head, m_size, 0)], q) ELSE 0

CountsWith(line) ==
  [q \in Levels |-> m_hist_counts[q] - Evicted(q) + CountIn(line, q)]

\* update_global_range(): the last populated level, and the first below it at
\* which half of the pixels are reached.
TopLevel(counts) == Max({0} \cup {q \in Levels : counts[q] # 0})
MedianLevel(counts) ==
  Min({TopLevel(counts)} \cup
      {q \in 0..TopLevel(counts)-1 :
         2 * SumFunctionOnSet(counts, 0..q) >= SumFunction(counts)})

\* A range that has not changed rebuilds nothing; rebuild_rgba_lut() asks for a
\* full render.
RebuildOnNewRange ==
  IF m_global_range' = m_global_range
  THEN UNCHANGED <<m_rgba_lut, m_needs_full_render>>
  ELSE /\ m_rgba_lut' = <<m_color_map, m_global_range'>>
       /\ m_needs_full_render' = TRUE

\* render(): the newest line alone, or the whole pane with black below it.
RenderLine(line) ==
  IF ~m_needs_full_render' /\ m_size' = Capacity
  THEN /\ m_new_line' = Drawn(line, m_rgba_lut')
       /\ UNCHANGED m_pixels
  ELSE /\ m_pixels' = [row \in Rows |->
            IF row <= m_size'
            THEN Drawn(m_data'[SlotAt(m_head', m_size', row - 1)], m_rgba_lut')
            ELSE Black]
       /\ UNCHANGED m_new_line

AddSpectrumLine ==
  /\ main \in {"changed", "drawn"}
  /\ \E line \in Lines :
       /\ Push(line)
       /\ m_hist_counts' = CountsWith(line)
       /\ m_global_range' = <<MedianLevel(m_hist_counts'),
                              TopLevel(m_hist_counts')>>
       /\ RebuildOnNewRange
       /\ RenderLine(line)
  /\ main' = "render"
  /\ UNCHANGED <<m_color_map, paneVars>>

-----------------------------------------------------------------------------
(* Drawing the frame, and the changes between frames *)

NeedsFullRender == m_needs_full_render \/ ~HistoryFull

\* render_displays(), which also seeds the scroll texture, once there is one;
\* then mark_rendered().
BugNoSeed == m_wf_scroll_tex
Seed == IF m_wf_scroll_tex = NoTexture THEN NoTexture ELSE m_pixels

DrawWhole ==
  /\ main = "render" /\ NeedsFullRender
  /\ m_texture' = m_pixels
  /\ m_wf_scroll_tex' = Seed
  /\ screen' = m_pixels
  /\ m_needs_full_render' = FALSE
  /\ main' = "drawn"
  /\ seeded' = HistoryFull /\ scrolled' = 0
  /\ UNCHANGED <<ringVars, m_hist_counts, m_color_map, m_global_range,
                 m_rgba_lut, m_pixels, m_new_line>>

\* render_displays_scroll(), whose first frame starts from m_texture; then
\* mark_rendered().
DrawScrolled ==
  /\ main = "render" /\ ~NeedsFullRender
  /\ LET before == IF m_wf_scroll_tex = NoTexture THEN m_texture
                                                  ELSE m_wf_scroll_tex
     IN  screen' = [row \in Rows |-> IF row = Capacity THEN m_new_line
                                                       ELSE before[row + 1]]
  /\ m_wf_scroll_tex' = screen'
  /\ m_needs_full_render' = FALSE
  /\ main' = "drawn"
  /\ scrolled' = IF scrolled = Capacity THEN Capacity ELSE scrolled + 1
  /\ UNCHANGED <<ringVars, m_hist_counts, m_color_map, m_global_range,
                 m_rgba_lut, m_pixels, m_new_line, m_texture, seeded>>

\* set_color_map(), for the palette key.
BugNoFullRender == UNCHANGED m_needs_full_render
AskFullRender == m_needs_full_render' = TRUE

SetColorMap ==
  /\ main \in {"changed", "drawn"}
  /\ m_color_map' \in ColorMaps
  /\ m_rgba_lut' = <<m_color_map', m_global_range>>
  /\ AskFullRender
  /\ main' = "changed"
  /\ UNCHANGED <<ringVars, m_hist_counts, m_global_range, m_pixels, m_new_line,
                 paneVars>>

\* The counts reset() leaves.
ResetCounts == [q \in Levels |-> 0]

\* reset(), for a new FFT size.  The table is not rebuilt: the next line's
\* range differs from the default one and rebuilds it.
Reset ==
  /\ main \in {"changed", "drawn"}
  /\ m_size' = 0 /\ m_head' = 0 /\ recent' = <<>>
  /\ m_hist_counts' = ResetCounts
  /\ m_global_range' = DefaultRange
  /\ m_needs_full_render' = TRUE
  /\ main' = "changed"
  /\ UNCHANGED <<m_data, m_color_map, m_rgba_lut, m_pixels, m_new_line, paneVars>>

Next == AddSpectrumLine \/ DrawWhole \/ DrawScrolled \/ SetColorMap \/ Reset

Spec == Init /\ [][Next]_vars

-----------------------------------------------------------------------------
(* Properties *)

\* What the ring holds, seen from outside: the last lines added, oldest first.
HistoryIsRecent ==
  /\ m_size = Len(recent)
  /\ \A index \in 0..m_size-1 :
       m_data[SlotAt(m_head, m_size, index)] = recent[index + 1]

\* The debug assertion in update_global_range(): the counts kept line by line
\* are those a recount of the whole history finds.
PixelsAt(lines, q) ==
  {pixel \in (DOMAIN lines) \X (1..Width) : lines[pixel[1]][pixel[2]] = q}
HistogramMatchesHistory ==
  \A q \in Levels : m_hist_counts[q] = Cardinality(PixelsAt(recent, q))

\* The range the colours are chosen for: the median and the top of all pixels.
PixelsUpTo(lines, q) == Cardinality(UNION {PixelsAt(lines, p) : p \in 0..q})
RangeOf(lines) ==
  LET all == PixelsUpTo(lines, MaxLevel)
  IN  <<Min({q \in Levels : 2 * PixelsUpTo(lines, q) >= all}),
        Min({q \in Levels : PixelsUpTo(lines, q) = all})>>
ReferenceRange == RangeOf(recent)
Expected(row) ==
  IF row <= Len(recent)
  THEN Drawn(recent[row], <<m_color_map, ReferenceRange>>) ELSE Black

\* A drawn frame shows the history, every row in the current colours; while
\* lines scroll in below a pane that was not yet full when it was drawn, only
\* the rows scrolled in are.
ScreenShowsRecent ==
  main = "drawn" =>
    \A row \in Rows :
      (seeded \/ ~HistoryFull \/ row > Capacity - scrolled)
        => screen[row] = Expected(row)

\* No row, wherever it came from, is drawn in colours that are out of date.
ColoursAreCurrent ==
  main = "drawn" =>
    \A row \in Rows : screen[row] # Black =>
      screen[row].lut = <<m_color_map, ReferenceRange>>

\* sample_at_y(): history line i is screen row i, so the cursor's time is that
\* of the line it points at.
RowIsHistoryLine ==
  main = "drawn" => \A row \in Rows : screen[row] = Expected(row)
=============================================================================
