-------------------------------- MODULE Grid --------------------------------
(***************************************************************************)
(* Selection, scrolling and the visible window of the picker:              *)
(* src/src/grid/navigate.c, the carousel index of src/src/grid/layout.c    *)
(* and the window rules of src/src/app/thumb_store.c, as operators.        *)
(*                                                                         *)
(* A layout is [flow, columns, rows]: rows is what                         *)
(* matuwall_grid_visible_rows makes of the panel height, and at least 1.   *)
(* A grid is [selected, cursor, first_row]; items are numbered from 0.  A  *)
(* carousel repeats the items for ever in both directions: cursor is a     *)
(* slot of that endless row and saturates at the ends of int64_t.          *)
(***************************************************************************)
EXTENDS Integers, Sequences

CONSTANTS MinSlot, MaxSlot \* INT64_MIN and INT64_MAX

ASSUME SlotAssumption == MinSlot \in Int /\ MaxSlot \in Int /\ MinSlot < 0 /\ MaxSlot > 0

Flows == {"grid", "horizontal", "vertical"}
Moves == {"left", "right", "up", "down", "page_up", "page_down", "first", "last"}

Smaller(a, b) == IF a < b THEN a ELSE b

\* The item a slot of the carousel shows; C's % is taken of naturals only.
CarouselIndex(slot, count) ==
  IF slot >= 0 THEN slot % count
  ELSE LET remainder == (-(slot + 1) + 1) % count
       IN  IF remainder = 0 THEN 0 ELSE count - remainder

RowOf(layout, index) == index \div layout.columns
Rows(layout, count) == (count + layout.columns - 1) \div layout.columns

-----------------------------------------------------------------------------
(* Definitions named Bug... are faulty variants of the definition that     *)
(* follows them, see DecodeBudget.                                         *)

\* The viewport follows only downwards.
BugScrollDownOnly(g, layout, count) ==
  LET row == RowOf(layout, g.selected)
  IN  IF layout.flow # "grid" THEN [g EXCEPT !.first_row = 0]
      ELSE IF row >= g.first_row + layout.rows
           THEN [g EXCEPT !.first_row = row - layout.rows + 1]
           ELSE g

\* scroll_into_view: the selected row inside the viewport, the viewport inside
\* the rows.  A carousel does not use first_row.
ScrollIntoView(g, layout, count) ==
  LET row == RowOf(layout, g.selected)
      total == Rows(layout, count)
      first == IF row < g.first_row THEN row
               ELSE IF row >= g.first_row + layout.rows THEN row - layout.rows + 1
               ELSE g.first_row
      max_first == IF total > layout.rows THEN total - layout.rows ELSE 0
  IN  [g EXCEPT !.first_row = IF layout.flow # "grid" THEN 0 ELSE Smaller(first, max_first)]

\* shift_row: by amount towards 0 or towards last, never past either.
ShiftRow(row, amount, last, forward) ==
  LET from == Smaller(row, last)
  IN  IF forward THEN Smaller(from + amount, last)
      ELSE IF amount < from THEN from - amount ELSE 0

\* move_page moves the viewport along with the selection.
MovePage(g, layout, count, forward) ==
  LET last_row == RowOf(layout, count - 1)
      row == ShiftRow(RowOf(layout, g.selected), layout.rows, last_row, forward)
      column == g.selected % layout.columns
      max_first == IF last_row + 1 > layout.rows THEN last_row + 1 - layout.rows ELSE 0
  IN  [g EXCEPT !.selected = Smaller(row * layout.columns + column, count - 1),
                !.first_row = ShiftRow(g.first_row, layout.rows, max_first, forward)]

\* Where one step leads inside the grid; a short last row is still reachable.
GridStep(sel, layout, count, move) ==
  LET last == count - 1
  IN  CASE move = "left"  -> IF sel > 0 THEN sel - 1 ELSE 0
        [] move = "right" -> Smaller(sel + 1, last)
        [] move = "up"    -> IF sel >= layout.columns THEN sel - layout.columns ELSE sel
        [] move = "down"  -> IF sel + layout.columns <= last THEN sel + layout.columns
                             ELSE IF RowOf(layout, sel) < RowOf(layout, last) THEN last ELSE sel

\* +1 or -1 along the scroll axis of a carousel, 0 for any other move.
CarouselStep(flow, move) ==
  IF <<flow, move>> \in {<<"horizontal", "right">>, <<"vertical", "down">>} THEN 1
  ELSE IF <<flow, move>> \in {<<"horizontal", "left">>, <<"vertical", "up">>} THEN -1
  ELSE 0

\* matuwall_grid_move before the scroll.
Stepped(g, layout, count, move) ==
  LET step == CarouselStep(layout.flow, move)
      ahead == IF g.cursor + step \in MinSlot .. MaxSlot THEN g.cursor + step ELSE g.cursor
  IN  CASE step # 0 -> [g EXCEPT !.cursor = ahead, !.selected = CarouselIndex(ahead, count)]
        [] step = 0 /\ move = "first" -> [g EXCEPT !.selected = 0, !.cursor = 0]
        [] step = 0 /\ move = "last" -> [g EXCEPT !.selected = count - 1, !.cursor = count - 1]
        [] layout.flow = "grid" /\ move \in {"page_up", "page_down"} ->
             MovePage(g, layout, count, move = "page_down")
        [] layout.flow = "grid" /\ move \in {"left", "right", "up", "down"} ->
             [g EXCEPT !.selected = GridStep(g.selected, layout, count, move)]
        [] OTHER -> g

GridMove(g, layout, count, move) ==
  LET moved == Stepped(g, layout, count, move)
      aligned == IF layout.flow = "grid" THEN [moved EXCEPT !.cursor = moved.selected] ELSE moved
  IN  ScrollIntoView(aligned, layout, count)

\* matuwall_grid_select: a hit in a carousel names the slot as well.
GridSelect(g, layout, count, index, slot) ==
  LET names == layout.flow # "grid" /\ CarouselIndex(slot, count) = index
      picked == [g EXCEPT !.selected = index, !.cursor = IF names THEN slot ELSE index]
  IN  ScrollIntoView(picked, layout, count)

-----------------------------------------------------------------------------
(* The window of items worth having (thumb_store.c): [first, end) and, in  *)
(* a carousel that wraps, [0, wrap_end) are on screen; lookahead more on   *)
(* either side are kept warm.                                              *)

Interval(first, end, wrap_end) == [first |-> first, end |-> end, wrap_end |-> wrap_end]

\* matuwall_thumb_store_visible_ranges.
VisibleRanges(g, layout, count) ==
  LET visible == Smaller(IF layout.flow = "horizontal" THEN layout.columns ELSE layout.rows, count)
      before == visible \div 2
      start == IF g.cursor >= MinSlot + before THEN g.cursor - before ELSE MinSlot
      first == CarouselIndex(start, count)
      top == g.first_row * layout.columns
  IN  CASE layout.flow # "grid" /\ visible <= count - first ->
             Interval(first, first + visible, 0)
        [] layout.flow # "grid" /\ visible > count - first ->
             Interval(first, count, visible - (count - first))
        [] layout.flow = "grid" /\ top >= count -> Interval(count, count, 0)
        [] layout.flow = "grid" /\ top < count ->
             Interval(top, top + Smaller(layout.rows * layout.columns, count - top), 0)

InVisibleRange(i, r) == (i >= r.first /\ i < r.end) \/ i < r.wrap_end
Visible(r) == r.end - r.first + r.wrap_end

\* matuwall_thumb_store_lookahead: what the resident memory has room for beside
\* the visible items, at most one viewport each way.
Lookahead(slots, visible) ==
  IF slots <= visible THEN 0 ELSE Smaller((slots - visible) \div 2, visible)

\* matuwall_thumb_store_in_window.
InWindow(i, r, layout, count, slots) ==
  LET ahead == Lookahead(slots, Visible(r))
      low == IF r.first > ahead THEN r.first - ahead ELSE 0
      high == r.end + Smaller(ahead, count - r.end)
      span == Visible(r) + 2 * ahead
      start == (r.first + count - ahead) % count
  IN  /\ Visible(r) # 0
      /\ \/ layout.flow = "grid" /\ i >= low /\ i < high
         \/ /\ layout.flow # "grid"
            /\ span >= count \/ (i + count - start) % count < span

Window(r, layout, count, slots) == {i \in 0 .. count - 1 : InWindow(i, r, layout, count, slots)}

\* The items submit_visible_window asks for, in order; count stands for none.
Wanted(r, layout, count, slots) ==
  LET ahead == Lookahead(slots, Visible(r))
      on_screen == [k \in 1 .. Visible(r) |->
                      IF k <= r.end - r.first THEN r.first + k - 1 ELSE k - 1 - (r.end - r.first)]
      beside == [k \in 1 .. 2 * ahead |->
                   LET offset == (k - 1) \div 2
                   IN  IF k % 2 = 1 THEN Smaller(r.end + offset, count)
                       ELSE IF offset < r.first THEN r.first - offset - 1 ELSE count]
      after == IF r.wrap_end > 0 \/ r.end = count THEN r.wrap_end ELSE r.end
      before == IF r.first = 0 THEN count - 1 ELSE r.first - 1
      around == [k \in 1 .. 2 * ahead |->
                   LET offset == (k - 1) \div 2
                   IN  IF k % 2 = 1 THEN (after + offset) % count ELSE (before - offset) % count]
  IN  CASE Visible(r) >= count -> on_screen
        [] Visible(r) < count /\ layout.flow = "grid" -> on_screen \o beside
        [] Visible(r) < count /\ layout.flow # "grid" -> on_screen \o around
=============================================================================
