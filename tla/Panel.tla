------------------------------- MODULE Panel -------------------------------
(***************************************************************************)
(* The picker on screen.  The layout is fitted to the output and the panel *)
(* to its surface (src/src/grid/layout.c, refresh_panel of app/loop.c);    *)
(* keys, the wheel and the pointer move the selection (app/input.c) of     *)
(* Grid; the scroll and the focus follow it in an animation                *)
(* (app/animation.c), into which any of them may come again; and a frame   *)
(* draws the tiles that reach the panel (render/tiles.c).                  *)
(*                                                                         *)
(* A surface is drawn at scale 1.  Positions inside it are counted in      *)
(* halves of a unit, which the centre of a carousel needs; those in the    *)
(* middle of an animation are rounded down to them.                        *)
(***************************************************************************)
EXTENDS Grid

CONSTANTS
  Configs,  \* the [grid] settings of a run, see MCPanel
  Outputs,  \* sizes of the output, which the probe surface was given
  Surfaces, \* other sizes the compositor may configure the panel with
  Counts,   \* numbers of items the folder may have
  Slots,    \* numbers of thumbnails the resident memory may have room for
  Steps,    \* steps the wheel may turn between two frames of the pointer
  Duration, \* ticks of an animation
  MaxMoves  \* bound: moves in a row before an animation comes to rest

(* What the keys of the configuration allow (config/keys.c); the edge is   *)
(* matuwall_config_edge's, and overflow what content_overflow makes of the *)
(* zoom, the shadow and the ring.                                          *)
ASSUME ConfigsAssumption ==
  Configs \subseteq
    [width : Nat \ {0}, height : Nat \ {0}, spacing : Nat, margin : Nat,
     columns : Nat \ {0}, rows : Nat \ {0}, carousel : BOOLEAN,
     position : {"center", "top", "bottom", "left", "right"}, edge : {"clip", "fade", "peek"},
     edge_margin : Nat, overflow : Nat, zoom : BOOLEAN, animated : BOOLEAN]

\* A folder has an item, and none further than a slot can be.
ASSUME CountsAssumption == Counts \subseteq 1 .. MaxSlot + 1
ASSUME SizesAssumption == Outputs \union Surfaces \subseteq [width : Nat, height : Nat]
ASSUME PaceAssumption == Steps \subseteq Int /\ Duration \in Nat \ {0} /\ Slots \subseteq Nat

VARIABLES
  config,   \* app->config
  output,   \* app->output_width, output_height
  count,    \* app->scan.count
  surface,  \* app->layer.width, height
  dirty,    \* app->layer.layout_dirty
  layout,   \* app->layout.flow, columns, and app->visible_rows
  panel,    \* app->panel
  grid,     \* app->grid
  animation, \* app->animation
  moves      \* moves since it was at rest

screen == <<config, output, count, surface, dirty, layout, panel, grid, animation, moves>>

Larger(a, b) == IF a > b THEN a ELSE b
Monus(a, b) == Larger(a - b, 0)

-----------------------------------------------------------------------------
(* Fitting the layout to the output, the panel to the surface.             *)

StepX == config.width + config.spacing
StepY == config.height + config.spacing

\* fit_cells: at least 1, however small the output.
FitCells(c, available, tile, maximum) ==
  IF available <= 2 * c.margin THEN 1
  ELSE Larger(1, Smaller(maximum, (available - 2 * c.margin + c.spacing) \div (tile + c.spacing)))

\* What the distance to its edge leaves the panel, in each direction.
Available(c, size) ==
  [width |-> IF c.position \in {"left", "right"} THEN Monus(size.width, c.edge_margin) ELSE size.width,
   height |-> IF c.position \in {"top", "bottom"} THEN Monus(size.height, c.edge_margin) ELSE size.height]

\* matuwall_layout_adapt.
Adapt(c, size) ==
  LET room == Available(c, size)
      columns == FitCells(c, room.width, c.width, c.columns)
  IN  IF c.carousel /\ c.position \in {"left", "right"}
      THEN [flow |-> "vertical", columns |-> 1,
            visible_rows |-> FitCells(c, room.height, c.height, c.columns)]
      ELSE IF c.carousel THEN [flow |-> "horizontal", columns |-> columns, visible_rows |-> 1]
      ELSE [flow |-> "grid", columns |-> columns,
            visible_rows |-> FitCells(c, room.height, c.height, c.rows)]

\* surface_size: what the panel needs.
SurfaceSize(c, l, n) ==
  LET columns == IF l.flow = "grid" THEN Smaller(l.columns, n) ELSE l.columns
      rows == IF l.flow = "vertical" THEN l.visible_rows ELSE Smaller(Rows(l, n), l.visible_rows)
  IN  [width |-> 2 * c.margin + columns * (c.width + c.spacing) - c.spacing,
       height |-> 2 * c.margin + rows * (c.height + c.spacing) - c.spacing]

\* matuwall_layout_panel, with edge_gap.
PanelRect(c, l, n, size) ==
  LET need == SurfaceSize(c, l, n)
      width == Smaller(need.width, size.width)
      height == Smaller(need.height, size.height)
      free_x == size.width - width
      free_y == size.height - height
  IN  [width |-> width, height |-> height,
       x |-> CASE c.position = "left" -> Smaller(c.edge_margin, free_x)
               [] c.position = "right" -> free_x - Smaller(c.edge_margin, free_x)
               [] OTHER -> free_x \div 2,
       y |-> CASE c.position = "top" -> Smaller(c.edge_margin, free_y)
               [] c.position = "bottom" -> free_y - Smaller(c.edge_margin, free_y)
               [] OTHER -> free_y \div 2]

\* matuwall_grid_visible_rows, of the panel there is.
VisibleRows(c, height) == Larger(1, (Monus(height, 2 * c.margin) + c.spacing) \div (c.height + c.spacing))

\* The layout as Grid takes it.
GridLayout(c, l, p) ==
  [flow |-> l.flow, columns |-> l.columns, rows |-> VisibleRows(c, p.height)]

Fitted == GridLayout(config, layout, panel)

-----------------------------------------------------------------------------
(* Where tiles are.                                                        *)

Horizontal == layout.flow = "horizontal"

\* matuwall_layout_slot.
SlotRect(slot) ==
  LET column == CASE layout.flow = "horizontal" -> slot
                  [] layout.flow = "grid" -> slot % layout.columns
                  [] OTHER -> 0
      row == CASE layout.flow = "vertical" -> slot
               [] layout.flow = "grid" -> slot \div layout.columns
               [] OTHER -> 0
  IN  [x |-> config.margin + column * StepX, y |-> config.margin + row * StepY]

\* Along the axis of the scroll.
Extent == IF Horizontal THEN config.width ELSE config.height
Step == Extent + config.spacing
Length == IF Horizontal THEN panel.width ELSE panel.height
Origin == IF Horizontal THEN panel.x ELSE panel.y
Start(slot) == IF Horizontal THEN SlotRect(slot).x ELSE SlotRect(slot).y

\* matuwall_layout_scroll, in halves.
Scroll(c, l, p, g) ==
  IF l.flow = "grid" THEN 2 * g.first_row * (c.height + c.spacing)
  ELSE IF l.flow = "horizontal" THEN 2 * (c.margin + g.cursor * (c.width + c.spacing)) + c.width - p.width
  ELSE 2 * (c.margin + g.cursor * (c.height + c.spacing)) + c.height - p.height

RestScroll == Scroll(config, layout, panel, grid)

(* Definitions named Bug... are faulty variants of the definition that     *)
(* follows them, see DecodeBudget.                                         *)

\* The division of C, which rounds towards 0: slots before the first are off.
BugCell(offset, stride) ==
  IF offset >= 0 THEN offset \div (2 * stride) ELSE -((-offset) \div (2 * stride))

\* floor(), as TLA+ divides.
Cell(offset, stride) == offset \div (2 * stride)

\* matuwall_layout_hit: the slot under a point, or none.
Hit(scroll, x, y) ==
  LET inside == x >= panel.x /\ y >= panel.y /\ x < panel.x + panel.width /\ y < panel.y + panel.height
      cx == 2 * (x - panel.x - config.margin) + IF Horizontal THEN scroll ELSE 0
      cy == 2 * (y - panel.y - config.margin) + IF Horizontal THEN 0 ELSE scroll
      column == Cell(cx, StepX)
      row == Cell(cy, StepY)
      index == row * layout.columns + column
      on_tile == cx - 2 * column * StepX < 2 * config.width /\ cy - 2 * row * StepY < 2 * config.height
  IN  IF ~inside \/ ~on_tile THEN {}
      ELSE CASE layout.flow = "grid" ->
                  IF cx >= 0 /\ cy >= 0 /\ column < layout.columns /\ index < count THEN {index} ELSE {}
             [] layout.flow = "vertical" -> IF column = 0 THEN {row} ELSE {}
             [] layout.flow = "horizontal" -> IF row = 0 THEN {column} ELSE {}

-----------------------------------------------------------------------------
(* The animation: from a scroll to the one of the selection, with the      *)
(* focus leaving one tile and coming to another.  tick counts from the     *)
(* last move; after Duration it is at rest.                                *)

\* matuwall_animation_snap.
Snapped(c, l, p, g) ==
  LET scroll == Scroll(c, l, p, g)
  IN  [from_scroll |-> scroll, to_scroll |-> scroll, from |-> g.cursor, to |-> g.cursor,
       from_item |-> g.selected, to_item |-> g.selected,
       from_zoomed |-> c.zoom, to_zoomed |-> c.zoom, tick |-> Duration]

Active == animation.tick < Duration

\* ease_out_cubic of the time gone by, and lerp.
Eased(from, to, tick) ==
  LET left == (Duration - tick) * (Duration - tick) * (Duration - tick)
      whole == Duration * Duration * Duration
  IN  from + ((to - from) * (whole - left)) \div whole

\* matuwall_animation_sample: the scroll, and the slots larger than the others,
\* with the item each shows.
SampleScroll == Eased(animation.from_scroll, animation.to_scroll, animation.tick)
Focuses ==
  LET from == [slot |-> animation.from, item |-> animation.from_item]
      to == [slot |-> animation.to, item |-> animation.to_item]
  IN  (IF Active /\ animation.from_zoomed THEN {from} ELSE {})
        \cup (IF config.zoom /\ (animation.to_zoomed \/ animation.tick > 0) THEN {to} ELSE {})
Focused == {f.slot : f \in Focuses}

\* adjacent, neighboring_row: \div rounds down, as slot_row does by hand.
Adjacent(a, b) ==
  LET dx == SlotRect(a).x - SlotRect(b).x
      dy == SlotRect(a).y - SlotRect(b).y
  IN  (dy = 0 /\ dx \in {StepX, -StepX}) \/ (dx = 0 /\ dy \in {StepY, -StepY})
NeighboringRow(a, b) == a \div layout.columns - b \div layout.columns \in {1, -1}

\* matuwall_animation_move from the selection of before to g; a slide starts
\* where the last one is, a longer way is jumped.
Moved(g) ==
  LET target == Snapped(config, layout, panel, g)
      slides == Adjacent(grid.cursor, g.cursor) \/ NeighboringRow(grid.cursor, g.cursor)
  IN  IF ~config.animated THEN target
      ELSE [target EXCEPT !.from_scroll = IF slides THEN SampleScroll ELSE @,
                          !.from = grid.cursor, !.from_item = grid.selected,
                          !.from_zoomed = grid.cursor \in Focused,
                          !.to_zoomed = g.cursor \in Focused,
                          !.tick = 0]

-----------------------------------------------------------------------------
(* A frame: which slots are drawn, by their place along the scroll axis.   *)
(* What makes a focused tile larger is left out, as are shadows and rings. *)

\* lround of a number of halves.
Rounded(halves) == IF halves >= 0 THEN (halves + 1) \div 2 ELSE -((1 - halves) \div 2)

\* edge_fades, edge_clips; edge is matuwall_config_edge, which has no auto.
Fades == config.edge = "fade" /\ layout.flow # "grid"
Clips == config.edge # "peek" /\ ~Fades

\* content_clip: the margin less what a zoomed tile, its shadow and ring need.
ContentClip ==
  LET inset == Monus(config.margin, config.overflow)
  IN  <<Origin + inset, Origin + Length - inset>>

\* tile_visibility_clip.
TileClip ==
  IF Clips /\ 2 * config.margin < Length
  THEN <<Larger(ContentClip[1], Origin + config.margin),
         Smaller(ContentClip[2], Origin + Length - config.margin)>>
  ELSE ContentClip

\* How far a tile is past the margins, in halves.
Over(scroll, slot) ==
  LET start == 2 * Start(slot) - scroll
  IN  Larger(2 * config.margin - start, start + 2 * Extent - 2 * (Length - config.margin))

\* matuwall_tiles_edge: a tile at the edge stays on the margin and fades away
\* while its neighbour slides over it; the only one there is room for does not.
Fading(scroll, slot) == Fades /\ Length - 2 * config.margin >= Extent /\ Over(scroll, slot) > 0
Opaque(scroll, slot) == Fading(scroll, slot) => Over(scroll, slot) < 2 * Step

\* tile_geometry: where a tile is, against a clip.
Place(clip, scroll, slot) ==
  LET start == 2 * (Origin + Start(slot)) - scroll
  IN  IF Fading(scroll, slot) THEN "visible"
      ELSE IF Rounded(start) >= clip[2] THEN "after"
      ELSE IF Rounded(start + 2 * Extent) <= clip[1] THEN "before"
      ELSE "visible"

\* As many slots each way as fit the panel in half.
BugCarouselBounds == {s \in grid.cursor - Length \div (2 * Step) .. grid.cursor + Length \div (2 * Step) :
                        s \in MinSlot .. MaxSlot}

\* slot_bounds of a carousel.
CarouselBounds ==
  LET radius == Length \div Step + 2
  IN  Larger(MinSlot, grid.cursor - radius) .. Smaller(MaxSlot, grid.cursor + radius)

\* grid_first_slot.
GridFirstSlot(clip, scroll) ==
  LET boundary == 2 * (clip[1] - Origin - config.margin - Extent) + scroll
      row == boundary \div (2 * Step)
  IN  IF boundary <= 0 THEN 0 ELSE IF row > RowOf(layout, count - 1) THEN count ELSE row * layout.columns

SlotBounds(clip, scroll) ==
  IF layout.flow = "grid" THEN GridFirstSlot(clip, scroll) .. count - 1 ELSE CarouselBounds

\* draw_unfocused_pass: ends at the first tile past the panel.
DrawnUnfocused(scroll, focused) ==
  LET bounds == SlotBounds(TileClip, scroll)
      past == {s \in bounds : Place(TileClip, scroll, s) = "after"}
  IN  {s \in bounds : /\ \A t \in past : s < t
                      /\ Place(TileClip, scroll, s) = "visible" /\ Opaque(scroll, s)
                      /\ s \notin focused}

\* draw_focused_tiles.
DrawnFocused(scroll, focused) ==
  {s \in focused : Opaque(scroll, s) /\ Place(ContentClip, scroll, s) = "visible"}

\* matuwall_tiles_draw.
Drawn(scroll, focused) == DrawnUnfocused(scroll, focused) \cup DrawnFocused(scroll, focused)

\* content_clip across the scroll axis, where tiles have no clip of their own.
AcrossClip ==
  LET inset == Monus(config.margin, config.overflow)
  IN  IF Horizontal THEN <<panel.y + inset, panel.y + panel.height - inset>>
      ELSE <<panel.x + inset, panel.x + panel.width - inset>>

\* The pixels of a tile from a number of halves on, less those that are cut off.
Pixels(clip, half, size) ==
  Larger(Rounded(half), clip[1]) .. Smaller(Rounded(half + 2 * size), clip[2]) - 1

\* What a frame shows between two clips.
Within(along, across) == IF Horizontal THEN along \X across ELSE across \X along

\* Where draw_tile draws a slot that does not fade; of the tiles the margins
\* cut, only the selected one is drawn over them.
Picture(slot, scroll, focused) ==
  LET clip == IF slot = grid.cursor /\ slot \in focused THEN ContentClip ELSE TileClip
      along == Pixels(clip, 2 * (Origin + Start(slot)) - scroll, Extent)
  IN  Within(along,
             IF Horizontal THEN Pixels(AcrossClip, 2 * (panel.y + SlotRect(slot).y), config.height)
             ELSE Pixels(AcrossClip, 2 * (panel.x + SlotRect(slot).x), config.width))

\* The points at which no clip cuts a tile off.
Viewport == Within(TileClip[1] .. TileClip[2] - 1, AcrossClip[1] .. AcrossClip[2] - 1)

-----------------------------------------------------------------------------
(* What the thumbnail store thinks is drawn.                               *)

\* Without the slack for tiles pinned inside by a fade.
BugReachesPanel(slot) ==
  LET start == 2 * Start(slot) - RestScroll
  IN  start + 2 * Extent > 0 /\ start < 2 * Length

\* matuwall_layout_slot_reaches_panel, at rest.
ReachesPanel(slot) ==
  LET start == 2 * Start(slot) - RestScroll
      slack == 2 * (1 + Monus(config.spacing, config.margin))
  IN  start + 2 * Extent > -slack /\ start < 2 * Length + slack

\* matuwall_thumb_store_drawable.
Drawable(index) ==
  LET ahead == (index + count - CarouselIndex(grid.cursor, count)) % count
  IN  IF layout.flow = "grid" THEN ReachesPanel(index)
      ELSE \/ grid.cursor > MaxSlot - count \/ grid.cursor < MinSlot + count
           \/ ReachesPanel(grid.cursor + ahead) \/ ReachesPanel(grid.cursor + ahead - count)

\* slot_index.
SlotIndex(slot) == IF layout.flow = "grid" THEN slot ELSE CarouselIndex(slot, count)

-----------------------------------------------------------------------------
(* The picker as it starts: fitted to the output the probe was given, and  *)
(* with the selection of the last run restored, if it is there (app.c,     *)
(* refresh_panel and restore_selection at the start of the run).           *)

Requested == LET rect == PanelRect(config, layout, count, output)
             IN  [width |-> rect.width, height |-> rect.height]

PanelInit ==
  /\ config \in Configs /\ output \in Outputs /\ count \in Counts
  /\ layout = Adapt(config, output)
  /\ surface = Requested /\ dirty = FALSE
  /\ panel = PanelRect(config, layout, count, surface)
  /\ \E restored \in 0 .. count - 1 :
       grid = GridSelect([selected |-> 0, cursor |-> 0, first_row |-> 0], Fitted, count,
                         restored, restored)
  /\ animation = Snapped(config, layout, panel, grid) /\ moves = 0

\* A new selection, and selection_changed if it is one.
Selection(g) ==
  /\ g # grid /\ moves < MaxMoves
  /\ grid' = g
  /\ animation' = Moved(g)
  /\ moves' = IF config.animated THEN moves + 1 ELSE 0
  /\ UNCHANGED <<config, output, count, surface, dirty, layout, panel>>

\* handle_key.
Key(move) == Selection(GridMove(grid, Fitted, count, move))

\* handle_pointer_scroll: the steps of one frame of the pointer are one move.
Turns(n, move) ==
  LET after[k \in 0 .. n] == IF k = 0 THEN grid ELSE GridMove(after[k - 1], Fitted, count, move)
  IN  after
Wheel(steps) ==
  LET forward == IF Horizontal THEN "right" ELSE "down"
      back == IF Horizontal THEN "left" ELSE "up"
  IN  Selection(IF steps > 0 THEN Turns(steps, forward)[steps] ELSE Turns(-steps, back)[-steps])

\* handle_pointer_motion, over the scroll of the moment.
Points == (0 .. surface.width - 1) \X (0 .. surface.height - 1)
UnderPointer == (UNION {Hit(SampleScroll, p[1], p[2]) : p \in Points}) \cap MinSlot .. MaxSlot
Hover(slot) ==
  Selection(GridSelect(grid, Fitted, count, SlotIndex(slot), slot))

\* Time goes by; where an animation that is over came from is not read again.
Tick ==
  /\ Active
  /\ animation' = IF animation.tick + 1 < Duration THEN [animation EXCEPT !.tick = @ + 1]
                  ELSE [animation EXCEPT !.tick = Duration, !.from_scroll = animation.to_scroll,
                          !.from = animation.to, !.from_item = animation.to_item,
                          !.from_zoomed = config.zoom, !.to_zoomed = config.zoom]
  /\ moves' = IF animation.tick + 1 < Duration THEN moves ELSE 0
  /\ UNCHANGED <<config, output, count, surface, dirty, layout, panel, grid>>

\* handle_configure of the panel.
ConfigurePanel(size) ==
  /\ size # surface
  /\ surface' = size /\ dirty' = TRUE
  /\ UNCHANGED <<config, output, count, layout, panel, grid, animation, moves>>

\* The place and size of the panel are not compared.
BugStays == layout' = layout /\ grid'.first_row = grid.first_row

\* same_layout, same_rect.
Stays == layout' = layout /\ panel' = panel /\ grid'.first_row = grid.first_row

\* refresh_panel, with matuwall_grid_reveal.
Refresh ==
  /\ dirty
  /\ dirty' = FALSE
  /\ layout' = Adapt(config, output)
  /\ panel' = PanelRect(config, layout', count, surface)
  /\ grid' = ScrollIntoView(grid, GridLayout(config, layout', panel'), count)
  /\ animation' = IF Stays THEN animation ELSE Snapped(config, layout', panel', grid')
  /\ moves' = IF Stays THEN moves ELSE 0
  /\ UNCHANGED <<config, output, count, surface>>

PanelNext ==
  \/ \E move \in Moves : Key(move)
  \/ \E steps \in Steps : Wheel(steps)
  \/ \E slot \in UnderPointer : Hover(slot)
  \/ Tick \/ Refresh
  \/ \E size \in Surfaces \cup {Requested} : ConfigurePanel(size)

PanelSpec == PanelInit /\ [][PanelNext]_screen

-----------------------------------------------------------------------------
TypeOK ==
  /\ grid.selected \in 0 .. count - 1
  /\ grid.cursor \in MinSlot .. MaxSlot
  /\ grid.first_row \in Nat
  /\ animation.tick \in 0 .. Duration

Ranges == VisibleRanges(grid, Fitted, count)
AllSlots == IF layout.flow = "grid" THEN 0 .. count - 1 ELSE MinSlot .. MaxSlot

(* After every key, page, click and resize the selected item is one of     *)
(* those the store takes for visible, and its whole tile is between the    *)
(* margins of the panel as soon as the animation is over ("keep the        *)
(* selected row inside the viewport", navigate.c:58), wherever there is    *)
(* room for a tile: the rows that navigate.c counts, the pixels layout.c   *)
(* scrolls by, the cells fit_cells divides the output into and the panel   *)
(* surface_size makes of them agree.                                       *)
SelectedInView ==
  LET room == Available(config, output)
      along == 2 * Start(grid.cursor) - RestScroll
      across == IF Horizontal THEN SlotRect(grid.cursor).y ELSE SlotRect(grid.cursor).x
      tile == IF Horizontal THEN config.height ELSE config.width
  IN  /\ InVisibleRange(grid.selected, Ranges)
      /\ Length >= Extent + 2 * config.margin =>
           along >= 2 * config.margin /\ along + 2 * Extent <= 2 * (Length - config.margin)
      /\ surface = Requested /\ ~dirty
           /\ (IF Horizontal THEN room.height ELSE room.width) >= tile + 2 * config.margin =>
           across + tile + config.margin <= IF Horizontal THEN panel.height ELSE panel.width

(* "Visual state only; grid selection remains authoritative"               *)
(* (animation.h:31): whatever interrupts an animation - another move, a    *)
(* jump, a new size of the surface - it ends at the selection of the grid, *)
(* where the layout of the moment has it.  The slot a carousel is centred  *)
(* on shows the selected item, also after it has wrapped around the folder *)
(* or stuck at the end of int64_t, and each of the tiles the animation     *)
(* enlarges is drawn with the item of its own slot.                        *)
VisualFollows ==
  /\ SlotIndex(grid.cursor) = grid.selected
  /\ animation.to = grid.cursor /\ animation.to_scroll = RestScroll
  /\ \A f \in Focuses : f.item = SlotIndex(f.slot)

(* The loop over slot_bounds, which starts near the selection and ends at  *)
(* the first tile past the panel, leaves out no tile that is in sight when *)
(* the animation is over, whichever tiles are drawn in the pass of the     *)
(* focused ones.                                                           *)
NoHoleAtRest ==
  ~Active /\ ~dirty =>
    \A s \in AllSlots :
      Place(TileClip, RestScroll, s) = "visible" /\ Opaque(RestScroll, s)
        => s \in Drawn(RestScroll, Focused)

\* Asked for by the traversal of thumbs.c, kept by in_window of thumb_store.c.
AskedIsKept ==
  \A slots \in Slots :
    LET asked == Wanted(Ranges, Fitted, count, slots)
    IN  {asked[k] : k \in DOMAIN asked} \ {count} = Window(Ranges, Fitted, count, slots)

\* How far a tile that does not fade may reach into the margin.
Peek == IF Fades /\ Length - 2 * config.margin >= Extent THEN 0
        ELSE Origin + config.margin - TileClip[1]

(* Items each way beside the visible range that a part may be seen of: the *)
(* row or slot in the room the range leaves, and those in the margin.      *)
Beside == (1 + (Monus(Peek, config.spacing) + Step - 1) \div Step)
            * IF layout.flow = "grid" THEN layout.columns ELSE 1

(* What is drawn is kept, and what is kept is asked for: the items         *)
(* submitted by one traversal of the viewport and its lookahead are        *)
(* exactly those that may stay, and if there is memory for the items       *)
(* beside the visible ones each way, every tile drawn is one of them,      *)
(* although more tiles, and parts of them, are seen than the visible range *)
(* counts.  "only the rest view counts" (thumb_store.c:89): a thumbnail    *)
(* that arrives asks for a frame if its tile is drawn, also where a fade   *)
(* pins it inside the panel or another copy of the item is drawn.          *)
DrawnIsServed ==
  /\ AskedIsKept
  /\ ~Active /\ ~dirty =>
       \A s \in Drawn(RestScroll, Focused) :
         /\ Drawable(SlotIndex(s))
         /\ \A slots \in Slots :
              Lookahead(slots, Visible(Ranges)) >= Beside =>
                InWindow(SlotIndex(s), Ranges, Fitted, count, slots)

\* The frame of this moment shows the slot at the point.
SeenAt(p, slot) == slot \in Drawn(SampleScroll, Focused) /\ p \in Picture(slot, SampleScroll, Focused)

\* Slots that are where the scroll puts them: a fading tile is drawn elsewhere.
Steady == {s \in AllSlots : ~Fading(SampleScroll, s)}

(* The pointer over a tile selects that tile: by dividing it comes to the  *)
(* slot that a frame of this moment shows at the point, also for slots     *)
(* before the first, in the middle of a slide, and not in the gaps.  At    *)
(* rest the slot it comes to is drawn there, wherever no clip cuts tiles   *)
(* off: between the margins, or up to the edge where tiles peek.  Fading   *)
(* tiles, which are drawn elsewhere, and what a focused tile has grown by  *)
(* are left out.                                                           *)
HitIsUnderPointer ==
  LET hit(p) == Hit(SampleScroll, p[1], p[2])
  IN  /\ \A s \in Drawn(SampleScroll, Focused) \cap Steady :
           \A p \in Picture(s, SampleScroll, Focused) \cap Points : s \in hit(p)
      /\ ~Active /\ ~dirty =>
           \A p \in Viewport \cap Points : \A s \in hit(p) \cap Steady : SeenAt(p, s)
=============================================================================
