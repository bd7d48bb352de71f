------------------------------- MODULE Thumbs -------------------------------
(***************************************************************************)
(* The thumbnail store of the main thread (src/src/app/thumbs.c and        *)
(* src/src/app/thumb_store.c): which tiles are asked for, kept, evicted    *)
(* and withdrawn while the user moves around, the surface changes its      *)
(* size and workers answer late.                                           *)
(*                                                                         *)
(* Below it runs the worker pool of WorkerPool, of which only what the     *)
(* store sees is left: a queue of indices, one job per thread, and a list  *)
(* of results.  Around it moves the selection, in layouts of which Panel   *)
(* has the sizes.  One step of the main thread is one callback of the      *)
(* event loop; the workers run in between.  Every thumbnail has the size   *)
(* of the pool's target, so one number, size, stands for the bytes of      *)
(* each.                                                                   *)
(***************************************************************************)
EXTENDS Grid, FiniteSets, SequencesExt, Queues

CONSTANTS
  Counts,               \* values of app->scan.count
  LayoutFlows,          \* the flows a run may be configured with
  MaxColumns, MaxRows,  \* bounds of the layout
  ThreadCount,          \* worker threads
  MAX_RESIDENT_BYTES,   \* memory for decoded thumbnails
  Sizes,                \* values of thumbs.target_bytes
  Faulty                \* items whose job may find no memory, or fail to decode

ASSUME CountsAssumption == Counts \subseteq Nat \ {0}
ASSUME LayoutAssumption == LayoutFlows \subseteq Flows /\ MaxColumns \in Nat /\ MaxRows \in Nat
ASSUME ThreadAssumption == ThreadCount \in Nat
ASSUME SizesAssumption == Sizes \subseteq Nat \ {0} /\ MAX_RESIDENT_BYTES \in Nat

Threads == 1 .. ThreadCount
None == -1

VARIABLES
  count,             \* app->scan.count, the same for thumbs.count
  layout, grid,      \* app->layout and app->grid, see Grid
  size,              \* thumbs.target_bytes
  state,             \* state[i]: thumbs.items[i].state
  resident,          \* thumbs.resident_bytes
  visible_pending,   \* thumbs.visible_pending, drives the spinner
  priority,          \* the ranges the queue was last reordered for, or NoRanges
  queue,             \* indices of the queued jobs, head first
  busy,              \* busy[t]: the index thread t works on, or None
  done               \* results not drained yet, oldest first

view == <<count, layout, grid, size>>
store == <<state, resident, visible_pending, priority>>
pool == <<queue, busy, done>>
vars == <<view, store, pool>>

Items == 0 .. count - 1
slots == MAX_RESIDENT_BYTES \div size

\* What matuwall_layout_adapt may give for some output.
Layouts(flow) ==
  [flow : {flow}, columns : IF flow = "vertical" THEN {1} ELSE 1 .. MaxColumns,
   rows : IF flow = "horizontal" THEN {1} ELSE 1 .. MaxRows]

NoRanges == Interval(None, None, None)
RangesOf(g, l) == VisibleRanges(g, l, count)
Ranges == RangesOf(grid, layout)
Kept(r, l) == Window(r, l, count, slots)

\* Everything is ready but the pool: app_run starts it after the first frame,
\* with the remembered wallpaper selected.
Init ==
  /\ count \in Counts
  /\ layout \in UNION {Layouts(flow) : flow \in LayoutFlows}
  /\ grid \in {GridSelect([selected |-> 0, cursor |-> 0, first_row |-> 0], layout, count, i, i) :
                 i \in Items}
  /\ size \in Sizes
  /\ state = [i \in Items |-> "unloaded"]
  /\ resident = 0 /\ visible_pending = 0 /\ priority = NoRanges
  /\ queue = <<>> /\ busy = [t \in Threads |-> None] /\ done = <<>>

Started == priority # NoRanges

-----------------------------------------------------------------------------
(* The store as a value: items and the bytes of the ready ones.            *)

Pending(st, r) == Cardinality({i \in Items : st[i] = "pending" /\ InVisibleRange(i, r)})

\* unload_thumbnail does nothing to a tile that is not ready.
Unload(s, i) ==
  IF s.state[i] # "ready" THEN s
  ELSE [state |-> [s.state EXCEPT ![i] = "unloaded"],
        resident |-> IF size <= s.resident THEN s.resident - size ELSE 0]

EvictOutside(s, kept) ==
  LET gone == {i \in Items \ kept : s.state[i] = "ready"}
      bytes == size * Cardinality(gone)
  IN  [state |-> [i \in Items |-> IF i \in gone THEN "unloaded" ELSE s.state[i]],
       resident |-> IF bytes <= s.resident THEN s.resident - bytes ELSE 0]

(* make_room: off-screen tiles first, from the lowest index, then those on *)
(* screen; never the selected one nor the one the room is for.  k counts   *)
(* the tiles evict_one has come to, in one pass and then in the other.     *)
EvictOne(s, i, r, k) ==
  LET j == (k - 1) % count
  IN  IF /\ size > MAX_RESIDENT_BYTES - s.resident
         /\ j \notin {i, grid.selected}
         /\ InVisibleRange(j, r) = (k > count)
      THEN Unload(s, j) ELSE s

Evictions(s, i, r) ==
  LET after[k \in 0 .. 2 * count] == IF k = 0 THEN s ELSE EvictOne(after[k - 1], i, r, k)
  IN  after

MakeRoom(s, i, r) == Evictions(s, i, r)[2 * count]

\* matuwall_thumb_store_accept: late for the window, too large for the memory,
\* without room even after evictions, or kept.
Accept(s, i) ==
  LET roomy == MakeRoom(s, i, Ranges)
      becomes(t, st) == [t EXCEPT !.state[i] = st]
  IN  IF i \notin Kept(Ranges, layout) THEN becomes(s, "unloaded")
      ELSE IF size > MAX_RESIDENT_BYTES THEN becomes(s, "failed")
      ELSE IF size > MAX_RESIDENT_BYTES - roomy.resident THEN becomes(roomy, "unloaded")
      ELSE [becomes(roomy, "ready") EXCEPT !.resident = @ + size]

\* on_result: a result nobody waits for is dropped.
OnResult(s, result) ==
  IF s.state[result.index] # "pending" THEN s
  ELSE IF result.ok THEN Accept(s, result.index)
  ELSE [s EXCEPT !.state[result.index] = "failed"]

\* submit_index: only a tile that is neither waiting nor settled; the pool may
\* be out of memory.
SubmitIndex(s, i, refused) ==
  IF i >= count \/ s.state[i] # "unloaded" THEN s
  ELSE IF i \in refused THEN [s EXCEPT !.state[i] = "failed"]
  ELSE [state |-> [s.state EXCEPT ![i] = "pending"], queue |-> Append(s.queue, i)]

(* Definitions named Bug... are faulty variants of the definition that     *)
(* follows them, see DecodeBudget.                                         *)

\* Jobs that fall out of the window stay queued behind the others.
BugReorder(s, r, kept) ==
  LET visible == {i \in Items : InVisibleRange(i, r)}
  IN  [s EXCEPT !.queue = Only(@, visible) \o Only(@, Items \ visible)]

\* The withdrawn job is gone, its tile still waits for it.
BugReorderForgets(s, r, kept) ==
  [s EXCEPT !.queue = Only(@, kept)]

\* matuwall_worker_prioritize_thumbs with keep_queued and withdraw_queued.
Reorder(s, r, kept) ==
  LET visible == {i \in kept : InVisibleRange(i, r)}
      withdrawn == {i \in ToSet(s.queue) \ kept : s.state[i] = "pending"}
  IN  IF Visible(r) = 0 THEN s
      ELSE [queue |-> Only(s.queue, visible) \o Only(s.queue, kept \ visible),
            state |-> [i \in Items |-> IF i \in withdrawn THEN "unloaded" ELSE s.state[i]]]

\* The visible range alone is submitted.
BugWantedOf(r, l) == [k \in 1 .. r.end - r.first |-> r.first + k - 1]

WantedOf(r, l) == Wanted(r, l, count, slots)

\* submit_visible_window, one tile after the other.
Submissions(s, wanted, refused) ==
  LET after[k \in 0 .. Len(wanted)] ==
        IF k = 0 THEN s ELSE SubmitIndex(after[k - 1], wanted[k], refused)
  IN  after

SubmitAll(s, wanted, refused) == Submissions(s, wanted, refused)[Len(wanted)]

(* matuwall_app_thumbs_prioritize_visible, for the selection and layout of *)
(* the moment: evict, submit what is missing, count the spinner, and, when *)
(* the visible ranges are new, reorder the queue.                          *)
Prioritize(g, l, refused) ==
  LET r == RangesOf(g, l)
      kept == Kept(r, l)
      evicted == EvictOutside([state |-> state, resident |-> resident], kept)
      asked == SubmitAll([state |-> evicted.state, queue |-> queue], WantedOf(r, l), refused)
      ordered == IF priority = r THEN asked ELSE Reorder(asked, r, kept)
  IN  /\ resident' = evicted.resident
      /\ visible_pending' = Pending(asked.state, r)
      /\ state' = ordered.state
      /\ queue' = ordered.queue
      /\ priority' = r

\* Any of the faulty items may be refused for want of memory.
Refusals == SUBSET Faulty

-----------------------------------------------------------------------------
(* The main thread.                                                        *)

Start ==
  /\ ~Started
  /\ \E refused \in Refusals : Prioritize(grid, layout, refused)
  /\ UNCHANGED <<view, busy, done>>

\* selection_changed is called when the grid says that something changed.
Selection(g) ==
  /\ Started
  /\ grid' = g
  /\ UNCHANGED <<count, layout, size, busy, done>>
  /\ IF g = grid THEN UNCHANGED <<store, queue>>
     ELSE \E refused \in Refusals : Prioritize(g, layout, refused)

\* handle_key.
Keyed == {GridMove(grid, layout, count, move) : move \in Moves}

\* handle_pointer_motion over the tile at a slot.
Hovered ==
  {GridSelect(grid, layout, count,
              IF layout.flow = "grid" THEN slot ELSE CarouselIndex(slot, count), slot) :
     slot \in IF layout.flow = "grid" THEN Items ELSE MinSlot .. MaxSlot}

\* refresh_panel, after the surface has changed its size.
Refresh ==
  /\ Started
  /\ \E l \in Layouts(layout.flow), refused \in Refusals :
       LET scrolled == ScrollIntoView(grid, l, count)
       IN  layout' = l /\ grid' = scrolled /\ Prioritize(scrolled, l, refused)
  /\ UNCHANGED <<count, size, busy, done>>

\* matuwall_worker_drain calls on_result for one after the other.
Deliveries(s, results) ==
  LET after[k \in 0 .. Len(results)] == IF k = 0 THEN s ELSE OnResult(after[k - 1], results[k])
  IN  after

\* matuwall_app_thumbs_drain.
Drain ==
  LET s == Deliveries([state |-> state, resident |-> resident], done)[Len(done)]
  IN  /\ done # <<>>
      /\ state' = s.state /\ resident' = s.resident
      /\ visible_pending' = Pending(s.state, Ranges)
      /\ done' = <<>>
      /\ UNCHANGED <<view, priority, queue, busy>>

(* The pool.                                                               *)

Take(t) ==
  /\ busy[t] = None
  /\ queue # <<>>
  /\ busy' = [busy EXCEPT ![t] = Head(queue)]
  /\ queue' = Tail(queue)
  /\ UNCHANGED <<view, store, done>>

Publish(t) ==
  /\ busy[t] # None
  /\ \E ok \in {TRUE, busy[t] \notin Faulty} : done' = Append(done, [index |-> busy[t], ok |-> ok])
  /\ busy' = [busy EXCEPT ![t] = None]
  /\ UNCHANGED <<view, store, queue>>

Next ==
  \/ Start
  \/ \E g \in Keyed \cup Hovered : Selection(g)
  \/ Refresh
  \/ Drain
  \/ \E t \in Threads : Take(t) \/ Publish(t)

Spec == Init /\ [][Next]_vars

-----------------------------------------------------------------------------
\* What the variables range over.
TypeOK ==
  /\ state \in [Items -> {"unloaded", "pending", "ready", "failed"}]
  /\ resident \in Nat /\ visible_pending \in Nat
  /\ queue \in Seq(Items)
  /\ busy \in [Threads -> Items \cup {None}]
  /\ done \in Seq([index : Items, ok : BOOLEAN])

(* A tile waits if and only if exactly one job will answer it, queued, in  *)
(* a worker's hands or among the results.  A withdrawn job takes the wait  *)
(* with it; a job that was already taken is not asked for a second time    *)
(* when its tile leaves the window and comes back.  The spinner pulses     *)
(* exactly while a tile on screen waits: its count is taken before the     *)
(* queue is reordered and not corrected afterwards.                        *)
OneJobPerTile ==
  /\ \A i \in Items :
       Cardinality({k \in DOMAIN queue : queue[k] = i})
         + Cardinality({t \in Threads : busy[t] = i})
         + Cardinality({k \in DOMAIN done : done[k].index = i})
       = IF state[i] = "pending" THEN 1 ELSE 0
  /\ visible_pending = Pending(state, Ranges)

\* The resident bytes are those of the ready thumbnails, all in the window.
ResidentBounded ==
  LET ready == {i \in Items : state[i] = "ready"}
  IN  /\ resident = size * Cardinality(ready)
      /\ resident <= MAX_RESIDENT_BYTES
      /\ Started => ready \subseteq Kept(Ranges, layout)

NoHoles ==
  Started /\ Visible(Ranges) <= slots =>
    \A i \in Kept(Ranges, layout) : state[i] # "unloaded"

(* Nothing in the window is forgotten, within the memory limit: as long as *)
(* there is room for what is on screen, every tile of the window is there, *)
(* on its way, or cannot be had; no late or evicted result leaves a hole   *)
(* that only the next move would fill, and none stays above the limit or   *)
(* behind the window.                                                      *)
WindowFilled == ResidentBounded /\ NoHoles

(* The queue serves the viewport of now: whatever lies outside the window  *)
(* was withdrawn, and no lookahead job is ahead of a visible one, although *)
(* the queue is only reordered when the visible ranges change.             *)
VisibleFirst ==
  Started =>
    /\ ToSet(queue) \subseteq Kept(Ranges, layout)
    /\ \A j, k \in DOMAIN queue :
         j < k /\ InVisibleRange(queue[k], Ranges) => InVisibleRange(queue[j], Ranges)
=============================================================================
