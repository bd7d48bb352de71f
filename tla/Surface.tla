------------------------------ MODULE Surface ------------------------------
(***************************************************************************)
(* A layer surface and its buffers (src/src/wayland/layer.c, present.c and *)
(* shm.c): the panel draws into mapped buffers it uses again, the backdrop *)
(* adopts one buffer per image.  A frame waits for the callback of the one *)
(* before and for a buffer the compositor has given back; buffers of a     *)
(* size that is gone, and surplus ones of a quiet surface, are freed; what *)
(* the compositor keeps from commit to commit is sent when it changes.     *)
(*                                                                         *)
(* Sizes are widths, heights go the same way.  The main thread is woken    *)
(* for every event and then does the whole of its iteration, in one step.  *)
(***************************************************************************)
EXTENDS Naturals, FiniteSets

CONSTANTS
  Widths,      \* logical widths the compositor may configure
  Scales,      \* integer scales it may prefer
  Fractions,   \* fractional scales it may prefer, in 120ths
  LongEdgeMax, \* PREVIEW_LONG_EDGE_MAX
  Needed,      \* logical width of the panel, if the surface has room for it
  Gap,         \* its distance from the left
  MaxEvents,   \* bound: configures, scales and changes of what is shown
  None         \* no fractional scale, no buffer, no destination, no region

\* handle_configure takes no size of 0, handle_preferred_buffer_scale no factor below 1.
ASSUME WidthsAssumption == Widths \subseteq Nat \ {0}
ASSUME ScalesAssumption == Scales \subseteq Nat \ {0} /\ Fractions \subseteq Nat
ASSUME PanelAssumption == Needed \in Nat /\ Gap \in Nat
ASSUME NoneAssumption ==
  None \notin Widths /\ None \notin [scale : Scales \cup {1}, width : Widths \cup {None}]

MAX_GEOMETRY_BUFFERS == 2

VARIABLES
  kind,       \* what layer_create got: role, viewport and fractional manager
  layer,      \* struct matuwall_layer
  buffers,    \* layer.buffer_pool
  compositor, \* the state of the surface, and the buffers it may read
  image,      \* the width of the backdrop's image, or None
  woken,      \* events were dispatched in this iteration
  over,       \* the panel's run is over, or the preview disabled
  events      \* events so far

vars == <<kind, layer, buffers, compositor, image, woken, over, events>>

(* The panel has a viewport for a fractional scale only, the backdrop also *)
(* to show an image that is smaller than the output.                       *)
Kinds ==
  {k \in [panel : BOOLEAN, viewport : BOOLEAN, fractional : BOOLEAN] :
     /\ k.fractional => k.viewport
     /\ k.panel => k.viewport = k.fractional}

\* A configured panel nobody has drawn yet, or a backdrop map_clear has mapped:
\* with a stretched pixel, or without a viewport with an empty frame.
Init ==
  /\ kind \in Kinds
  /\ \E width \in Widths :
       LET stretched == ~kind.panel /\ kind.viewport
           framed == ~kind.panel /\ ~kind.viewport
       IN  /\ layer = [width |-> width, scale |-> 1, fraction |-> None, opaque |-> None,
                       sent |-> IF kind.panel THEN None
                                ELSE [scale |-> 1, width |-> IF stretched THEN width ELSE None],
                       needs_repaint |-> ~framed, frame_callback |-> framed,
                       collect |-> IF framed THEN "wait" ELSE "none"]
           /\ buffers = IF framed
                        THEN {[width |-> width, released |-> FALSE, adopted |-> FALSE, copy |-> 1,
                           panel |-> {}, pixels |-> {}]}
                        ELSE {}
           /\ compositor = [attached |-> IF framed THEN <<width, 1>> ELSE <<1, None>>,
                            reads |-> IF framed THEN {<<width, 1>>} ELSE {},
                            scale |-> 1, opaque |-> None, fits |-> width,
                            destination |-> IF stretched THEN width ELSE None]
  /\ image = None /\ woken = TRUE /\ over = FALSE /\ events = 0

-----------------------------------------------------------------------------
(* Sizes in pixels.                                                        *)

\* matuwall_layer_buffer_size, rounded halfway up.
BufferSize(l) ==
  IF l.fraction # None THEN (l.width * l.fraction + 60) \div 120 ELSE l.width * l.scale

\* preview_target: only a viewport shows an image of another size.
Target(l) ==
  IF kind.viewport /\ BufferSize(l) > LongEdgeMax THEN LongEdgeMax ELSE BufferSize(l)

-----------------------------------------------------------------------------
(* The buffer pool, as a set: which of two buffers alike is taken does not *)
(* matter.                                                                 *)

\* A buffer that is none of the pool; of a pool the copies count from 1.
NewBuffer(pool, width, adopted) ==
  [width |-> width, released |-> TRUE, adopted |-> adopted, panel |-> {}, pixels |-> {},
   copy |-> CHOOSE n \in 1 .. Cardinality(pool) + 1 : \A b \in pool : b.width = width => b.copy # n]

Matching(pool, width) == {b \in pool : b.width = width /\ ~b.adopted}
Usable(pool, width) == {b \in Matching(pool, width) : b.released}
Held(pool) == {b \in pool : ~b.released}

(* Definitions named Bug... are faulty variants of the definition that     *)
(* follows them, see DecodeBudget.                                         *)

\* Buffers of a size that is gone are freed, whoever has them.
BugCollectStale(pool, width) == Matching(pool, width)

\* collect_stale.
CollectStale(pool, width) == Held(pool) \cup Matching(pool, width)

\* One buffer has to do.
BugMayCreate(pool, width) == Matching(pool, width) = {}

MayCreate(pool, width) == Cardinality(Matching(pool, width)) < MAX_GEOMETRY_BUFFERS

\* matuwall_buffer_pool_acquire on the pool collect_stale has left: the buffers
\* it may return; none is MATUWALL_BUFFER_BUSY.
Acquire(pool, width) ==
  IF Usable(pool, width) # {} THEN Usable(pool, width)
  ELSE IF MayCreate(pool, width) THEN {NewBuffer(pool, width, FALSE)}
  ELSE {}

\* What matuwall_buffer_pool_adopt keeps: an image is used once.
Unadopted(pool) == {b \in pool : ~(b.released /\ b.adopted)}

\* matuwall_buffer_pool_collect_idle: one spare is kept, unless the compositor
\* has a buffer of this size, which is the next spare.
CollectIdle(pool, width) ==
  LET spares == {b \in pool : b.width = width /\ b.released}
      busy == \E b \in Held(pool) : b.width = width
  IN  Held(pool) \cup (IF busy \/ spares = {} THEN {} ELSE {CHOOSE b \in spares : TRUE})

-----------------------------------------------------------------------------
(* A commit.                                                               *)

\* send_geometry: what the buffer needs; a viewport maps any size, without
\* one the buffer has the native size.
Geometry(l, b) ==
  IF kind.viewport /\ (l.fraction # None \/ b.width # BufferSize(l))
  THEN [scale |-> 1, width |-> l.width]
  ELSE [scale |-> l.scale, width |-> None]

\* A destination that was set before is left alone.
BugDestination(l, g) == IF g.width # None THEN g.width ELSE compositor.destination

Destination(l, g) ==
  IF g.width # None THEN g.width
  ELSE IF kind.viewport /\ l.sent # None /\ l.sent.width # None THEN None
  ELSE compositor.destination

Name(b) == <<b.width, b.copy>>

(* What is drawn into a buffer that is used again.  panel is its           *)
(* panel_damage, empty while the frame is not valid; pixels are those that *)
(* are not transparent.                                                    *)

\* panel_damage: the panel in pixels, rounded as lround does.
PanelPixels(width, pixels) ==
  LET panel == IF Needed < width THEN Needed ELSE width
      free == width - panel
      x == IF Gap < free THEN Gap ELSE free
      px(logical) == (2 * logical * pixels + width) \div (2 * width)
  IN  px(x) .. px(x + panel) - 1

\* Only where the panel is now.
BugDamage(l, b) == PanelPixels(l.width, b.width)

\* The damage of matuwall_frame_draw: from the one panel to the other.
Damage(l, b) ==
  LET dirty == b.panel \cup PanelPixels(l.width, b.width)
  IN  IF b.panel = {} THEN 0 .. b.width - 1
      ELSE {p \in 0 .. b.width - 1 : \E low, high \in dirty : low <= p /\ p <= high}

\* matuwall_frame_draw: every damaged pixel is written once.
FrameDraw(l, b) ==
  LET panel == PanelPixels(l.width, b.width)
  IN  [b EXCEPT !.panel = panel, !.pixels = (@ \ Damage(l, b)) \cup panel]

\* matuwall_layer_commit_frame, when it does not fail; the buffer was b, and is
\* drawn.
CommitFrame(l, pool, b, drawn, continue, opaque) ==
  LET g == Geometry(l, b)
      region == IF opaque THEN l.width ELSE None \* update_opaque_region
  IN  /\ layer' = [l EXCEPT !.sent = g, !.opaque = region, !.needs_repaint = continue,
                            !.frame_callback = TRUE, !.collect = "wait"]
      /\ buffers' = (pool \ {b}) \cup {[drawn EXCEPT !.released = FALSE]}
      /\ compositor' = [attached |-> Name(b), reads |-> compositor.reads \cup {Name(b)},
                        scale |-> IF l.sent = g THEN compositor.scale ELSE g.scale,
                        destination |-> IF l.sent = g THEN compositor.destination
                                        ELSE Destination(l, g),
                        opaque |-> IF l.opaque = region THEN compositor.opaque ELSE region,
                        fits |-> l.width]

-----------------------------------------------------------------------------
(* One iteration of the main thread.                                       *)

Blocked == layer.collect = "none" \/ layer.needs_repaint \/ layer.frame_callback

\* matuwall_layer_collect_idle, at the end of pump_events.
Collected ==
  IF Blocked \/ layer.collect # "over" THEN [l |-> layer, pool |-> buffers]
  ELSE [l |-> [layer EXCEPT !.collect = "none"],
        pool |-> CollectIdle(buffers, IF kind.panel THEN BufferSize(layer) ELSE 0)]

Keep(s) == layer' = s.l /\ buffers' = s.pool /\ UNCHANGED <<compositor, image, over>>

\* The frame cannot be had: the run ends, or the preview.
Fails(s) ==
  /\ over' = TRUE /\ image' = None
  /\ layer' = s.l
  /\ buffers' = IF kind.panel THEN s.pool ELSE CollectIdle(s.pool, 0)
  /\ UNCHANGED compositor

\* render_if_needed.
RenderPanel(s) ==
  LET pool == CollectStale(s.pool, BufferSize(s.l))
      frames == Acquire(pool, BufferSize(s.l))
  IN  IF ~s.l.needs_repaint \/ s.l.frame_callback THEN Keep(s)
      ELSE IF frames = {} THEN Keep([s EXCEPT !.pool = pool])
      ELSE \/ Fails(s)
           \/ /\ \E b \in frames, continue \in BOOLEAN : CommitFrame(s.l, pool, b, FrameDraw(s.l, b), continue, FALSE)
              /\ UNCHANGED <<image, over>>

(* matuwall_app_preview_render: an image of another size is freed, and the *)
(* decode that follows is in Preview.                                      *)
RenderBackdrop(s) ==
  LET pool == Unadopted(s.pool)
  IN  IF ~s.l.needs_repaint THEN Keep(s)
      ELSE IF image # Target(s.l)
      THEN /\ layer' = [s.l EXCEPT !.needs_repaint = FALSE] /\ image' = None
           /\ buffers' = s.pool /\ UNCHANGED <<compositor, over>>
      ELSE IF s.l.frame_callback THEN Keep(s)
      ELSE \/ Fails(s)
           \/ /\ LET b == NewBuffer(pool, image, TRUE) IN CommitFrame(s.l, pool, b, b, FALSE, TRUE)
              /\ image' = None /\ UNCHANGED over

Awaited == ~over /\ (woken \/ (~Blocked /\ layer.collect = "over"))

Iterate ==
  /\ ~over
  /\ IF kind.panel THEN RenderPanel(Collected) ELSE RenderBackdrop(Collected)
  /\ woken' = FALSE
  /\ UNCHANGED <<kind, events>>

-----------------------------------------------------------------------------
(* Events.  One that repeats what is known already does nothing and is     *)
(* left out.                                                               *)

Event ==
  /\ events < MaxEvents /\ events' = events + 1
  /\ woken' = TRUE
  /\ UNCHANGED <<kind, buffers, compositor, over>>

\* handle_configure.
Configure(width) ==
  /\ Event /\ width # layer.width
  /\ layer' = [layer EXCEPT !.width = width, !.needs_repaint = TRUE]
  /\ UNCHANGED image

\* handle_preferred_buffer_scale.
PreferBufferScale(scale) ==
  /\ Event /\ scale # layer.scale
  /\ layer' = [layer EXCEPT !.scale = scale, !.needs_repaint = TRUE]
  /\ UNCHANGED image

\* handle_preferred_scale.
PreferScale(fraction) ==
  /\ Event /\ kind.fractional /\ fraction # layer.fraction
  /\ layer' = [layer EXCEPT !.fraction = fraction, !.needs_repaint = TRUE]
  /\ UNCHANGED image

\* matuwall_layer_inherit_scale, which tick and render of the preview call first.
\* The panel, whose scale it is, is not here: it may take over any at any time.
InheritScale(fraction, scale) ==
  /\ Event /\ ~kind.panel
  /\ layer' = [layer EXCEPT !.fraction = IF @ = None /\ kind.fractional THEN fraction ELSE @,
                            !.scale = IF @ = 1 THEN scale ELSE @]
  /\ layer' # layer
  /\ UNCHANGED image

\* The grid has changed, or a preview was decoded for the target of the moment.
Change ==
  /\ Event
  /\ layer' = [layer EXCEPT !.needs_repaint = TRUE]
  /\ image' = IF kind.panel THEN None ELSE Target(layer)

FrameDone ==
  /\ layer.frame_callback
  /\ layer' = [layer EXCEPT !.frame_callback = FALSE]
  /\ woken' = TRUE
  /\ UNCHANGED <<kind, buffers, compositor, image, over, events>>

\* The compositor has copied the buffer, or shows another one.
Release(name) ==
  /\ compositor' = [compositor EXCEPT !.reads = @ \ {name}]
  /\ buffers' = {[b EXCEPT !.released = @ \/ Name(b) = name] : b \in buffers}
  /\ woken' = TRUE
  /\ UNCHANGED <<kind, layer, image, over, events>>

ReleaseOld == \E name \in compositor.reads \ {compositor.attached} : Release(name)

\* IDLE_COLLECT_MS go by; whether before or after the end of what blocks the
\* collection is the same.
Quiet ==
  /\ layer.collect = "wait" /\ ~Blocked
  /\ layer' = [layer EXCEPT !.collect = "over"]
  /\ UNCHANGED <<kind, buffers, compositor, image, woken, over, events>>

Next ==
  \/ Iterate
  \/ \E width \in Widths : Configure(width)
  \/ \E scale \in Scales : PreferBufferScale(scale)
  \/ \E fraction \in Fractions : PreferScale(fraction)
  \/ \E fraction \in Fractions \cup {None}, scale \in Scales : InheritScale(fraction, scale)
  \/ Change \/ FrameDone \/ Quiet
  \/ \E name \in compositor.reads : Release(name)

(* The loop runs when it is woken, the compositor answers a frame callback *)
(* and gives back a buffer once it shows another one.  The one it shows it *)
(* may keep.                                                               *)
Fairness == WF_vars(Awaited /\ Iterate) /\ WF_vars(FrameDone) /\ WF_vars(ReleaseOld)

Spec == Init /\ [][Next]_vars /\ Fairness

-----------------------------------------------------------------------------
(* A buffer the compositor may still read is in the pool and marked as     *)
(* held, although sizes change and idle buffers are collected while it has *)
(* it: it is not freed and does not count as free.  That a frame is drawn  *)
(* into a free one is Acquire's own guard (Usable).                        *)
HeldUntouched == compositor.reads \subseteq {Name(b) : b \in Held(buffers)}

(* "surface state persists across commits; resend only what changed"       *)
(* (present.c:94): the buffer on screen, the scale and the destination,    *)
(* each from a commit of its own, make a surface of the size configured    *)
(* for it, and the opaque region is that of this size or none.             *)
GeometryFits ==
  \/ kind.panel /\ layer.sent = None \* not drawn yet
  \/ /\ IF compositor.destination # None THEN compositor.destination = compositor.fits
        ELSE compositor.attached[1] = compositor.fits * compositor.scale
     /\ compositor.opaque \in {None, compositor.fits}

(* A buffer that is drawn again after sizes and scales have changed holds  *)
(* the panel of the frame it is committed with and nothing else: around it *)
(* it is transparent, and nothing is left of a panel that was elsewhere    *)
(* when the buffer, which another one has replaced since, was drawn last   *)
(* ("one write per damaged pixel, transparent outside the rounded panel",  *)
(* frame.c:237).                                                           *)
NothingLeftBehind ==
  kind.panel => \A b \in buffers :
    Name(b) = compositor.attached => b.pixels = PanelPixels(compositor.fits, b.width)

(* A repaint that waits for a frame callback or for a buffer is not        *)
(* forgotten: the panel is drawn without any further input.                *)
Repaints ==
  kind.panel /\ layer.needs_repaint /\ ~layer.frame_callback ~> layer.frame_callback \/ over
=============================================================================
