------------------------------ MODULE Preview ------------------------------
(***************************************************************************)
(* The backdrop preview (src/src/app/preview.c): the selected wallpaper,   *)
(* decoded to the size of the output by the worker pool and shown behind   *)
(* the panel.  The main thread keeps one decode in flight and supersedes   *)
(* it; the cancelled decode may already be past its last look at the flag. *)
(*                                                                         *)
(* Events, iterations of the event loop and steps of the workers           *)
(* interleave.  The iteration (drain, tick, render) is one step: of what a *)
(* worker does in between, the main thread sees only cancelled and         *)
(* running_preview, under the mutex of the tick's cancel, and a result     *)
(* published meanwhile is one published after the iteration.               *)
(*                                                                         *)
(* A target stands for the pixel size preview_target computes from the     *)
(* size of the surface and its scale; the scale the backdrop inherits from *)
(* the panel is taken as known from the start.                             *)
(***************************************************************************)
EXTENDS Naturals, Sequences

CONSTANTS
  Wallpapers,  \* their indices
  Undecodable, \* those whose decode may fail
  Targets,     \* pixel sizes the compositor may ask of the backdrop
  Workers,     \* worker threads
  MaxEvents,   \* bound: inputs and surface events of a run
  MaxRefusals, \* bound: preview jobs that find no memory
  Absent       \* SIZE_MAX, NULL and the absence of an image or a job

VARIABLES
  woken,       \* events were dispatched in this iteration
  preview,     \* app->preview
  layer,       \* app->backdrop
  surface,     \* the image the backdrop shows, Absent for the clear pixel
  queued,      \* queued preview jobs, head first
  running,     \* running[t]: the preview job of worker t, or Absent
  newest,      \* pool->running_preview, as the worker that runs it
  results,     \* published and not drained, oldest first
  events,      \* inputs and surface events so far
  refusals     \* preview jobs that found no memory so far

jobsOf == <<queued, running, newest, results, refusals>>
showing == <<woken, events, preview, layer, surface, jobsOf>>

Images == [index : Wallpapers, target : Targets]
Phases == {"decoding", "produced", "flagged"}
Job == [index : Wallpapers, target : Targets, phase : Phases, ok : BOOLEAN, told : BOOLEAN,
        cancelled : BOOLEAN]

ASSUME UndecodableAssumption == Undecodable \subseteq Wallpapers
ASSUME AbsentAssumption == Absent \notin Wallpapers \cup Workers \cup Images \cup Job

(* Everything is set up: the backdrop is mapped with a clear pixel, or,    *)
(* without a viewport, with a clear frame; preview_select was called for   *)
(* the restored selection.  Of a run without a preview, a backdrop or a    *)
(* pool nothing is modelled.                                               *)
PreviewInit ==
  /\ woken = FALSE /\ events = 0
  /\ \E i \in Wallpapers :
       preview = [image |-> Absent, shown |-> Absent, wanted |-> i, in_flight |-> Absent,
                  due |-> "wait", enabled |-> TRUE]
  /\ \E target \in Targets, cleared \in BOOLEAN :
       layer = [target |-> target, frame_callback |-> cleared, needs_repaint |-> ~cleared,
                closed |-> FALSE]
  /\ surface = Absent
  /\ queued = <<>> /\ running = [t \in Workers |-> Absent] /\ newest = Absent
  /\ results = <<>> /\ refusals = 0

-----------------------------------------------------------------------------
(* Events of the compositor, the selection_changed of an input among them. *)

\* One is dispatched, the rest of the iteration follows.
Event ==
  /\ events < MaxEvents /\ events' = events + 1
  /\ woken' = TRUE
  /\ UNCHANGED <<surface, jobsOf>>

\* matuwall_app_preview_select.
PreviewSelect(index) ==
  /\ Event
  /\ preview' = IF ~preview.enabled \/ index = preview.wanted THEN preview
                ELSE [preview EXCEPT !.wanted = index, !.due = "wait"]
  /\ UNCHANGED layer

\* A configure with another size, or another preferred scale.
Retarget(target) ==
  /\ Event
  /\ layer' = [layer EXCEPT !.target = target, !.needs_repaint = @ \/ target # layer.target]
  /\ UNCHANGED preview

Closed ==
  /\ Event
  /\ layer' = [layer EXCEPT !.closed = TRUE]
  /\ UNCHANGED preview

FrameDone ==
  /\ layer.frame_callback
  /\ woken' = TRUE
  /\ layer' = [layer EXCEPT !.frame_callback = FALSE]
  /\ UNCHANGED <<events, preview, surface, jobsOf>>

\* PREVIEW_DWELL_MS go by.
Dwell ==
  /\ preview.due = "wait"
  /\ preview' = [preview EXCEPT !.due = "now"]
  /\ UNCHANGED <<woken, events, layer, surface, jobsOf>>

-----------------------------------------------------------------------------
(* One iteration, on s: the preview, its layer and surface and the pool.   *)

\* cancel_running_preview; an older running one was cancelled before.
CancelRunning(s) == IF newest = Absent THEN s ELSE [s EXCEPT !.running[newest].cancelled = TRUE]

(* Definitions named Bug... are faulty variants of the definition that     *)
(* follows them, see DecodeBudget.                                         *)

\* drop_queued_previews frees them all, and publishes nothing for them.
DropQueuedPreviews(jobs) == <<>>

CancelPreview(s) == [CancelRunning(s) EXCEPT !.queued = DropQueuedPreviews(s.queued)]

SubmitPreview(s, job) ==
  [CancelRunning(s) EXCEPT !.queued = <<job>> \o DropQueuedPreviews(s.queued)]

\* A failed decode is dropped before it is taken for the one in flight.
BugPreviewResult(s, r) ==
  IF r.told \/ ~s.preview.enabled \/ ~r.ok THEN s
  ELSE LET t == IF r.index = s.preview.in_flight THEN [s EXCEPT !.preview.in_flight = Absent] ELSE s
       IN  IF r.index # s.preview.wanted THEN t
           ELSE [t EXCEPT !.preview.image = [index |-> r.index, target |-> r.target],
                          !.preview.shown = r.index, !.layer.needs_repaint = TRUE]

\* matuwall_app_preview_result.
PreviewResult(s, r) ==
  LET t == IF r.index = s.preview.in_flight THEN [s EXCEPT !.preview.in_flight = Absent] ELSE s
  IN  IF r.told \/ ~s.preview.enabled THEN s
      ELSE IF ~r.ok \/ r.index # s.preview.wanted THEN t
      ELSE [t EXCEPT !.preview.image = [index |-> r.index, target |-> r.target],
                     !.preview.shown = r.index, !.layer.needs_repaint = TRUE]

\* The end of the tick; want of memory starts the dwell again.
Submit(s, refused) ==
  IF refused THEN [s EXCEPT !.preview.due = "wait"]
  ELSE [SubmitPreview(s, [index |-> s.preview.wanted, target |-> s.layer.target])
          EXCEPT !.preview.in_flight = s.preview.wanted]

\* matuwall_app_preview_tick.
IsDue(p) == p.enabled /\ p.due = "now"
Submits(p) == IsDue(p) /\ p.wanted \notin {p.in_flight, p.shown}

Ticked(s, refused) ==
  LET t == [s EXCEPT !.preview.due = "none"]
      p == s.preview
  IN  IF Submits(p) THEN Submit(t, refused)
      ELSE IF IsDue(p) /\ p.wanted = p.shown /\ p.in_flight \notin {p.wanted, Absent}
      THEN [CancelPreview(t) EXCEPT !.preview.in_flight = Absent]
      ELSE IF IsDue(p) THEN t ELSE s

\* preview_disable; the surface keeps what it shows.
Disable(s) ==
  LET t == IF s.preview.in_flight = Absent THEN s ELSE CancelPreview(s)
  IN  [t EXCEPT !.preview.in_flight = Absent, !.preview.due = "none", !.preview.image = Absent,
                !.preview.enabled = FALSE]

\* The image that no longer fits is freed, and still taken for shown.
BugStale(p) == [p EXCEPT !.image = Absent]

\* No image fits the surface: decode the shown one again, without a dwell.
Stale(p) ==
  IF p.shown = Absent THEN [p EXCEPT !.image = Absent]
  ELSE [p EXCEPT !.image = Absent, !.shown = Absent, !.due = "now"]

Paints(s) == s.preview.enabled /\ ~s.layer.closed /\ s.layer.needs_repaint

\* matuwall_app_preview_render; the buffer may not be had or not committed.
Rendered(s, failed) ==
  LET image == s.preview.image
      fits == image # Absent /\ image.target = s.layer.target
  IN  IF s.preview.enabled /\ s.layer.closed THEN Disable(s)
      ELSE IF ~Paints(s) THEN s
      ELSE IF ~fits
      THEN [s EXCEPT !.preview = Stale(s.preview), !.layer.needs_repaint = FALSE]
      ELSE IF s.layer.frame_callback THEN s \* MATUWALL_BUFFER_BUSY
      ELSE IF failed THEN Disable(s)
      ELSE [s EXCEPT !.surface = image, !.preview.image = Absent,
                     !.layer.frame_callback = TRUE, !.layer.needs_repaint = FALSE]

\* matuwall_worker_drain calls on_result for one after the other.
PreviewResults(s, answers) ==
  LET after[k \in 0 .. Len(answers)] ==
        IF k = 0 THEN s ELSE PreviewResult(after[k - 1], answers[k])
  IN  after

Drained ==
  PreviewResults([preview |-> preview, layer |-> layer, surface |-> surface, queued |-> queued,
                  running |-> running], results)[Len(results)]

\* The end of pump_events and the render of app_run.
Iterate ==
  \E drained \in {Drained}, refused, failed \in BOOLEAN :
    \E ticked \in {Ticked(drained, refused)} : \E end \in {Rendered(ticked, failed)} :
      /\ refused => Submits(drained.preview) /\ refusals < MaxRefusals
      /\ failed => Paints(ticked)
      /\ preview' = end.preview /\ layer' = end.layer /\ surface' = end.surface
      /\ queued' = end.queued /\ running' = end.running
      /\ results' = <<>> /\ woken' = FALSE
      /\ refusals' = IF refused THEN refusals + 1 ELSE refusals
      /\ UNCHANGED <<events, newest>>

-----------------------------------------------------------------------------
(* The workers, between whose steps a cancel can fall.                     *)

Outside == UNCHANGED <<woken, events, preview, layer, surface, refusals>>

TakePreview(t) ==
  /\ running[t] = Absent /\ queued # <<>>
  /\ running' = [running EXCEPT ![t] =
                   [index |-> Head(queued).index, target |-> Head(queued).target,
                    phase |-> "decoding", ok |-> FALSE, told |-> FALSE, cancelled |-> FALSE]]
  /\ queued' = Tail(queued)
  /\ newest' = t
  /\ UNCHANGED results /\ Outside

InPhase(t, phase) == running[t] # Absent /\ running[t].phase = phase

\* produce looks at the flag for the last time.
Produce(t) ==
  /\ InPhase(t, "decoding")
  /\ \E ok \in BOOLEAN :
       /\ ok => ~running[t].cancelled
       /\ ~ok => running[t].cancelled \/ running[t].index \in Undecodable
       /\ running' = [running EXCEPT ![t].phase = "produced", ![t].ok = ok]
  /\ UNCHANGED <<queued, newest, results>> /\ Outside

\* worker_main copies the flag into the result.
Flag(t) ==
  /\ InPhase(t, "produced")
  /\ running' = [running EXCEPT ![t].phase = "flagged", ![t].told = running[t].cancelled]
  /\ UNCHANGED <<queued, newest, results>> /\ Outside

PublishPreview(t) ==
  /\ InPhase(t, "flagged")
  /\ results' = Append(results, running[t])
  /\ running' = [running EXCEPT ![t] = Absent]
  /\ newest' = IF newest = t THEN Absent ELSE newest
  /\ UNCHANGED queued /\ Outside

Worker(t) == TakePreview(t) \/ Produce(t) \/ Flag(t) \/ PublishPreview(t)

(* What ends ppoll: events, a result, the dwell deadline.  Other deadlines *)
(* of the loop may end it at any time.                                     *)
Awaited == woken \/ results # <<>> \/ IsDue(preview)

PreviewNext ==
  \/ \E i \in Wallpapers : PreviewSelect(i)
  \/ \E target \in Targets : Retarget(target)
  \/ Closed
  \/ FrameDone
  \/ Dwell
  \/ Iterate
  \/ \E t \in Workers : Worker(t)

(* Nothing is assumed but that what can go on does: a thread that can run  *)
(* runs, the dwell passes, and the compositor answers a frame callback.    *)
Fairness == WF_showing((Awaited /\ Iterate) \/ Dwell \/ FrameDone \/ \E t \in Workers : Worker(t))

PreviewSpec == PreviewInit /\ [][PreviewNext]_showing /\ Fairness

-----------------------------------------------------------------------------
\* What the variables range over.
PreviewOk ==
  /\ preview \in [image : Images \cup {Absent}, shown : Wallpapers \cup {Absent},
                  wanted : Wallpapers, in_flight : Wallpapers \cup {Absent},
                  due : {"none", "wait", "now"}, enabled : BOOLEAN]
  /\ layer \in [target : Targets, frame_callback : BOOLEAN, needs_repaint : BOOLEAN,
                closed : BOOLEAN]
  /\ surface \in Images \cup {Absent}
  /\ queued \in Seq(Images) /\ Len(queued) <= 1
  /\ running \in [Workers -> Job \cup {Absent}]
  /\ results \in Seq(Job)
  /\ newest \in Workers \cup {Absent}

(* What the preview remembers by an index exists.  tick submits nothing    *)
(* while wanted is in flight, so an in_flight whose job was dropped,       *)
(* cancelled or already answered would keep that wallpaper from ever being *)
(* shown; and going back to a shown that is neither on the surface nor     *)
(* about to be would cancel the decode under way and leave another         *)
(* wallpaper behind the panel (preview.c:86).                              *)
NamesExist ==
  /\ preview.in_flight # Absent =>
       \/ \E k \in DOMAIN queued : queued[k].index = preview.in_flight
       \/ \E t \in Workers : running[t] # Absent /\ running[t].index = preview.in_flight
                             /\ ~running[t].cancelled
       \/ \E k \in DOMAIN results : results[k].index = preview.in_flight /\ ~results[k].told
  /\ preview.enabled /\ preview.shown # Absent =>
       LET image == IF preview.image # Absent THEN preview.image ELSE surface
       IN  image # Absent /\ image.index = preview.shown

Selected == [index |-> preview.wanted, target |-> layer.target]

(* The backdrop comes to rest, and never on anything but the selected      *)
(* wallpaper at the size of the surface: whatever was superseded, resized, *)
(* refused or late before, as long as another image, or none, is shown,    *)
(* something is under way that will change it, and no chain of stale       *)
(* decodes, resizes and frames goes on for ever.  Not so for a file that   *)
(* cannot be decoded, and once the preview is disabled.                    *)
Settles ==
  <>[](~preview.enabled \/ preview.wanted \in Undecodable \/ surface = Selected)
=============================================================================
