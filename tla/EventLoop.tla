------------------------------ MODULE EventLoop ------------------------------
(***************************************************************************)
(* The picker's event loop and its way out (src/src/app/loop.c, with the   *)
(* input handlers of src/src/app/input.c and the key repeat of             *)
(* src/src/wayland/seat.c): one thread that sleeps in ppoll, reads a batch *)
(* of compositor events, dispatches all of them, serves the instance       *)
(* socket and the key repeat, and draws; when it has been told to stop it  *)
(* leaves the loop and, if Enter or a click asked for it, applies the      *)
(* selected wallpaper.                                                     *)
(*                                                                         *)
(* Around it run the compositor, which may append events to the socket at  *)
(* any moment, a newer launch, which may ask this one to go, and whoever   *)
(* sends SIGINT or SIGTERM.                                                *)
(***************************************************************************)
EXTENDS Integers, Sequences

CONSTANTS
  ItemCount,  \* wallpapers of a folder that is not empty
  MaxEvents   \* bound: events the compositor sends during a run

ASSUME ItemAssumption   == ItemCount \in Nat \ {0}
ASSUME EventsAssumption == MaxEvents \in Nat

Items == 1 .. ItemCount
None == 0

VARIABLES
  config,           \* preview, close_on_focus_loss and the number of items
  inbox,            \* events in the display socket, not read yet
  queue,            \* events read, not dispatched yet
  sent,             \* events the compositor has sent
  pc,               \* where the loop is
  revents,          \* what ppoll reported: a subset of {"display", "instance"}
  running,          \* app->running
  closed,           \* app->layer.closed
  layout_dirty,     \* app->layer.layout_dirty
  signal,           \* SIGINT or SIGTERM is pending, blocked outside ppoll
  interrupted,      \* the flag the signal handler sets
  replace_pending,  \* a connection waits on the instance socket
  selected,         \* app->grid.selected
  repeat,           \* the key in the repeat slot, or NoEvent
  apply_requested,  \* app->apply_requested
  wallpaper,        \* what the backend shows: an item, or None for what it was
  remembered,       \* the item the state file names, or None
  outcome           \* how the way out ended

loop == <<pc, revents, running, closed, layout_dirty, interrupted>>
env == <<inbox, sent, signal, replace_pending>>
choice == <<selected, repeat, apply_requested>>
result == <<wallpaper, remembered, outcome>>
vars == <<config, queue, loop, env, choice, result>>

Event(name, item) == [ev |-> name, at |-> item]
NoEvent == Event("none", None)

\* A key press that moves the selection carries the item it moves to, hover
\* and click the tile they hit; which one that is, the grid decides.
Plain == {"escape", "enter", "release", "leave", "outside", "configure", "closed"}
Events == {Event(name, None) : name \in Plain}
            \cup {Event(name, i) : name \in {"move", "hover", "tile"}, i \in 1 .. config.count}

PCs == {"test", "prepare", "poll", "read", "dispatch", "refresh", "instance", "repeat",
        "after", "render", "leave", "apply", "done", "failed"}

Init ==
  /\ config \in [preview : BOOLEAN, close_on_focus_loss : BOOLEAN, count : {0, ItemCount}]
  /\ inbox = <<>> /\ queue = <<>> /\ sent = 0
  /\ pc = "test" /\ revents = {}
  /\ running = TRUE /\ closed = FALSE /\ layout_dirty = FALSE
  /\ signal = FALSE /\ interrupted = FALSE /\ replace_pending = FALSE
  /\ selected = IF config.count = 0 THEN None ELSE 1
  /\ repeat = NoEvent
  /\ apply_requested = FALSE
  /\ wallpaper = None /\ remembered = None /\ outcome = "none"

Goto(label) == pc' = label

-----------------------------------------------------------------------------
(* The world around the loop.                                              *)

CompositorSends ==
  /\ sent < MaxEvents
  /\ \E e \in Events : inbox' = Append(inbox, e)
  /\ sent' = sent + 1
  /\ UNCHANGED <<config, queue, loop, signal, replace_pending, choice, result>>

NewerLaunch ==
  /\ ~replace_pending /\ pc \notin {"done", "failed"}
  /\ replace_pending' = TRUE
  /\ UNCHANGED <<config, queue, loop, inbox, sent, signal, choice, result>>

(* Definitions named Bug... are faulty variants of the definition that     *)
(* follows them, see DecodeBudget.                                         *)

\* The signals are not blocked outside ppoll: the handler runs at once.
BugSignalUnblocked ==
  /\ ~signal /\ ~interrupted /\ pc \notin {"leave", "apply", "done", "failed"}
  /\ interrupted' = TRUE
  /\ UNCHANGED <<config, queue, pc, revents, running, closed, layout_dirty, env, choice, result>>

\* The mask keeps the handler from running anywhere but in ppoll.
SignalSent ==
  /\ ~signal /\ ~interrupted /\ pc \notin {"leave", "apply", "done", "failed"}
  /\ signal' = TRUE
  /\ UNCHANGED <<config, queue, loop, inbox, sent, replace_pending, choice, result>>

-----------------------------------------------------------------------------
(* Input handlers.                                                         *)

\* apply_and_exit: the apply itself waits for the way out.
ApplyAndExit ==
  /\ running' = FALSE
  /\ apply_requested' = (apply_requested \/ config.count > 0)

\* handle_key of the application, for a press or for a repeat.
Key(e) ==
  CASE e.ev = "escape" -> running' = FALSE /\ UNCHANGED <<selected, apply_requested>>
    [] e.ev = "enter"  -> ApplyAndExit /\ UNCHANGED selected
    [] e.ev = "move"   -> selected' = e.at /\ UNCHANGED <<running, apply_requested>>

\* handle_key of the seat: the pressed key takes over the repeat slot, or
\* empties it when the keymap or the compositor does not repeat this key.
KeyPress(e) ==
  /\ e.ev \in {"escape", "enter", "move"}
  /\ repeat' \in {e, NoEvent}
  /\ Key(e)
  /\ UNCHANGED <<closed, layout_dirty>>

KeyRelease(e) ==
  /\ e.ev = "release"
  /\ repeat' = NoEvent
  /\ UNCHANGED <<running, closed, layout_dirty, selected, apply_requested>>

KeyboardLeave(e) ==
  /\ e.ev = "leave"
  /\ repeat' = NoEvent
  /\ running' = (running /\ ~config.close_on_focus_loss)
  /\ UNCHANGED <<closed, layout_dirty, selected, apply_requested>>

\* The wheel selects in the same way.
PointerMotion(e) ==
  /\ e.ev = "hover"
  /\ selected' = e.at
  /\ UNCHANGED <<running, closed, layout_dirty, repeat, apply_requested>>

\* A press on a tile picks it; a press past the panel cancels when there is
\* a backdrop to click on.
PointerButton(e) ==
  \/ /\ e.ev = "tile"
     /\ selected' = e.at
     /\ ApplyAndExit
     /\ UNCHANGED <<closed, layout_dirty, repeat>>
  \/ /\ e.ev = "outside"
     /\ running' = (running /\ ~config.preview)
     /\ UNCHANGED <<closed, layout_dirty, selected, repeat, apply_requested>>

\* A configure that repeats the size changes nothing.
LayerConfigure(e) ==
  /\ e.ev = "configure"
  /\ layout_dirty' \in {TRUE, layout_dirty}
  /\ UNCHANGED <<running, closed, selected, repeat, apply_requested>>

LayerClosed(e) ==
  /\ e.ev = "closed"
  /\ closed' = TRUE
  /\ UNCHANGED <<running, layout_dirty, selected, repeat, apply_requested>>

Handle(e) ==
  KeyPress(e) \/ KeyRelease(e) \/ KeyboardLeave(e) \/ PointerMotion(e) \/ PointerButton(e)
    \/ LayerConfigure(e) \/ LayerClosed(e)

-----------------------------------------------------------------------------
(* pump_events and the loop around it.                                     *)

KeepsRunning == running /\ ~closed /\ ~interrupted

Test ==
  /\ pc = "test"
  /\ Goto(IF KeepsRunning THEN "prepare" ELSE "leave")
  /\ UNCHANGED <<config, queue, revents, running, closed, layout_dirty, interrupted, env, choice,
                 result>>

\* wl_display_dispatch_pending: one event after the other until none is left,
\* before the read (nothing, normally) and after it.
Dispatch ==
  /\ pc \in {"prepare", "dispatch"}
  /\ queue # <<>>
  /\ Handle(Head(queue))
  /\ queue' = Tail(queue)
  /\ UNCHANGED <<config, pc, revents, interrupted, env, result>>

Prepared ==
  /\ pc = "prepare"
  /\ queue = <<>>
  /\ Goto("poll")
  /\ UNCHANGED <<config, queue, revents, running, closed, layout_dirty, interrupted, env, choice,
                 result>>

\* Any step of the pump that talks to the compositor or to the instance socket
\* may fail and end the run without applying anything; so may a frame.
Fail ==
  /\ pc \in {"prepare", "poll", "read", "dispatch", "instance", "render"}
  /\ Goto("failed")
  /\ UNCHANGED <<config, queue, revents, running, closed, layout_dirty, interrupted, env, choice,
                 result>>

Readable == (IF inbox # <<>> THEN {"display"} ELSE {})
              \cup (IF replace_pending THEN {"instance"} ELSE {})

PollReady ==
  /\ pc = "poll"
  /\ Readable # {}
  /\ revents' = Readable
  /\ Goto("read")
  /\ UNCHANGED <<config, queue, running, closed, layout_dirty, interrupted, env, choice, result>>

\* A deadline (key repeat, spinner, preview, idle buffers) or a worker's result;
\* a result that is there is reported before a signal is taken.
PollOther ==
  /\ pc = "poll"
  /\ Readable = {}
  /\ revents' = {}
  /\ Goto("read")
  /\ UNCHANGED <<config, queue, running, closed, layout_dirty, interrupted, env, choice, result>>

\* The handler runs inside ppoll, which returns EINTR: pump_events ends early.
PollSignal ==
  /\ pc = "poll"
  /\ signal
  /\ signal' = FALSE
  /\ interrupted' = TRUE
  /\ Goto("after")
  /\ UNCHANGED <<config, queue, revents, running, closed, layout_dirty, inbox, sent,
                 replace_pending, choice, result>>

ReadEvents ==
  /\ pc = "read"
  /\ IF "display" \in revents
     THEN queue' = queue \o inbox /\ inbox' = <<>>
     ELSE UNCHANGED <<queue, inbox>>
  /\ Goto("dispatch")
  /\ UNCHANGED <<config, revents, running, closed, layout_dirty, interrupted, sent, signal,
                 replace_pending, choice, result>>

Dispatched ==
  /\ pc = "dispatch"
  /\ queue = <<>>
  /\ Goto("refresh")
  /\ UNCHANGED <<config, queue, revents, running, closed, layout_dirty, interrupted, env, choice,
                 result>>

RefreshPanel ==
  /\ pc = "refresh"
  /\ layout_dirty' = FALSE
  /\ Goto("instance")
  /\ UNCHANGED <<config, queue, revents, running, closed, interrupted, env, choice, result>>

InstanceDispatch ==
  /\ pc = "instance"
  /\ IF "instance" \in revents
     THEN replace_pending' = FALSE /\ running' = FALSE
     ELSE UNCHANGED <<replace_pending, running>>
  /\ Goto("repeat")
  /\ UNCHANGED <<config, queue, revents, closed, layout_dirty, interrupted, inbox, sent, signal,
                 choice, result>>

\* matuwall_seat_dispatch_repeat, due or not; a repeated move goes one further.
DispatchRepeat ==
  /\ pc = "repeat"
  /\ Goto("after")
  /\ \/ repeat # NoEvent /\ \E e \in Events : e.ev = repeat.ev /\ Key(e)
     \/ UNCHANGED <<running, selected, apply_requested>>
  /\ UNCHANGED <<config, queue, revents, closed, layout_dirty, interrupted, env, repeat, result>>

AfterPump ==
  /\ pc = "after"
  /\ Goto(IF running THEN "render" ELSE "leave")
  /\ UNCHANGED <<config, queue, revents, running, closed, layout_dirty, interrupted, env, choice,
                 result>>

Render ==
  /\ pc = "render"
  /\ Goto("test")
  /\ UNCHANGED <<config, queue, revents, running, closed, layout_dirty, interrupted, env, choice,
                 result>>

-----------------------------------------------------------------------------
(* The way out.                                                            *)

\* A signal or a closed surface wins over a request to apply.
BugLeaveForgets ==
  /\ pc = "leave"
  /\ IF apply_requested /\ ~closed /\ ~interrupted
     THEN Goto("apply") /\ UNCHANGED outcome
     ELSE Goto("done") /\ outcome' = "cancelled"
  /\ UNCHANGED <<config, queue, revents, running, closed, layout_dirty, interrupted, env, choice,
                 wallpaper, remembered>>

Leave ==
  /\ pc = "leave"
  /\ IF apply_requested
     THEN Goto("apply") /\ UNCHANGED outcome
     ELSE Goto("done") /\ outcome' = "cancelled"
  /\ UNCHANGED <<config, queue, revents, running, closed, layout_dirty, interrupted, env, choice,
                 wallpaper, remembered>>

\* apply_selection up to the backend: the path cannot be resolved, there is no
\* backend, or it fails.  Nothing has changed then.
ApplyFails ==
  /\ pc = "apply"
  /\ outcome = "none"
  /\ outcome' = "failed"
  /\ Goto("done")
  /\ UNCHANGED <<config, queue, revents, running, closed, layout_dirty, interrupted, env, choice,
                 wallpaper, remembered>>

BackendApplies ==
  /\ pc = "apply"
  /\ outcome = "none"
  /\ wallpaper' = selected
  /\ outcome' = "applied"
  /\ UNCHANGED <<config, queue, loop, env, choice, remembered>>

\* selection_save may fail, which is only logged; then the hooks run.
SaveSelection ==
  /\ pc = "apply"
  /\ outcome = "applied"
  /\ remembered' \in {remembered, selected}
  /\ Goto("done")
  /\ UNCHANGED <<config, queue, revents, running, closed, layout_dirty, interrupted, env, choice,
                 wallpaper, outcome>>

Ended == pc \in {"done", "failed"} /\ UNCHANGED vars

Loop ==
  \/ Test \/ Dispatch \/ Prepared \/ PollReady \/ PollSignal \/ ReadEvents \/ Dispatched
  \/ RefreshPanel \/ InstanceDispatch \/ DispatchRepeat \/ AfterPump \/ Render
  \/ Leave \/ ApplyFails \/ BackendApplies \/ SaveSelection

Next == Loop \/ PollOther \/ Fail \/ CompositorSends \/ NewerLaunch \/ SignalSent \/ Ended

(* The process runs, and ppoll returns when something it waits for is      *)
(* there.  Linux reports ready descriptors before it takes the signal, so  *)
(* the signal needs strong fairness: the compositor's events (MaxEvents),  *)
(* the replacement requests and the workers' results run dry in the end.   *)
(* Deadlines, failures and the outside world owe nothing.                  *)
Fairness == WF_vars(Loop) /\ SF_vars(PollSignal)

Spec == Init /\ [][Next]_vars /\ Fairness

-----------------------------------------------------------------------------
(* Properties.                                                             *)

\* What the variables range over.
TypeOK ==
  /\ inbox \in Seq(Events) /\ queue \in Seq(Events) /\ sent \in 0 .. MaxEvents
  /\ pc \in PCs /\ revents \subseteq {"display", "instance"}
  /\ {running, closed, layout_dirty, signal, interrupted, replace_pending, apply_requested}
       \subseteq BOOLEAN
  /\ repeat \in Events \cup {NoEvent}
  /\ {selected, wallpaper, remembered} \subseteq Items \cup {None}
  /\ outcome \in {"none", "cancelled", "failed", "applied"}

(* Whoever asks the run to end, Escape, Enter, a click, the compositor, a  *)
(* newer launch or a signal that arrives between two looks at the flag,    *)
(* gets it to end without anything else having to happen.                  *)
StopEndsRun ==
  ~running \/ closed \/ interrupted \/ signal \/ replace_pending ~> pc \in {"done", "failed"}

(* An apply that was asked for is carried out or reported as failed; only  *)
(* a lost compositor or instance socket ends the run before it.            *)
EnterIsAnswered ==
  apply_requested ~> outcome \in {"applied", "failed"} \/ pc = "failed"
=============================================================================
