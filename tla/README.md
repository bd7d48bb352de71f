# Matuwall in TLA+

Matuwall is a wallpaper picker for Wayland: a panel of thumbnails over the
desktop, a full-screen preview behind it, and a backend that is told which
wallpaper to show. It is one C program of one process: a main thread with an
event loop, and up to four worker threads that decode images. This directory
holds TLA+ models of it, the TLC configurations that check them on small
instances, and proofs checked by TLAPS. `PROJECT.json` ties every definition to
the lines it models. Paths below are relative to `src/src/`.

Contents: [the system](#the-system), [the modules](#the-modules),
[what the runs check](#what-the-runs-check), [bounds](#bounds),
[fairness](#fairness), [what is proved](#what-is-proved),
[findings](#findings), [observations](#observations),
[what is not modelled](#what-is-not-modelled), [plan](#plan).

## The system

```
 newer launch --socket--> instance lease --+
 compositor --events--> event loop (app/loop.c) --> input --> grid navigation
      ^                    |     |      |                        |
      |                    |     |      +-- key repeat (seat)    v
      |                    |     |                     thumbnail store   preview
      +-- buffers <- frames/panel, backdrop                |               |
                                |                          v               v
                                +--- drain <--eventfd-- worker pool, 4 threads
                                |                          |  decode budget
                        backend, state file                v
                                                    decoders, image cache
```

| component | state | operations | works with |
|---|---|---|---|
| worker pool (`thumb/worker.c`) | job queue, result list, `running_preview`, `stopping`, eventfd | submit, submit_preview, cancel_preview, prioritize_thumbs, drain, request_stop, pool_stop; the worker thread | called by thumbnails and preview; eventfd wakes the loop |
| decode budget (`thumb/worker.c`, `thumb/decode/format.h`) | `decode_bytes`, tickets, `budget_freed` | reserve, release, broadcasts of cancel and stop | called from inside a decoder |
| image cache (`thumb/cache.c`) | files named by the hash of a key, temporary files | key, lookup, validate, store, clear | called by the workers; other launches share the files |
| decoders and scaling (`thumb/decode.c`, `thumb/decode/*`, `thumb/scale.c`) | handles and memory of one decode, its rows | open, PNG, JPEG and WebP; push a row | called by the workers; poll a stop flag, reserve from the budget |
| event loop (`app/loop.c`) | `running`, `interrupted`, the poll set | pump_events, render_if_needed, apply_selection, the way out | calls all others |
| input handlers (`app/input.c`) | none of their own | key, hover, click, scroll, focus | run inside the dispatch of a batch |
| seat and keyboard (`wayland/seat.c`), pointer | keymap, deferred keymap, repeat slot, rate and timer, scroll remainder | capabilities, keymap, enter, leave, key, modifiers, repeat_info, dispatch_repeat; motion, axis | call the input handlers |
| outputs and registry (`wayland/registry.c`, `output.c`) | globals, the list of outputs, the selected one | global, global_remove, name, select, finish | dispatched in roundtrips and in the loop |
| grid navigation (`grid/navigate.c`) | `selected`, `cursor`, `first_row` | move, select, scroll_into_view | called by input and by refresh_panel |
| grid layout (`grid/layout.c`) | the computed layout | adapt, sizes, rectangles, hit test, carousel index | a function of configuration and size |
| animation (`app/animation.c`) | two endpoints, the tiles that change focus, a deadline | snap, move, sample | moved by input, sampled by a frame and by hit tests |
| thumbnail store (`app/thumbs.c`, `app/thumb_store.c`) | tile states, resident bytes, remembered ranges, spinner count | start, prioritize_visible, drain, accept, evict, quiesce | submits to and withdraws from the pool |
| backdrop preview (`app/preview.c`) | `wanted`, `shown`, `in_flight`, `image`, `due_ms` | select, tick, result, render, disable | one decode in flight in the pool; commits to the backdrop |
| frame buffers and pacing (`wayland/shm.c`, `present.c`, `layer.c`) | buffer pool, frame callback, sent geometry | acquire, adopt, commit, collect, configure, scales | shared memory with the compositor |
| drawing (`render/`) | the panel's place in each buffer | tiles, clips, damage | called by render_if_needed |
| instance lease (`app/instance.c`) | lock file, socket and its name | init, dispatch, finish | other launches, through the kernel |
| application lifecycle (`app/app.c`, `main.c`) | which subsystems exist | init, run, finish | around the loop |
| wallpaper scan (`scan/dirscan.c`) | queue of directories, four limits | run, resolve | before the panel opens |
| remembered selection (`state/selection.c`) | one file and its temporary names | load, save | shared by the runs on all displays |
| backends and hooks (`backend/`, `hooks/hooks.c`) | a child process and a pipe to it | run, spawn detached | other programs, after the loop |
| configuration and command line (`config/`, `cli/`) | settings | parse, load, apply | before anything else |
| log (`util/log.c`) | lines kept in memory, the file and two rotated ones | message, activate, rotate, finish | called by all; shared with other runs |
| diagnose (`diagnose/`) | | report on the system | a program of its own |

### What is hard in it

- **Interleaving.** Workers and main thread share the pool under a mutex, but
  the stop flags are atomics read outside it, the result is copied outside it,
  and the eventfd is neither. Two condition variables are slept on. Launches
  share a cache directory, a log and a state file with no lock at all.
- **Ordering.** A batch of events is dispatched to its end although an event in
  it has ended the run. Results arrive in the order decodes end, after the
  thing they were for has changed. Capabilities, keymaps, focus and keys come
  in any order; the scans of a progressive JPEG too.
- **Staleness.** Index, size, range, scale, version of a file: each is read when
  a job is submitted or a frame is committed and used later.
- **Failure.** Any allocation, system call or decode may fail; a failure that
  leaves a flag behind (`in_flight`, `PENDING`) stops what waits for it, one in
  the middle of the start must undo what was done, one inside libpng or libjpeg
  arrives as a longjmp.
- **Crash and restart.** The lock goes with the process, the socket's name and
  temporary files stay.
- **Liveness.** Whoever sleeps (ppoll, two condition variables, the lease, a
  frame callback, a buffer) must be woken by what it waits for.
- **Edges.** 64-bit slots that wrap and saturate, unsigned subtractions, rows of
  a scaled image, and viewports at the end of a folder.

`PROJECT.json` lists each such hazard at its line, with the properties that
catch it going wrong.

### What makes each component correct

| component | properties |
|---|---|
| decode budget | the counter is what the tickets hold; the budget is passed by one decode alone; nobody sleeps who need not |
| worker pool | one owner per job; a cancel reaches the preview; no result and no wake-up lost; stopping terminates |
| image cache | an entry is the picture of the version of the wallpaper it names, whole |
| decoders and scaling | a decode counts every large buffer before it has it (a JPEG's row is [counted too small](#findings)); no early end gives a wrong picture; nothing is leaked or freed twice |
| event loop | every stop ends the run; every Enter is answered |
| seat and keyboard | a repeating key is held, on a keyboard that has focus and a rate |
| outputs, lifecycle | the surface is on the output asked for; what was built is taken down in order |
| navigation, layout, animation, drawing | selection in view and the picture at it; what is drawn is loaded; no hole; the pointer over a tile that is drawn selects it |
| thumbnail store | one job per waiting tile; memory bounded; no hole in the window; visible first |
| preview | the decode waited for exists; `shown` is true; never at rest on something stale, and comes to rest |
| scan | a wallpaper missing because of a limit is reported; the nearest ones come first |
| settings | each is the last thing said by whoever has the say, and what was read of the named file is used |
| selection, backends, hooks | what is remembered was applied, whole; nothing left behind; the run ends with its client |
| frame buffers | no buffer touched while it may be read; surface state consistent after every commit; nothing left behind in a buffer used again; a repaint is not forgotten |
| instance lease | one picker; the open one reachable; stale names harmless; whoever waits is served |

## The modules

| module | models | composes |
|---|---|---|
| `DecodeGrants` | what the decode budget promises: memory in one piece, beside others only while all fits, oversized only alone | |
| `DecodeBudget` | `reserve_decode`, `release_decode`, the stop broadcasts | implements `DecodeGrants` (`GrantsSpec`) |
| `Queues` | a walk over a linked list that keeps some of it in order | |
| `WorkerPool` | the pool's lists, flags, condition variables and eventfd, the worker thread, the main thread's calls | extends `Queues`, drives `DecodeBudget` (`BudgetSpec`) |
| `Scale` | cover crop and the streamed row scaler, as pure operators | |
| `Decode` | one decode per worker: opening, three formats, error exits, rows | extends `Scale` |
| `Cache` | `produce` and the cache directory, several launches, changing wallpapers | extends `Decode` |
| `EventLoop` | the loop, batches of events, signals, the way out and the apply | |
| `Session` | init and finish step by step with failures, registry, outputs, seat and keyboard | |
| `Grid` | operators of navigation and of the visible and kept windows | |
| `Panel` | layout, sizes, hit testing, animation and the tiles of a frame, under every input | extends `Grid` |
| `Thumbs` | the thumbnail store, over a pool reduced to queue, hands and results | extends `Grid`, `Queues` |
| `Preview` | the backdrop preview, over a pool reduced to its preview jobs | |
| `Surface` | buffers, frame callbacks, commits, damage and sizes of panel and backdrop | |
| `Instance` | launches that compete for the lease | |
| `Settings` | command line, configuration file and the overrides | |
| `Scan` | the walk over the wallpaper directory and its limits | |
| `Launch` | one launch from its arguments to its end: settings, lease, walk, the rest of the start, the run, the end | extends `Settings`, `Scan`, `Session` |
| `Apply` | backend, state file and hooks, as the processes and files they are, in several runs | |
| `DecodeBudgetProofs`, `WorkerPoolProofs`, `CacheProofs`, `ApplyProofs` | theorems | each extends the module it is named after |
| `LaunchProofs` | theorems about a launch from its arguments to its end | extends `Launch` (`Settings`, `Scan`, `Session`) and `Instance` |
| `GridProofs` | lemmas on rows, carousels and windows, and on loops | extends `Grid` |
| `ScreenProofs` | theorems about what is on screen | extends `Surface`, `Panel`, `GridProofs` |
| `PictureProofs` | theorems about the pictures asked of the pool | extends `Thumbs`, `Preview`, `GridProofs` |

`MC...` modules only give constants their values. Definitions named `Bug...`
are faulty variants of the definition that follows them, each the way a
plausible mistake in that code would read; no specification uses them. Putting
one in place of the definition must break the property `PROJECT.json` names
with it, which shows that the property can see the code. Modules whose proofs
are in one file name their specification after themselves (`PanelInit`,
`SessionNext`, `PreviewSpec`); they share no variable.

### Correspondence to the code

**WorkerPool.** A job is a heap cell, so that a freed cell can come back and a
pointer left behind would be seen. One step is one critical section of
`pool->mutex` or one access to shared state outside of it: `produce` reads the
stop flag in steps of its own (`GiveUp`, `CacheHit`, `StartDecode`,
`FinishDecode`), the write to the eventfd (`Notify`) follows the publication,
and the main thread's drain is three steps (`DrainRead`, `DrainDetach`,
`DrainDeliver`). Asleep workers are woken by a signal (one of them, any), a
broadcast, or spuriously. What a result contains is left to `Preview` and
`Thumbs`, what `produce` does inside to `Cache` and `Decode`.

**DecodeBudget.** Tickets are `held`, the sizes slept for are `want`; a stage
per worker. `RaiseStop` is any set of flags raised in one critical section with
its broadcast, as cancel and request_stop do. `WorkerPool` instantiates it, with
the stop flag computed from the job, and `BudgetSpec` checks that the pool
never does more than `RaiseStop` allows.

**Scale.** A row of the output is the set of source rows averaged into it; the
colour does not matter. `AxisSpan` and `CoverCrop` are the code's integer
arithmetic; only the vertical axis is followed, the horizontal one uses the
same functions on whole rows.

**Decode.** A decode (`dec[w]`) is where it is, what memory and handles it
holds, what it reserved, what it has read, and the scaler. Every allocation may
fail and every library call may jump: `PngJump` and the failures of the others free
what the code's cleanup frees at that point. A JPEG's scans are a sequence; a
scan says which components' DC coefficients it carries and whether it is their
last refinement. `Decode` reserves at the places the decoders do; whether the
pool grants it is `DecodeBudget`. A reservation is the set of buffers it counts
(`granted`). For the row of a JPEG the size matters too: it is counted by the
dimensions libjpeg was last asked for, which may be those of a trial
(`TrialSize`, `RowCounted`), and taken by those of the scale that was chosen
(`OutputSize`, `RowTaken`).

**Cache.** `produce` as the system calls another process can see: stat, open and
read of the entry, decode, stat again, mkstemp, write, rename. A wallpaper is a
path and a version; replacing a file gives it a fresh version, and a descriptor
that is open keeps reading what was there or, when it is overwritten in place,
the new contents. `Name` may map several keys to one file, as a hash may. Workers
outside `Watched` belong to another launch that may die at any step and whose
decodes are one step; `matuwall --clear-cache` is an action.

**EventLoop.** `pc` is the place in `pump_events`; prepare/read/dispatch of
libwayland are `Dispatch`, `Prepared`, `ReadEvents`, `Dispatched`; the batch is
consumed in one step, event by event, with the handlers of `input.c`, `seat.c`
and `layer.c`. A signal is blocked outside `ppoll`. The exits (`Fail`, `Leave`)
and `apply_selection` follow in the code's order: the backend, then the state
file, either of which may fail.

**Session.** `stage` runs through `InitStages`, which are the calls of
`matuwall_app_init`, each of which may fail, through `run`, and through
`FinishOrder`, which are those of `matuwall_app_finish`. Events are dispatched
only while a roundtrip waits and during the run. The seat keeps its file
descriptor of a pending keymap with the value it has before
`matuwall_seat_init`; `keyboard` is what the compositor knows (focus, held
keys), which the code must not contradict.

**Grid, Panel.** The cursor of a carousel saturates at `MinSlot` and
`MaxSlot`, which stand for `INT64_MIN` and `INT64_MAX`. `VisibleRanges`,
`InWindow` and `Wanted` translate the functions of `thumb_store.c` and
`thumbs.c`. `Panel` adapts the layout to an output, sizes the panel's surface
and takes any size the compositor configures instead (`ConfigurePanel`), which the
next iteration follows (`Refresh`: `refresh_panel`). Keys, wheel and hover end in
`selection_changed`, which moves the animation. `Drawn` are the tiles a frame
draws: those within `SlotBounds` whose clipped rectangle is not empty. `Picture`
is what of a tile is seen, its rectangle cut by the panel and by `TileClip`, and
`Viewport` what the clips leave of the panel; `Hit` knows the panel only, as
`matuwall_layout_hit` does. Lengths are whole pixels at scale 1, positions in halves of them, because a carousel is
centred.

**Thumbs.** One step of the main thread is one callback: a move ends with
`prioritize_visible`, a drain delivers every result, each of which may evict others.
Evictions, submissions and deliveries go in the order of the code's loops, which
are functions of the number of turns made (`Evictions`, `SubmitAll`,
`Deliveries`); withdrawing and reordering go over the queue once (`Only`).
Thumbnails are of one size in a run, as the pool produces them.

**Preview.** An iteration of the loop is drain, tick and render in one step; the
drain goes over the results as the code's loop does (`PreviewResults`).
Results carry what the code keeps in them: index, target, `ok`, and `cancelled`
as copied before the publication (`Flag`) or not. Drawing waits for the frame
callback and may fail, which disables the preview.

**Instance.** A step is a system call another launch can see: the lock attempt,
the connection, the removal of a stale name, bind, listen, close, unlink,
unlock. The name (`path`) and the socket (`listening`) are separate, as they
are in the file system. A crash drops lock and socket and leaves the name.

**Surface.** `layer` is `struct matuwall_layer`, `compositor` what the
compositor keeps from commit to commit. Widths stand for sizes; heights go
through the same code. A buffer of the panel knows where it was drawn last
(`panel`, the code's `panel_damage`) and which of its pixels are not
transparent. `InheritScale`, which the preview calls from tick and
render, is an event here, since the panel whose scale it is, is not in the
model: the backdrop may take over any scale at any time. A pool is a set: of two
buffers that are alike it does not matter which is used.

**Apply.** `EventLoop` says when a run applies; `Apply` is what it then does. A
run is a place in `apply_selection`, `matuwall_backend_run`,
`matuwall_selection_save` and `spawn_detached`, a step a system call. A child is
"forked", "running" its program, "succeeded" or "failed"; of its exec pipe the
model knows who can still write to it, since that is what a read waits for. A
state file is a number, so that a name (`state`, `tmps`) can be moved from one
to another while a run has it open. The path that was scanned, which is
remembered, and the real path of the same file, which the client and the hooks
get (`app/loop.c:332`), are one value here; a path that cannot be resolved is
one of the refusals before the client.

**Scan.** A directory is the set of its entries, read in any order; the queue of
directories, its head and the end of the current level are the code's. A tree is
chosen once and does not change during the walk. The end of a directory
(`CloseDir`) is also that of a `readdir` which has failed: the code does not tell
the two apart. `walk.lost` keeps the entries such an error has lost, and
`walk.unreadable` the directories that could not be opened; only the properties
read them.

**Settings.** `said` and `entries` record what was on the command line and in
the file; only the properties read them. A value is checked where the code checks
it: on the command line a bad one ends the program, in the file it leaves the
key as it was. `EndOfFile` is the end of the file or an error of reading, which
`fgets` returns alike.

**Launch.** `Use` is the call of `matuwall_app_init` with the settings that were
resolved. `Find` puts any tree on the disk when the stage of the walk has come, of
which the walk then reads what `Scan` says. `Walked` is how the init goes on: a walk
that ran out of memory ends it, a directory that cannot be opened does not. A part
whose results no later part reads is dropped where the later one begins: of the
settings the walk knows `recursive` alone, and the run knows nothing of the walk
(the folder of `Panel` has any size). Preview, mouse and output, which `Session`
knows, are chosen at the connection (`Choose`), as nothing reads them before.

## What the runs check

| run | states | shows |
|---|---|---|
| `decode_budget` | 27,857 | `SleepersNeedMemory`, `GrantsSpec` (the refinement) |
| `worker_pool` | 234,099 | `OneOwner`, `CancelReachesPreview`, `NoLostResult`, `WorkConserving`, `BudgetSpec` (composition), `StopTerminates` (liveness) |
| `produce` | 963,489 | `WithinReservation`, `PictureExact`, `EntrySound`, `NothingLeaks` |
| `event_loop` | 226,568 | `StopEndsRun`, `EnterIsAnswered` (liveness) |
| `panel` | 76,977 | `SelectedInView`, `VisualFollows`, `NoHoleAtRest`, `DrawnIsServed`, `HitIsUnderPointer` |
| `thumbs` | 38,420 | `OneJobPerTile`, `WindowFilled`, `VisibleFirst` |
| `preview` | 110,892 | `NamesExist`, `Settles` (liveness) |
| `surface` | 192,170 | `HeldUntouched`, `GeometryFits`, `NothingLeftBehind`, `Repaints` (liveness) |
| `instance` | 74,689 | `OnePicker`, `Reachable`, `WaiterIsServed` (liveness) |
| `apply` | 247,239 | `OnlyApplied`, `NothingLeft`, `ApplyEnds` (liveness) |
| `launch` | 3,388,723 | `Resolved`, `MissingIsReported`, `NearestFirst`, `RepeatIsHeld`, `OutputAsked`, `TornDown` |

One more run, `jpeg_row` (`MCRow`), checks what the repository says of itself and
the code does not do: TLC finds a counterexample to `PeakDeclared`, which
[findings](#findings) explains.

The comment above each property says what it means and which behaviour of the
code it is about. The type invariants are not checked by runs of their own: for
the modules that have a proof the types are part of what is proved
(`TypeCorrect` of the budget says that no unsigned counter is taken below zero,
that of the lease that the backlog is kept).

Deadlock is checked in every run but `instance`, `surface`, `produce` and
`jpeg_row`, where the system may stop: all launches have ended, the panel's run is
over, or the workers wait for a job while wallpapers no longer change.
`launch` and `apply` come to an end too, and say so by a step of their own
(`Over`, `AllEnded`), so that stopping anywhere else is a deadlock.

Several properties are conjunctions of named parts, which the comment above
each part explains: `SleepersNeedMemory` (the counter, the wake-ups, the decode
that will wake), `PictureExact` (`DcComplete`, `RowsExact`), `WindowFilled`
(`ResidentBounded`, `NoHoles`), `DrawnIsServed` (with `AskedIsKept`) and
`Reachable` (with `BindsFreely`).

## Bounds

Every bound is a constant of a configuration. What each is large enough for:

- `decode_budget`: the real four workers, budget 4, limit 8, sizes 2, 6 and 9:
  two decodes fill the budget exactly, a third sleeps, 6 is oversized and has to
  run alone, 9 is refused. Two kinds of sleepers (small and oversized) on one
  condition variable is what a lost wake-up takes. The proofs lift the bound.
- `worker_pool`: two workers, three cells, budget for one decode. A running
  preview, one that supersedes it and a thumbnail exist together; cells are used
  again at once; the second decode sleeps on memory; the fourth allocation fails.
  The proofs lift cells and budget, and the threads up to the four of the code.
- `produce`: one worker of this launch and one of a launch that may die, which
  share a wallpaper and an entry; all three formats and files that are smaller,
  larger, wider and taller than the targets; interlaced PNGs, and JPEGs with one
  scan, with DC of all components first, one at a time, or refined at the end.
  One replacement of the wallpaper (`MaxVersion` 2), at any step, in place or
  by a rename, with or without a removal. All keys share one file name, the
  worst a hash can do. The proofs lift workers, versions,
  wallpapers and names, the sizes of pictures and targets, the number of passes
  and the scans.
- `event_loop`: two events, because a race in a batch is between an event and
  the next; plus a newer launch, a signal, a repeating key and any deadline.
  Two items, to tell the chosen from the applied.
- `panel`: five configurations: a grid that fits and one that is cut off, and
  carousels of each direction, with an odd and an even number of columns, that
  clip, fade or let tiles peek out at the edge. Two outputs, on one of which
  less fits than configured, one other size of the surface; folders of one,
  four and seven items, which end in a full row and in a partial one and are
  smaller and larger than the panel; memory for fewer and for more tiles than
  are seen. Slots -4 to 6 exceed the folder on both sides, so that wrapping and
  saturation both occur. Animations of two ticks have a middle; two moves in a
  row interrupt one. The proofs lift all of this.
- `thumbs`: four items, two columns, one row, and room for three, for one and
  for no thumbnail, two workers, one item whose job may fail. The screen shows
  fewer, as many and more tiles than memory holds. The proofs lift all of this:
  folders, columns, rows, memory, workers and the size of a thumbnail.
- `preview`: two items, one faulty, two sizes, two workers, one refused
  allocation, two inputs or resizes after the one the run begins with: A, B and A
  again, the shortest way to a result that answers for another, or a change of
  wallpaper and one of size in any order, with failures in between. For
  `NamesExist` the proof lifts all of this.
- `surface`: two widths and scales and one fraction, two changes; from one width
  to the other and back is the shortest way to stale buffers that count again.
  The panel is one wide at a gap of one, so that it moves with the width. The
  proofs lift all of this.
- `instance`: three launches, so that two wait for one; a backlog of one, so
  that a connection can be refused; one crash at any step. For its safety the
  proofs lift the numbers of launches and crashes and the backlog.
- `apply`: two displays and three runs, so that two save at once and a third
  restores what they left; two wallpapers, to tell whose is remembered; one
  hook. Every run may crash. The proofs lift all of this.
- `launch`: three options, so that a flag can be given, taken back and given
  again; two entries, so that a key is set twice or a good entry precedes the
  broken line; lists of one item more than fits. Two keys: the backend, which a
  command also sets, and the one the walk reads; one list stands for the hooks and the
  backend args, which follow the same rules. Then all trees of five entries, depth
  2, three directories, three entries below the top and two images: each of the
  limits is reached alone and with others, and a tree is deeper than the walk. Of
  trees that differ in the numbers of their entries only, one is enough (`MCDisks`),
  as a directory is read in any order. Then
  two advertised outputs, so that the one asked for may be unplugged and replaced by
  one of the same name (a new global each time) while another stays; two keys, so
  that a release of one meets the repeat of the other; every pair of the choices
  preview, mouse and output. The number of events is not bounded. The proofs lift
  all of this: any options, entries and items, trees and limits of any size, any
  outputs and keys.
- `jpeg_row` has the bounds of `produce` without a replacement.

The model has no other limits; where a C integer could wrap, the model either
keeps the wrap (`MustWait`, the cursor) or a property says that it does not
happen (`SleepersNeedMemory`, the types of the budget).

Assumptions a model makes about its world, beyond the bounds: every change of a
file gives it a modification time or size it never had (`Cache`); `mkstemp`
names are unique; the machine does not lose power, so that a rename and the
write before it are not reordered on the disk; events of an object bound in a
roundtrip arrive in a later one (`Session`).

## Fairness

Liveness is checked under these assumptions only, and each is about something
outside the code's control that has to go on:

- `WorkerPool`: a runnable thread runs, a running decode comes back. The main
  thread owes nothing but to finish what it has begun (`FreePool`, after the
  joins). Spurious wake-ups are allowed, never required.
- `EventLoop`: the process runs and `ppoll` returns when something is ready:
  weak fairness of the loop. `PollSignal` needs strong fairness: Linux reports
  ready descriptors before it delivers an unblocked signal, so a compositor that
  never stops sending could keep a signal waiting. Its events are bounded.
- `Preview`: only that the whole does not stop while a worker, a deadline, a
  frame callback or the loop can go on: one weak fairness of the disjunction.
- `Instance`: every launch goes on running, and a retry comes due. Nobody has
  to start, leave, fail, crash or run out of time.
- `Surface`: the loop runs when it was woken, the compositor answers a frame
  callback, and gives back a buffer once it shows another one. The one on screen
  it may keep for ever, which is why the panel needs two.
- `Apply`: the run goes on, its child comes to execute a program or to fail, and
  the client of the backend ends, which is the one thing `waitpid` cannot do
  without. A hook need never end.

The other modules have safety properties only.

## What is proved

All theorems hold for every value of the constants under the named ASSUMEs of
their modules, which TLC evaluates in the runs.

| module | theorem | states |
|---|---|---|
| `DecodeBudgetProofs` | `TypeCorrect` | `Spec => []TypeOK`: the counter stays a natural number, it never wraps |
| | `BudgetConserved` | `Spec => [](Conservation /\ OnlyDecodersHold)` |
| | `BudgetRespected` | `Spec => []OversizedRunsAlone` |
| | `NoLostWakeup` | `Spec => []SleepersNeedMemory` |
| | `ImplementsGrants` | `Spec => GrantsSpec` |
| `WorkerPoolProofs` | `EveryJobOwnedOnce` | `Spec => []OneOwner` |
| | `CancelNeverMisses` | `Spec => []CancelReachesPreview` |
| | `ResultsReachMain` | `Spec => []NoLostResult` |
| | `NoWakeupIsLost` | `Spec => []WorkConserving` |
| | `PoolRefinesBudget` | `Spec => BudgetSpec` |
| `CacheProofs` | `CacheIsSound` | `Spec => []EntrySound` |
| | `NothingIsLeaked` | `Spec => []NothingLeaks` |
| | `ReservedFirst` | `Spec => []WithinReservation` |
| | `PicturesAreExact` | `Spec => []PictureExact` |
| `LaunchProofs` | `SettingsResolved` | `LaunchSpec => []Resolved` |
| | `NothingMissedSilently` | `LaunchSpec => []MissingIsReported` |
| | `NearestComeFirst` | `LaunchSpec => []NearestFirst` |
| | `TypeCorrect` | `InstanceSpec => []TypeOK` |
| | `OneAtATime` | `InstanceSpec => []OnePicker` |
| | `OpenIsReachable` | `InstanceSpec => []Reachable` |
| | `RepeatHeld` | `LaunchSpec => []RepeatIsHeld` |
| | `AskedOutput` | `LaunchSpec => []OutputAsked` |
| | `TakenDown` | `LaunchSpec => []TornDown` |
| `ScreenProofs` | `HeldStays` | `Spec => []HeldUntouched` |
| | `GeometryStays` | `Spec => []GeometryFits` |
| | `NothingStays` | `Spec => []NothingLeftBehind` |
| | `SelectionStaysInView` | `PanelSpec => []SelectedInView` |
| | `AnimationFollowsSelection` | `PanelSpec => []VisualFollows` |
| | `NoTileIsLeftOut` | `PanelSpec => []NoHoleAtRest` |
| | `WhatIsDrawnIsServed` | `PanelSpec => []DrawnIsServed` |
| | `PointerHitsWhatIsDrawn` | `PanelSpec => []HitIsUnderPointer` |
| `PictureProofs` | `OneJob` | `Spec => []OneJobPerTile` |
| | `NothingForgotten` | `Spec => []WindowFilled` |
| | `ServesScreen` | `Spec => []VisibleFirst` |
| | `WhatIsNamedExists` | `PreviewSpec => []NamesExist` |
| `ApplyProofs` | `RemembersApplied` | `Spec => []OnlyApplied` |
| | `LeavesNothing` | `Spec => []NothingLeft` |

Every safety property that a passing run checks is among them.

**The budget.** Assumed: the budget is a positive natural, limit and sizes are
naturals. None of the properties is inductive alone: the counter's type
needs that it equals the sum of the tickets, or a release could go below zero;
the sum needs that a worker that is granted memory holds none, which is
`OnlyDecodersHold`; that a sleeper has to sleep needs the budget's arithmetic,
since a grant to somebody else must not make its condition false. `IInv` is
their conjunction, and `InitIInv` and `NextKeeps` prove it inductive, with a
lemma per action. The arithmetic of four tickets is in lemmas over constants
(`SumUpdate`, `WaitGrows`, `FitsBeside`). `SleeperHasRunner`, that whoever
sleeps can expect a release, follows from `IInv`. The refinement uses `IInv` in
its only difficult step: a grant is `Admit`, since a worker that need not wait
beside y > 0 bytes fits with them; everything else is `Return` or a stutter.

**The pool.** Assumed: one to four threads, as the budget has four tickets, and
at least one cell. `OneOwner` says of each cell that it is reached from one
place; to stay true it needs that no list has a cell twice and no two share one
(`Apart`), that a cell is free exactly when it is nowhere (`Accounted`), and that
a worker has a cell in hand exactly at the places of a job (`Staged`). These are
statements about sequences of any length; what head, tail, append and the walk
of `Only` do to the elements of a list and their order is in lemmas
(`AppendFacts`, `OnlyFacts` and others, which `PictureProofs` has too), so that no
step of the proof looks into a list. `Newest` is what a cancel relies on: at most one preview that
nobody cancelled is queued or in hand, and `running_preview` is it. For
`WorkConserving` the workers on their way to the queue are counted against the
jobs in it (`Takers`): a submission adds one job and wakes one sleeper, and a
worker that leaves the queue with a job takes one off both. `NoLostResult` is inductive once `pc` has
its type: a worker leaves "notify" only by writing the eventfd, the main thread
clears it only on its way to detaching the list. `PoolRefinesBudget` maps each
step of the pool to one of the budget or to a stutter, where the stop flags are
computed from jobs and threads; a cell freed and used again must not take a flag
back from a decode under way, which is where `IInv` is needed. With it, what
`DecodeBudgetProofs` says holds of the tickets in the pool.

**The cache.** Assumed: the jobs are for known wallpapers, and there is a first
version. The invariant gives each worker what is known at each place of
`produce` (`WorkOk`). Its heart is that a version is never used twice: if the
file has the key's version *now*, it has had it ever since the key was taken,
so that the descriptor that was opened in between is of this version and
nothing else was read through it. This is what makes the second stat enough,
and it is about a file somebody else may replace at any step. From the check on
the picture is known to be the key's (`Shows`), and stays so whatever happens to
the wallpaper. Temporary files carry it to the rename, also those of a process
that died; an entry is whole because only a whole temporary file is renamed.
Decodes come in by one lemma per step: rows and buffers change, but what was
read is the file behind the descriptor (`Follows`).

**The decoders.** Assumed: files have one of the formats, and neither a picture
nor a target is without a pixel, which the code tests before anything else
(`matuwall_image_dimensions_ok`). `Holds(d)` is exactly what a decode holds at
each of its places, `Reserves(d)` what it was granted by then and `ScansOk(d)`
how much of a JPEG has been read; `JobsOk` adds what the job around it holds
before and after. One lemma per step shows that what a cleanup gives back is all
of it. `NothingLeaks` and `DcComplete` can then be read off, and of
`WithinReservation` that every large buffer was counted (`AllCounted`). How much a
JPEG's row may exceed what was counted is a fact about the ceilings by which
libjpeg rounds (`CeilingScales`, `RowBounded`): at 1/8 the trial and the output
are the same, at any other scale the row is at most eight times as wide.
`RowsExact` is about a loop that has to come out even for all sizes. Box *i* of
the *D* output rows begins at `Bound(i)`, a quotient of *i* times the height of
the crop; the boxes go down, each has a row of its own or the one its neighbour
ends with, and the last ends at the bottom of the crop (`Bounds`, `SpanIs`, which
rest on quotient and remainder only). Before row *y* is pushed, the sums are
those of the rows of the next box before *y* (`Fed`); within the push a row may
finish several boxes of an enlarged picture, and each turn either deals with the
row or finishes one more (`Turned`), so that the turns `Pushed` makes are enough.
`RowsOk` carries this through the passes of a PNG, of which only the last is
pushed, and the scales of a JPEG, and `AllStreamed` says that the last source row
finishes the last box: a loop over the rows that ends has written the picture.

**The configuration.** Assumed: the names of options, keys and lists are
different, and no value is the mark for the default. Two statements carry
`Resolved` to the end. What was parsed is what was said (`SaidInv`): each field of
`options` is determined by the last saying about it, however many came before.
What is configured is what was read (`FileInv`): while the file is open, the last
good entry counts (`ReadSoFar`); from then on it counts only if no line was broken
(`ReadAll`), and a broken one leaves the defaults. An error of reading only ends
what is read. Lists are sequences of any length, of which an entry replaces the
whole and an option adds an item, unless it is the first. The override of a command by a backend, given in
any order, is the one case that needs both.

**The walk.** Assumed: a positive depth; the other limits are naturals. A tree is
any assignment of parents and kinds. The queue is what has to be understood
(`WalkInv`): it holds directories whose ancestors have been opened, each once, and
its levels are in order (`LevelInv`), those before the end of the current level one
deeper than those before its head, those after it one deeper again. So the
directory that is dropped when the queue is full is as deep as any in it
(`EnteredInv`), and the image that is dropped when the list is full as deep as any
found, since directories are read in the order of the queue: that is
`NearestFirst`. `MissingIsReported` rests on what has been seen: an entry whose
directory was read past it was found, is in the queue, raised the flag, or is
among those an error of `readdir` has lost (`LostInv`: entries of directories that
were opened); at the end nothing is left to read. A walk that fails gives everything back, and then both
hold of nothing.

**The launch.** Assumed: `recursive` is a key, its default is to stay in the top
directory, and the disk holds a tree. `LaunchInv` is the conjunction of the invariants of the parts
with what makes their order harmless: before the display there is neither an
output nor a selection (`NothingYet`), so that the settings chosen there change
nothing the run has established (`ChooseKeeps`); the walk is idle until the
settings are in use, and what `Run` leaves of it is a walk that has not begun.
Each step of the launch is one of a part, which the part's own lemmas cover.

**The seat.** Assumed: keys are positive, as 0 is the slot of no key. The
invariant is the property with its types, plus: only a keyboard with the focus
holds keys, which the compositor guarantees by the leave it sends. The handlers
of keymap, modifiers and press may load a pending keymap late, which changes
nothing a repeating key rests on (`LoadedIsBacked`).

**The run.** `RunInv` says for each stage what stands (`Standing`) and what has
been undone (`Undone`). Neither property is inductive without it: a global may
go only after the layers and the seat, which is known from the stage the end
has come to, and that in turn from every stage before. A layer keeps the
globals it is made of (`LayerOk`), which is why an event may add a global and
none may take one away. For the output: a selection points at an entry with the
name asked for, and removal is the one step that clears it, which it does
together with `lost` (`RemoveKeeps`). Events leave the stage alone, so they all
fall under two lemmas (`StandingAcross`, `StandingLater`); every step of the end
falls under `EndStep`.

**The surface.** Assumed: widths and scales are positive, as `handle_configure`
takes no size of 0 and `handle_preferred_buffer_scale` no scale below 1; fractions, the width the panel
needs and its gap are naturals, and `None` is neither a width nor a geometry. For `HeldUntouched`: what the compositor reads is a held buffer of
the pool, and a name stands for one buffer of it. The latter needs that there
is always a free copy number for a new buffer, a pigeonhole argument over the
finite pool (`NewNames`); every collection keeps what is held
(`CollectionsKeep`). For `GeometryFits`: what was sent last is what the
compositor has (`SentOk`), and it fits the buffer on screen, also after
configures that have not been drawn yet. For `NothingLeftBehind`: the
pixels of every buffer of the pool are those of the panel drawn in it last
(`Clean`), however many frames and sizes ago that was, since a frame clears that
panel before it draws its own; and the one on screen has its panel where its size
puts it (`Painted`).

**The panel.** Assumed: what the ranges of `config/keys.c` give (a tile has a size,
there is a column and a row, lengths are not negative), folders of at least one
item and no more than a slot can number, an animation of at least one step. Outputs
and surfaces may have any size, 0 included. `PanelInv` says: the panel has the place the
layout gives it unless a new size is still to be followed (`PanelOk`); the cursor is
the selection, in a carousel up to whole turns of the folder (`Placed`); the rows of
a grid that are scrolled to hold it (`InView`); the animation ends at both
(`Follows`). `VisualFollows` can be read off. The others ask what the numbers mean,
and everything there is division:

- *In view.* `fit_cells` divides what an output leaves by a stride, and
  `surface_size` multiplies again: the panel is as large as its rows and columns, and
  no larger than the output (`CellsFit`, `SurfaceSizeFacts`). A scroll of whole rows
  puts the selected row between the margins (`ScrollShows`), centring the cursor of
  a carousel does (`SelectedIsWhole`).
- *Hits.* What is seen of a tile is part of its rectangle, and between the clips
  nothing of a rectangle is cut off. A position is divided by the stride. That the remainder is below the size
  of a tile is the same as being inside its rectangle, also for the slots before the
  first, as the quotient is rounded down (`CellFacts`), and with the half pixel a
  carousel is centred by (`SpanMeans`).
- *The pass over the tiles.* A tile is in sight when its clipped rectangle is not
  empty. The first slot of the pass comes before all that are in sight
  (`GridBounds`, `CarouselReach`), and the pass ends at the first tile behind the
  panel, which no tile in sight comes after because slots are in order along the
  panel (`AtRestOrder`, `InSightBeforePast`).
- *What is served.* A slot of a carousel and the selection are items some steps
  apart, in one direction or the other around the folder (`CarouselCounts`,
  `CarouselAhead`); a tile in sight is at most `Beside` steps from the visible ones
  (`GridIsServed`, `CarouselWindow`), and the window reaches that far when there is
  memory for it.

A first form of `DrawnIsServed` asked for a lookahead of one item only. All five
configurations of the run satisfied it and the proof did not go through: a margin
that lets tiles peek out shows as many of them as fit in it, and a grid shows parts
of a row at each end. `Beside` now counts what is seen, which is at most one only
in the usual layouts.

**The store.** Assumed: a folder has an item, sizes are positive, and limits,
columns, rows and workers are naturals. The first part is about the window:
which items a viewport and its lookahead reach, by rows in a grid and by steps
around the folder in a carousel (`WindowMeans`), that it holds no more than there
is memory for (`WindowFits`) and all that is on screen (`VisibleInWindow`); it
rests on quotient and remainder. The second is about the loops: evicting until
there is room, submitting the window in its order, and delivering results, each
a function of the turns made so far and by induction on them. The invariant is
then the three properties with their types and what they need between two
callbacks: the ranges the queue was last ordered for are those of now, since every
move ends with `prioritize_visible` (`Ordered`); a job answered owns its tile until
it is drained (`Owned`); and a window that memory has room for has no tile nobody
asked for (`Settled`). The step that needs care is the reordering, which is left
out when the visible ranges are the same: jobs appended then are behind all
others, and one of a tile on screen must not end up behind one off screen.

**The preview.** Assumed: the mark for "none" is no wallpaper, worker, image or
job. The invariant is that of a record which one iteration of the loop passes from
drain to tick to render (`Sound`, `Expected`), so that each of the three is a
lemma of its own. `Expected(s, answers)` says where the decode in flight is, with
`answers` the results not yet delivered; delivering one takes it out of them, and
an answer for the index in flight, told of no cancel, ends the waiting
(`ResultKeeps`, and `AnswersKeep` for any number of them). A cancel takes away the
queued job and the newest running one, and each of its three callers sets
`in_flight` in the same breath. That a result is told of a cancel only when there
was one (`JobsFit`) is why publishing keeps it. The second half of `NamesExist` is
about the one image that is either waiting for a frame or on the surface
(`ShownExists`).

**The lease.** Assumed: a positive backlog, and `None` is no launch. `OnePicker`
alone is not inductive: a step opens a picker because
of what happened at the lock, several steps before. The invariant says who holds
the lease at each place of the code (`HoldersHold`: from the removal of the stale
name until its own name is removed), that the name leads to the owner from the
bind on (`Named`), and that it is free at the bind. One lemma, `StepKeeps`, says
that a step which touches lease, name and socket only as their holder cannot
disturb another launch; `NextKeeps` shows that every action is such a step. The
unlock of a launch that gave up is the case that needs care: it reaches the same
code as an owner and must release nothing.

**The apply.** Assumed: the number of hooks is a natural number. The invariant
follows the path from the client to the file: a run that inspects a child which
succeeded, and every place after, has a path that was applied; a temporary file
is that of one run, at its place between `mkstemp` and the rename, or of a run
that died; the file of a run about to rename holds the whole path. That no two
runs write one file is what makes the state file whole, although nothing is
locked. For `NothingLeft`: a run that has ended, or waits at the picker, has a
closed pipe and no file of its own among the temporary ones.

**Induction.** The library's induction theorems take an operator, which the
provers cannot instantiate. The loops above are proved by the set form of
well-founded induction instead: the turns after which a statement fails have a
least element (`Least`, `Upwards`). This reaches functions that count turns; what
a recursion over arbitrary data computes stays with TLC.

Only model-checked: liveness (`StopTerminates`, `StopEndsRun`, `EnterIsAnswered`,
`Settles`, `Repaints`, `WaiterIsServed`, `ApplyEnds`), since fairness and ENABLED
are outside the prover. `EventLoop` has only such properties, and so no proof.

## Findings

What a line of the repository says and a run refutes. A property beside it says
what the code does do, which holds.

- **The row of a JPEG is reserved too small** (`jpeg_row`). When none of the
  scales M/8 hits the target, `jpeg_scale_for_target` sets the scale back behind
  its trials (`thumb/decode/jpeg.c:64`) and leaves `output_width` as the last trial,
  1/8, computed it. The peak counts a row of that width (`:232`);
  `jpeg_start_decompress` computes the real one, and `read_jpeg_streamed` takes a
  row of it (`:179`). `thumb/decode.h:25` says that decoders declare their transient
  peak before allocating it. `WithinReservation` has what is left of that: the
  row is counted, and exceeds the count by a factor of eight at most, not at
  all at 1/8.

## Observations

Made while modelling. No run of its own refutes the line quoted, if there is one;
where a property is about the same behaviour, it says what the code does.

- **An invalid value keeps an earlier one.** It is not stored, which leaves the key
  at what an earlier entry for it has set (`config/config.c:206`).
  `doc/matuwall.5.scd:13` says that the key's default is used, and so does the
  warning (`config/config.c:127`). `Resolved` says: the last good entry.
- **A file that cannot be read counts as read.** The loop over the lines ends when
  `fgets` returns NULL and never asks `ferror` (`config/toml.c:212`), so that an
  error of reading is the end of the file; `--config` may name a directory.
  `doc/matuwall.1.scd:66` says that the file must exist and parse successfully.
  `Resolved` says: no broken line was met in it.
- **The pointer selects what is not drawn.** `matuwall_layout_hit` rejects points
  outside the panel only (`grid/layout.c:228`). In the margin of a grid that is
  scrolled, where `tile_visibility_clip` keeps tiles out, it returns the row hidden
  there; `app/input.c:100` says that hover selects the tile under the cursor.
  `HitIsUnderPointer` is about the tiles that are drawn, and about points between
  the clips.
- `readdir` returns NULL on an error too, and `errno` is not looked at
  (`scan/dirscan.c:113`): the rest of the directory is missing, and neither
  `truncated` nor the count of unreadable directories shows it.
  `MissingIsReported` excepts these entries (`walk.lost`).
- `HeldUntouched` sees a held buffer that is freed or loses its mark. That a frame
  is not drawn into one is the guard of `Acquire` itself (`Usable`).
- Enter and a click only record that an apply was asked for (`app/input.c:22`);
  the rest of the batch is dispatched, the key repeat may fire, and
  `apply_selection` reads the selection afterwards. A hover or a key right behind
  Enter changes what is applied, although `doc/matuwall.1.scd:193` says that the
  selected wallpaper is.
- A preview that is cancelled after the last look at its flag
  (`thumb/worker.c:152`) is published with `ok` true, although
  `thumb/worker.h:71` says false. Harmless: `matuwall_app_preview_result` looks
  at the flag and the index first (`NamesExist`).
- After A, B and A again the first A's late result clears `in_flight` while the
  second A is decoded, so that for a moment more than "one submitted preview"
  (`app/preview.h:19`) may be under way; what is shown is right.
- Buffers that are released after the idle collection stay until the next frame.
- When init fails before `matuwall_seat_init`, the seat's keymap descriptor is
  still 0, and `matuwall_seat_finish` closes standard input. The model keeps
  the value ("stdin").
- An output that is unplugged while the probe waits for its first configure
  leaves a preview run with a panel on no particular output; `OutputAsked`
  excepts it (`lost`).
- A keymap that is replaced does not stop a repeating key. The key is still
  held, so that `RepeatIsHeld` is satisfied; what it means may have changed.
- While a carousel slides, places whose slot is farther from the *target* cursor
  than the radius of `slot_bounds` (`render/tiles.c:336`) stay blank;
  `NoHoleAtRest` is about the end of the animation.
- A panel shows more than the range the store calls visible: half a tile with an
  even number of columns in a centred carousel, parts of a row at the ends of a
  grid, and as many tiles as a wide margin has room for when the edge lets them peek
  out. Lookahead loads them; where the memory limit leaves less of it than is seen,
  they stay blank, and `DrawnIsServed` says so (`Beside`).
- A run that dies between `mkstemp` and the rename leaves a
  `last-selection.tmpXXXXXX`, which nobody removes later; `NothingLeft` excepts
  it (`died`).
- The log says a picker was "replaced by a newer matuwall launch"
  (`app/loop.c:312`). Launches that wait poll for the lock in no order and go on
  asking whoever holds it; of two that wait, the older one may come last and
  close the younger one's picker. `WaiterIsServed` holds for both.
- `README.md:230` of the repository says "Logs are limited to 256 KiB each". A
  run counts its own lines from the size at the open (`util/log.c:88`, `:116`),
  and runs overlap: a picker that was asked to leave gives up the lease and logs
  its exit afterwards, `--print-config` takes no lease. Neither sees the lines of
  the other. Read in the source; the log is not modelled.
- A backend client that does not end keeps the run in `waitpid`, with the panel
  still mapped and the lease held; `ApplyEnds` assumes that it ends.
- The damage told to the compositor is relative to what the same buffer held
  before, two frames ago, and not to the frame on screen. That covers the
  difference only because panels of one buffer size are in one place.

## What is not modelled

- **Contents.** Pixels, colours, names, messages and log lines; the insides of
  libpng, libjpeg and libwebp; blending, shadows, rings and the growth of the
  focused tile. Of a decode the models keep what others see: memory, stop flags,
  success, and which source rows a row was made of.
- **Time.** A deadline may pass at any moment; no property depends on how long.
- **Geometry.** Output scales other than 1 in `Panel` (they are in `Surface`),
  heights in `Surface`, the fraction of a scroll step carried to the next
  frame, an empty folder.
- **Degenerate runs.** A run without a worker pool: the code then returns
  early everywhere.
- **Text.** How TOML, values and command templates are parsed, which values a
  key takes, how a path is expanded: `Settings` has what follows from a value
  that is good or bad, `Apply` a refusal.
- **Other programs.** Which backend is found running and how its arguments are
  built is a choice; what a client does with them is its own.
- **The log** (`util/log.c`): lines kept in memory, a file, its rotation. Nothing
  else reads it, and a log that cannot be written never stops a run.
- **Diagnose** and the rest of `main.c`: sequential code that reads the system
  and prints a report; nothing else depends on it, and it changes nothing.

`PROJECT.json` "components" says of each part whether it is modelled, partly or
not, and why.

## Plan

The modules were written in the order of importance: the decode budget, the pool
over it, the event loop and its exits, navigation, thumbnails, the preview, the
lease, the surfaces; then the decoders and the cache, the panel on screen, the
run from start to end, and what comes before and after the loop. What is left:

1. An abstraction of the pool (submit, withdraw, answer) that `WorkerPool`
   implements and that `Thumbs` and `Preview` use together.
2. The log: buffering, rotation and failures of several runs.
3. Safety lemmas about `EventLoop` that its liveness rests on, such as that nothing
   but an exit leaves the loop.
