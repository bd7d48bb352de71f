------------------------------ MODULE Session -------------------------------
(***************************************************************************)
(* A whole run around the event loop: what src/src/app/app.c builds, step  *)
(* by step and with a failure after each, what it takes down again, and    *)
(* the Wayland objects whose events arrive in between: the globals and     *)
(* outputs of the registry, the keyboard of the seat with its keymap and   *)
(* its repeating key.                                                      *)
(*                                                                         *)
(* Events are dispatched while a roundtrip waits, and while the picker     *)
(* runs; at any other moment the program is alone.  An event of an object  *)
(* arrives in a later roundtrip than the one that bound the object.        *)
(***************************************************************************)
EXTENDS Integers, Sequences

CONSTANTS
  OutputNames, \* names of the outputs
  MaxGlobal,   \* bound: outputs advertised in a run, replugged ones anew
  Setups,      \* config.preview, config.mouse_enabled and --output, "" without one
  Keys         \* keys of a keyboard

\* 0 is the slot of no key (seat.h).
ASSUME KeysAssumption == Keys \subseteq Nat \ {0}

VARIABLES
  stage,    \* where matuwall_app_init is, "run", a step of FinishOrder, or "ended"
  settings, \* those of this run
  own,      \* "lease", "scan", "display", "pool": held until they are released
  globals,  \* app->registry: "registry" and the globals bound
  outputs,  \* registry.outputs: entries, failed; selected is selected_output
  layers,   \* app->layer ("panel") and app->backdrop
  seat,     \* app->seat
  keyboard  \* what the compositor knows: focus, and the keys held

session == <<stage, settings, own, globals, outputs, layers, seat, keyboard>>

Required == {"compositor", "shm", "layer_shell", "seat"}
Optional == {"viewporter", "fractional_manager"}
Roles == {"panel", "backdrop"}

NoLayer == [has |-> {}, output |-> 0, configured |-> FALSE]
NoOutputs == [entries |-> {}, failed |-> FALSE, selected |-> 0, lost |-> FALSE, last |-> 0]

(* fd: the pending keymap, "none" for -1; the zero it has before           *)
(* matuwall_seat_init is the descriptor of standard input.                 *)
ZeroSeat == [has |-> {}, fd |-> "stdin", keymap |-> FALSE, rate |-> 0, repeat |-> 0]

SessionInit ==
  /\ stage = "lease"
  /\ settings \in Setups
  /\ own = {}
  /\ globals = {}
  /\ outputs = NoOutputs
  /\ layers = [r \in Roles |-> NoLayer]
  /\ seat = ZeroSeat
  /\ keyboard = [focus |-> FALSE, held |-> {}]

InitStages ==
  <<"lease", "scan", "connect", "registry", "globals", "seat", "names", "probe", "probe_wait",
    "map", "panel", "panel_wait", "start", "run">>

\* The backdrop goes with the preview, at the end.
BugFinishOrder ==
  <<"finish_layer", "finish_seat", "finish_registry", "finish_display", "finish_instance",
    "finish_thumbs", "finish_backdrop", "finish_scan", "ended">>

\* matuwall_app_finish.
FinishOrder ==
  <<"finish_layer", "finish_backdrop", "finish_seat", "finish_registry", "finish_display",
    "finish_instance", "finish_thumbs", "finish_scan", "ended">>

After(order, s) == order[1 + CHOOSE k \in DOMAIN order : order[k] = s]
Goes == stage' = After(InitStages, stage)
Fails == stage' = FinishOrder[1]

-----------------------------------------------------------------------------
(* matuwall_app_init *)
InitInstance ==
  /\ stage = "lease"
  /\ \/ Goes /\ own' = own \union {"lease"}
     \/ Fails /\ UNCHANGED own
  /\ UNCHANGED <<settings, globals, outputs, layers, seat, keyboard>>

\* Without a directory nothing is scanned, and the run goes on.
ScanDirectory ==
  /\ stage = "scan"
  /\ \/ Goes /\ \E got \in {{}, {"scan"}} : own' = own \union got
     \/ Fails /\ UNCHANGED own
  /\ UNCHANGED <<settings, globals, outputs, layers, seat, keyboard>>

Connect ==
  /\ stage = "connect"
  /\ \/ Goes /\ own' = own \union {"display"}
     \/ Fails /\ UNCHANGED own
  /\ UNCHANGED <<settings, globals, outputs, layers, seat, keyboard>>

\* matuwall_registry_init up to its roundtrip.
GetRegistry ==
  /\ stage = "registry"
  /\ \/ Goes /\ globals' = {"registry"}
     \/ Fails /\ \E got \in {{}, {"registry"}} : globals' = got
  /\ UNCHANGED <<settings, own, outputs, layers, seat, keyboard>>

\* The roundtrip is over, or broken: are the required globals there?
GlobalsKnown ==
  /\ stage = "globals"
  /\ \/ Goes /\ Required \subseteq globals
     \/ Fails
  /\ UNCHANGED <<settings, own, globals, outputs, layers, seat, keyboard>>

InitSeat ==
  /\ stage = "seat"
  /\ \E context \in {{}, {"context"}} :
       /\ seat' = [ZeroSeat EXCEPT !.has = context, !.fd = "none"]
       /\ IF context = {} THEN Fails ELSE Goes
  /\ UNCHANGED <<settings, own, globals, outputs, layers, keyboard>>

Named(name) == {e \in outputs.entries : e.named /\ e.name = name}

\* matuwall_registry_select_output, after its roundtrip.
SelectOutput ==
  /\ stage = "names"
  /\ \/ settings.output = "" /\ Goes /\ UNCHANGED outputs
     \/ /\ settings.output # ""
        /\ ~outputs.failed /\ Named(settings.output) # {}
        /\ outputs' = [outputs EXCEPT !.selected = (CHOOSE e \in Named(settings.output) : TRUE).id]
        /\ Goes
     \/ settings.output # "" /\ Fails /\ UNCHANGED outputs
  /\ UNCHANGED <<settings, own, globals, layers, seat, keyboard>>

Probe == IF settings.preview THEN "backdrop" ELSE "panel"

\* What matuwall_layer_create asks the optional globals for.
Extras(r) ==
  IF "viewporter" \in globals /\ (r = "backdrop" \/ "fractional_manager" \in globals)
  THEN {"viewport"} \union (IF "fractional_manager" \in globals THEN {"fractional"} ELSE {})
  ELSE {}

Created(r) == [has |-> {"surface", "layer_surface"} \union Extras(r),
               output |-> outputs.selected, configured |-> FALSE]

\* matuwall_layer_create: no surface, no layer surface, or both.
CreateLayer(r) ==
  \/ Goes /\ layers' = [layers EXCEPT ![r] = Created(r)]
  \/ Fails /\ layers' = [layers EXCEPT ![r] = NoLayer]
  \/ Fails /\ layers' = [layers EXCEPT ![r] = [NoLayer EXCEPT !.has = Extras(r)]]

CreateProbe ==
  /\ stage = "probe"
  /\ CreateLayer(Probe)
  /\ UNCHANGED <<settings, own, globals, outputs, seat, keyboard>>

\* wait_for_configure, after its roundtrip.
Configured(r) ==
  /\ \/ Goes /\ layers[r].configured
     \/ Fails
  /\ UNCHANGED <<settings, own, globals, outputs, layers, seat, keyboard>>

ProbeConfigured == stage = "probe_wait" /\ Configured(Probe)
PanelConfigured == stage = "panel_wait" /\ Configured("panel")

\* matuwall_layer_map_clear of the backdrop; without it there is no preview.
MapBackdrop ==
  /\ stage = "map"
  /\ Goes
  /\ layers' \in
       IF settings.preview
       THEN {[layers EXCEPT !["backdrop"].has = @ \union {"buffer"}],
             [layers EXCEPT !["backdrop"] = NoLayer]}
       ELSE {layers}
  /\ UNCHANGED <<settings, own, globals, outputs, seat, keyboard>>

\* The probe becomes the panel, or the panel is created above the backdrop.
PlacePanel ==
  /\ stage = "panel"
  /\ IF settings.preview
     THEN CreateLayer("panel")
     ELSE Goes /\ layers' = [layers EXCEPT !["panel"].configured = FALSE]
  /\ UNCHANGED <<settings, own, globals, outputs, seat, keyboard>>
-----------------------------------------------------------------------------
(* Events *)
Roundtrips == {"globals", "names", "probe_wait", "panel_wait"}
Dispatching(s) == s \in Roundtrips \union {"run"}

\* matuwall_app_init has set up the seat, and its listener hears of it.
SeatListens == Dispatching(stage) /\ "context" \in seat.has /\ stage # "globals"

HandleGlobal(g) ==
  /\ stage = "globals" /\ g \in (Required \union Optional) \ globals
  /\ globals' = globals \union {g}
  /\ UNCHANGED <<stage, settings, own, outputs, layers, seat, keyboard>>

\* matuwall_outputs_bind, when --output is given; no memory marks the list.
BindOutput(name) ==
  /\ Dispatching(stage) /\ settings.output # "" /\ outputs.last < MaxGlobal
  /\ \A e \in outputs.entries : e.name # name
  /\ LET id == outputs.last + 1
         entry == [id |-> id, name |-> name, named |-> FALSE, since |-> stage]
     IN  outputs' \in
           {[outputs EXCEPT !.last = id, !.entries = @ \union {entry}],
            [outputs EXCEPT !.last = id, !.failed = TRUE]}
  /\ UNCHANGED <<stage, settings, own, globals, layers, seat, keyboard>>

\* handle_name of an output bound in an earlier roundtrip, or a run ago.
NameOutput(e) ==
  /\ Dispatching(stage) /\ e \in outputs.entries
  /\ ~e.named /\ (e.since = "run" \/ e.since # stage)
  /\ outputs' \in
       {[outputs EXCEPT !.entries = (@ \ {e}) \union {[e EXCEPT !.named = TRUE, !.since = ""]}],
        [outputs EXCEPT !.failed = TRUE]}
  /\ UNCHANGED <<stage, settings, own, globals, layers, seat, keyboard>>

\* The entry is unlinked, and the selection left as it is.
BugRemoved(e) == [outputs EXCEPT !.entries = @ \ {e}, !.lost = @ \/ outputs.selected = e.id]

\* matuwall_outputs_remove, and handle_global_remove.
Removed(e) ==
  [outputs EXCEPT
     !.entries = @ \ {e},
     !.selected = IF @ = e.id THEN 0 ELSE @,
     !.lost = @ \/ outputs.selected = e.id]

RemoveOutput(e) ==
  /\ Dispatching(stage) /\ e \in outputs.entries
  /\ outputs' = Removed(e)
  /\ UNCHANGED <<stage, settings, own, globals, layers, seat, keyboard>>

\* handle_configure of a surface that has a layer role.
Configure(r) ==
  /\ Dispatching(stage) /\ "layer_surface" \in layers[r].has
  /\ layers' = [layers EXCEPT ![r].configured = TRUE]
  /\ UNCHANGED <<stage, settings, own, globals, outputs, seat, keyboard>>

StopRepeat(s) == [s EXCEPT !.repeat = 0]

\* drop_pending_keymap closes whatever descriptor is there.
DropPending(s) == [s EXCEPT !.fd = "none"]

\* load_pending_keymap: the one in place stays if the new one fails.
Loaded(s) ==
  IF s.fd = "none" THEN {s}
  ELSE {[s EXCEPT !.fd = "none"], [s EXCEPT !.fd = "none", !.keymap = TRUE]}

\* A keyboard that goes away takes its keymap, and the key goes on repeating.
BugKeyboardGone(s) ==
  [DropPending(s) EXCEPT !.has = @ \ {"keyboard"}, !.keymap = FALSE]

KeyboardGone(s) ==
  StopRepeat([DropPending(s) EXCEPT !.has = @ \ {"keyboard"}, !.keymap = FALSE])

\* handle_capabilities.
Capabilities(caps) ==
  LET keyed == IF "keyboard" \in caps THEN [seat EXCEPT !.has = @ \union {"keyboard"}]
               ELSE IF "keyboard" \in seat.has THEN KeyboardGone(seat) ELSE seat
      points == "pointer" \in caps /\ settings.mouse
  IN  /\ SeatListens
      /\ seat' = [keyed EXCEPT !.has = IF points THEN @ \union {"pointer"} ELSE @ \ {"pointer"}]
      /\ keyboard' = IF "keyboard" \in caps THEN keyboard ELSE [focus |-> FALSE, held |-> {}]
      /\ UNCHANGED <<stage, settings, own, globals, outputs, layers>>

KeyboardListens == SeatListens /\ "keyboard" \in seat.has

\* handle_keymap of a keymap in a format it knows.
HandleKeymap ==
  /\ KeyboardListens
  /\ seat' = [DropPending(seat) EXCEPT !.fd = "keymap"]
  /\ UNCHANGED <<stage, settings, own, globals, outputs, layers, keyboard>>

HandleRepeatInfo(rate) ==
  /\ KeyboardListens
  /\ seat' = IF rate = 0 THEN StopRepeat([seat EXCEPT !.rate = 0]) ELSE [seat EXCEPT !.rate = rate]
  /\ UNCHANGED <<stage, settings, own, globals, outputs, layers, keyboard>>

\* The panel is on the screen and has the keyboard.
HandleEnter ==
  /\ KeyboardListens /\ stage = "run" /\ ~keyboard.focus
  /\ \E held \in SUBSET Keys : keyboard' = [focus |-> TRUE, held |-> held]
  /\ UNCHANGED <<stage, settings, own, globals, outputs, layers, seat>>

HandleLeave ==
  /\ KeyboardListens /\ keyboard.focus
  /\ keyboard' = [focus |-> FALSE, held |-> {}]
  /\ seat' = StopRepeat(seat)
  /\ UNCHANGED <<stage, settings, own, globals, outputs, layers>>

HandleModifiers ==
  /\ KeyboardListens /\ keyboard.focus
  /\ seat' \in Loaded(seat)
  /\ UNCHANGED <<stage, settings, own, globals, outputs, layers, keyboard>>

(* handle_key with the state pressed: a key without a symbol changes       *)
(* nothing, one that repeats takes the slot, another one empties it.       *)
Pressed(s, key) ==
  IF ~s.keymap THEN {s}
  ELSE {s, StopRepeat(s)} \union (IF s.rate > 0 THEN {[s EXCEPT !.repeat = key]} ELSE {})

PressKey(key) ==
  /\ KeyboardListens /\ keyboard.focus /\ key \notin keyboard.held
  /\ keyboard' = [keyboard EXCEPT !.held = @ \union {key}]
  /\ seat' \in UNION {Pressed(s, key) : s \in Loaded(seat)}
  /\ UNCHANGED <<stage, settings, own, globals, outputs, layers>>

ReleasedKey(s, key) == IF s.keymap /\ s.repeat = key THEN StopRepeat(s) ELSE s

ReleaseKey(key) ==
  /\ KeyboardListens /\ key \in keyboard.held
  /\ keyboard' = [keyboard EXCEPT !.held = @ \ {key}]
  /\ seat' \in {ReleasedKey(s, key) : s \in Loaded(seat)}
  /\ UNCHANGED <<stage, settings, own, globals, outputs, layers>>

Event ==
  \/ \E g \in Required \union Optional : HandleGlobal(g)
  \/ \E name \in OutputNames : BindOutput(name)
  \/ \E e \in outputs.entries : NameOutput(e) \/ RemoveOutput(e)
  \/ \E r \in Roles : Configure(r)
  \/ \E caps \in SUBSET {"keyboard", "pointer"} : Capabilities(caps)
  \/ HandleKeymap \/ HandleEnter \/ HandleLeave \/ HandleModifiers
  \/ \E rate \in {0, 1} : HandleRepeatInfo(rate)
  \/ \E key \in Keys : PressKey(key) \/ ReleaseKey(key)

-----------------------------------------------------------------------------
(* matuwall_app_run as far as it owns anything, and matuwall_app_finish *)
\* The first frame and the signals may fail; without workers the run goes on.
StartRun ==
  /\ stage = "start"
  /\ \/ Goes /\ \E got \in {{}, {"pool"}} : own' = own \union got
     \/ Fails /\ UNCHANGED own
  /\ UNCHANGED <<settings, globals, outputs, layers, seat, keyboard>>

LeaveRun ==
  /\ stage = "run" /\ Fails
  /\ UNCHANGED <<settings, own, globals, outputs, layers, seat, keyboard>>

Finishes(step) == stage = step /\ stage' = After(FinishOrder, step)

DestroyLayer(r) ==
  /\ Finishes(IF r = "panel" THEN "finish_layer" ELSE "finish_backdrop")
  /\ layers' = [layers EXCEPT ![r] = NoLayer]
  /\ UNCHANGED <<settings, own, globals, outputs, seat, keyboard>>

FinishSeat ==
  /\ Finishes("finish_seat")
  /\ seat' = StopRepeat([DropPending(seat) EXCEPT !.has = {}, !.keymap = FALSE])
  /\ keyboard' = [focus |-> FALSE, held |-> {}]
  /\ UNCHANGED <<settings, own, globals, outputs, layers>>

FinishRegistry ==
  /\ Finishes("finish_registry")
  /\ globals' = {}
  /\ outputs' = [NoOutputs EXCEPT !.last = outputs.last, !.lost = outputs.lost]
  /\ UNCHANGED <<settings, own, layers, seat, keyboard>>

Release(step, thing) ==
  /\ Finishes(step)
  /\ own' = own \ {thing}
  /\ UNCHANGED <<settings, globals, outputs, layers, seat, keyboard>>

TakeDown ==
  \/ \E r \in Roles : DestroyLayer(r)
  \/ FinishSeat \/ FinishRegistry
  \/ Release("finish_display", "display") \/ Release("finish_instance", "lease")
  \/ Release("finish_thumbs", "pool") \/ Release("finish_scan", "scan")

SessionNext ==
  \/ InitInstance \/ ScanDirectory \/ Connect \/ GetRegistry \/ GlobalsKnown \/ InitSeat \/ SelectOutput
  \/ CreateProbe \/ ProbeConfigured \/ MapBackdrop \/ PlacePanel \/ PanelConfigured
  \/ Event
  \/ StartRun \/ LeaveRun \/ TakeDown

-----------------------------------------------------------------------------
(* The repeating key is one the user holds, on a keyboard that is there,   *)
(* that has the focus and a rate, and with a keymap: whatever keymaps,     *)
(* rates, capabilities and focus changes arrive between its press and its  *)
(* release.  Anything else would move the selection by itself, for ever.   *)
RepeatIsHeld ==
  seat.repeat # 0 =>
    /\ "keyboard" \in seat.has /\ seat.keymap
    /\ keyboard.focus /\ seat.repeat \in keyboard.held
    /\ seat.rate > 0

(* selected_output points at an output that is still there and has the     *)
(* name --output gave; a surface of such a run is on that output, unless   *)
(* it has been unplugged since it was found.                               *)
OutputAsked ==
  /\ outputs.selected # 0 =>
       \E e \in outputs.entries : e.id = outputs.selected /\ e.name = settings.output
  /\ settings.output # "" =>
       \A r \in Roles : "layer_surface" \in layers[r].has => layers[r].output # 0 \/ outputs.lost

(* However far the start has come when it fails: nothing outlives what it  *)
(* stands on (every object the connection, every device the seat, a layer  *)
(* surface its surface), no surface is left when the lease goes, and the   *)
(* end leaves nothing behind.                                              *)
TornDown ==
  /\ globals # {} \/ seat.has \intersect {"keyboard", "pointer"} # {} => "display" \in own
  /\ seat.has \intersect {"keyboard", "pointer"} # {} => "seat" \in globals
  /\ \A r \in Roles :
       /\ layers[r].has # {} => {"display", "lease"} \subseteq own /\ "compositor" \in globals
       /\ "layer_surface" \in layers[r].has => "surface" \in layers[r].has
  /\ stage = "ended" =>
       /\ own = {} /\ globals = {} /\ outputs.entries = {} /\ seat.has = {} /\ ~seat.keymap
       /\ seat.fd = "none" /\ \A r \in Roles : layers[r].has = {}
=============================================================================
