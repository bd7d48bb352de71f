------------------------------- MODULE Launch -------------------------------
(***************************************************************************)
(* One launch, from its arguments to its end: main settles the             *)
(* configuration (Settings), matuwall_app_init takes the lease, walks the  *)
(* wallpaper directory (Scan) and builds the rest, and after the run       *)
(* everything is taken down (Session).  What a part has left behind that   *)
(* no later one reads is dropped where the later one begins.               *)
(***************************************************************************)
EXTENDS Settings, Scan, Session

CONSTANTS
  Yes,   \* values of recursive that mean true
  Disks  \* what may be on the disk

ASSUME YesAssumption == "recursive" \in Scalars /\ Default \notin Yes
ASSUME DisksAssumption == Disks \subseteq Trees

launch == <<settling, walking, session>>

\* Which of the setups it will be is chosen before it is first read, in Choose.
LaunchInit == SettingsInit /\ ScanInit /\ SessionInit /\ settings = CHOOSE s \in Setups : TRUE

\* matuwall_app_init(&app, &config, output); the walk reads recursive only.
Use ==
  /\ phase = "ready" /\ phase' = "used"
  /\ recursive' = (config.values["recursive"] \in Yes)
  /\ config' = Defaults /\ file' = "none" /\ said' = <<>> /\ entries' = <<>>
  /\ options' = [options EXCEPT !.values = Defaults.values, !.command = FALSE,
                                !.no_config = FALSE, !.path_set = FALSE,
                                !.lists = [l \in Lists |-> [set |-> FALSE, items |-> <<>>]]]
  /\ UNCHANGED <<session, tree, at, dir, left, walk, level, scan>>

\* matuwall_dirscan_run, with what is on the disk.
Find ==
  /\ stage = "scan" /\ phase = "used" /\ at = "idle" /\ at' = "top"
  /\ tree' \in Disks
  /\ UNCHANGED <<settling, session, recursive, dir, left, walk, level, scan>>

(* The walk is over, or there was no directory to walk: a directory that   *)
(* could not be opened is no failure, one that ran out of memory is.       *)
Walked ==
  /\ at \in {"idle", "done"}
  /\ scan.result = "failed" <=> stage' = FinishOrder[1]
  /\ scan.result = "found" <=> "scan" \in own'

\* The settings that nobody has looked at before the display is there.
Choose ==
  /\ stage = "connect" /\ settings' \in Setups
  /\ UNCHANGED <<settling, walking, stage, own, globals, outputs, layers, seat, keyboard>>

\* The start goes on behind the walk, and the run to its end.
Run ==
  /\ phase = "used" /\ SessionNext
  /\ IF stage = "scan"
     THEN /\ Walked
          /\ at' = "idle" /\ dir' = Top /\ left' = {} /\ recursive' = FALSE
          /\ tree' = [parent |-> [n \in Nodes |-> Top], kind |-> [n \in Nodes |-> "other"]]
          /\ walk' = [dirs |-> <<>>, head |-> 0, entries |-> 0, unreadable |-> {},
                      capped |-> FALSE, lost |-> {}]
          /\ level' = [depth |-> 0, end |-> 0]
          /\ scan' = [paths |-> {}, truncated |-> FALSE, result |-> "none"]
     ELSE UNCHANGED walking
  /\ UNCHANGED settling

Over == stage = "ended" /\ UNCHANGED launch

LaunchNext ==
  \/ SettingsNext /\ UNCHANGED <<walking, session>>
  \/ Use \/ Find \/ Choose
  \/ ScanNext /\ UNCHANGED <<settling, session>>
  \/ Run
  \/ Over

LaunchSpec == LaunchInit /\ [][LaunchNext]_launch
=============================================================================
