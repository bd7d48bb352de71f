-------------------------------- MODULE Scan --------------------------------
(***************************************************************************)
(* The walk over the wallpaper directory (src/src/scan/dirscan.c): the top *)
(* level without a budget, then, when it is recursive, a queue of          *)
(* subdirectories level by level, bounded in depth, directories, entries   *)
(* and images.  A directory lists its entries in any order.                *)
(*                                                                         *)
(* An image is the path of a node of the tree; which file it is does not   *)
(* matter, nor the order the paths are sorted into at the end.             *)
(***************************************************************************)
EXTENDS Integers, Sequences, FiniteSets

CONSTANTS
  Size,       \* bound: entries in the whole tree
  MaxDepth,   \* MAX_DEPTH
  MaxItems,   \* MAX_ITEMS
  MaxDirs,    \* MAX_DIRS
  MaxEntries  \* MAX_ENTRIES

\* The subdirectories of the top level are entered whatever MAX_DEPTH is.
ASSUME LimitsAssumption == Size \in Nat /\ MaxDepth \in Nat \ {0}

Top == 0
Nodes == 1 .. Size
Kinds == {"image", "dir", "hidden", "other"}

\* A link to a directory is no directory, and no image but by its name.
Trees ==
  {t \in [parent : [Nodes -> {Top} \union Nodes], kind : [Nodes -> Kinds]] :
     \A n \in Nodes : \/ t.parent[n] = Top
                      \/ /\ t.parent[n] < n
                         /\ t.kind[t.parent[n]] = "dir"}

VARIABLES
  tree,       \* what is on the disk
  recursive,  \* config.recursive
  at,         \* "idle", "top", "open" the next directory, "read" its entries, "done"
  dir,        \* the directory that is read
  left,       \* its entries that have not been read
  walk,       \* struct walk, and the entries an error of readdir has lost
  level,      \* depth and level_end of walk_subdirs
  scan        \* struct matuwall_dirscan, and how the walk ended

walking == <<tree, recursive, at, dir, left, walk, level, scan>>

\* app->scan and struct walk are zeroed; the directory has not been looked at.
ScanInit ==
  /\ at = "idle" /\ dir = Top /\ left = {} /\ recursive = FALSE
  /\ tree = [parent |-> [n \in Nodes |-> Top], kind |-> [n \in Nodes |-> "other"]]
  /\ walk = [dirs |-> <<>>, head |-> 0, entries |-> 0, unreadable |-> {}, capped |-> FALSE,
             lost |-> {}]
  /\ level = [depth |-> 0, end |-> 0]
  /\ scan = [paths |-> {}, truncated |-> FALSE, result |-> "none"]

Entries(d) == {n \in Nodes : tree.parent[n] = d}

Ends(result, s) ==
  /\ at' = "done"
  /\ scan' = [s EXCEPT !.result = result]

-----------------------------------------------------------------------------
\* matuwall_dirscan_run opens the directory itself.
OpenTop ==
  /\ at = "top"
  /\ \/ at' = "read" /\ left' = Entries(Top) /\ UNCHANGED scan
     \/ Ends("unavailable", scan) /\ UNCHANGED left
  /\ UNCHANGED <<tree, recursive, dir, walk, level>>

\* The top level has no budget, subdirectories share one.
Spent == IF dir = Top THEN walk.entries ELSE walk.entries + 1

\* The last level that is read is MAX_DEPTH; its directories are not entered.
Descends == IF dir = Top THEN recursive ELSE level.depth < MaxDepth

Descended(n) == Descends /\ tree.kind[n] = "dir"

Stop == left' = {} /\ scan' = [scan EXCEPT !.truncated = TRUE]

(* Definitions named Bug... are faulty variants of the definition that     *)
(* follows them, see DecodeBudget.                                         *)

\* The subdirectories of the directory that is read come next.
BugPushNext(n) ==
  /\ walk' = IF Len(walk.dirs) = MaxDirs THEN [walk EXCEPT !.entries = Spent, !.capped = TRUE]
             ELSE [walk EXCEPT !.entries = Spent,
                               !.dirs = SubSeq(@, 1, walk.head) \o <<n>>
                                          \o SubSeq(@, walk.head + 1, Len(@))]
  /\ left' = left \ {n}
  /\ UNCHANGED scan

PushDir(n) ==
  /\ walk' = IF Len(walk.dirs) = MaxDirs THEN [walk EXCEPT !.entries = Spent, !.capped = TRUE]
             ELSE [walk EXCEPT !.entries = Spent, !.dirs = Append(@, n)]
  /\ left' = left \ {n}
  /\ UNCHANGED scan

PushItem(n) ==
  /\ walk' = [walk EXCEPT !.entries = Spent]
  /\ IF Cardinality(scan.paths) = MaxItems THEN Stop
     ELSE left' = left \ {n} /\ scan' = [scan EXCEPT !.paths = @ \union {n}]

Skip(n) ==
  /\ walk' = IF tree.kind[n] = "hidden" THEN walk ELSE [walk EXCEPT !.entries = Spent]
  /\ left' = left \ {n}
  /\ UNCHANGED scan

\* One turn of scan_dir.
ReadEntry(n) ==
  /\ at = "read" /\ n \in left
  /\ IF tree.kind[n] # "hidden" /\ Spent > MaxEntries
     THEN Stop /\ walk' = [walk EXCEPT !.entries = Spent]
     ELSE IF Descended(n) THEN PushDir(n)
     ELSE IF tree.kind[n] = "image" THEN PushItem(n)
     ELSE Skip(n)
  /\ UNCHANGED <<tree, recursive, at, dir, level>>

\* No memory for a path or a directory: everything is given back.
PushFails(n) ==
  /\ at = "read" /\ n \in left
  /\ Descended(n) \/ tree.kind[n] = "image"
  /\ Ends("failed", [scan EXCEPT !.paths = {}, !.truncated = FALSE])
  /\ UNCHANGED <<tree, recursive, dir, left, walk, level>>

(* readdir has nothing more: the end of the directory, or an error, which  *)
(* nobody asks for: the entries it has not come to are lost, and nothing   *)
(* says so.  The subdirectories of the top level are the first level.      *)
CloseDir ==
  /\ at = "read"
  /\ at' = "open"
  /\ walk' = [walk EXCEPT !.lost = @ \union left] /\ left' = {}
  /\ level' = IF dir = Top THEN [depth |-> 1, end |-> Len(walk.dirs)] ELSE level
  /\ UNCHANGED <<tree, recursive, dir, scan>>

MoreDirs == ~scan.truncated /\ walk.head < Len(walk.dirs)

\* Every directory starts a level.
BugLevelAt(head) == [depth |-> level.depth + 1, end |-> Len(walk.dirs)]

\* The queue holds a level to its end, and then the next.
LevelAt(head) ==
  IF head = level.end THEN [depth |-> level.depth + 1, end |-> Len(walk.dirs)] ELSE level

\* One turn of walk_subdirs; a directory that cannot be opened is counted.
OpenDir ==
  /\ at = "open" /\ MoreDirs
  /\ LET next == walk.dirs[walk.head + 1]
     IN  \/ /\ walk' = [walk EXCEPT !.head = @ + 1]
            /\ dir' = next /\ left' = Entries(next) /\ at' = "read"
         \/ /\ walk' = [walk EXCEPT !.head = @ + 1, !.unreadable = @ \union {next}]
            /\ UNCHANGED <<dir, left, at>>
  /\ level' = LevelAt(walk.head)
  /\ UNCHANGED <<tree, recursive, scan>>

Finish ==
  /\ at = "open" /\ ~MoreDirs
  /\ Ends("found", [scan EXCEPT !.truncated = @ \/ walk.capped])
  /\ UNCHANGED <<tree, recursive, dir, left, walk, level>>

ScanDone == at = "done" /\ UNCHANGED walking

ScanNext ==
  \/ OpenTop \/ CloseDir \/ OpenDir \/ Finish
  \/ \E n \in Nodes : ReadEntry(n) \/ PushFails(n)
  \/ ScanDone

-----------------------------------------------------------------------------
(* The reference: the tree as it is, without a queue.                      *)

\* The directories above a node, itself left out; parents have lower numbers.
Above(n) ==
  LET above[m \in Nodes] ==
        IF tree.parent[m] = Top THEN {} ELSE {tree.parent[m]} \union above[tree.parent[m]]
  IN  above[n]

Depth(n) == Cardinality(Above(n))

\* The images a walk without limits but MAX_DEPTH comes to.
Visible(n) ==
  /\ tree.kind[n] = "image"
  /\ Above(n) \intersect walk.unreadable = {}
  /\ ({n} \union Above(n)) \intersect walk.lost = {}
  /\ Depth(n) <= (IF recursive THEN MaxDepth ELSE 0)

(* "truncated" and the list (dirscan.c:195, :207): an image that is        *)
(* missing from the picker is reported.  Unless a limit was said to be     *)
(* reached, every image down to MAX_DEPTH is there that the setting of     *)
(* recursive lets the walk come to, but for those below a directory that   *)
(* could not be opened, and those that are lost to an error of readdir:    *)
(* these alone are missing without a word.                                 *)
MissingIsReported ==
  scan.result = "found" /\ ~scan.truncated => scan.paths = {n \in Nodes : Visible(n)}

(* "breadth-first queue of subdirectories, so top-level images always come *)
(* first" (dirscan.c:22): whatever limit ends the walk, an image further   *)
(* down is never there in place of one nearer to the top.                  *)
NearestFirst ==
  \A n \in scan.paths : \A m \in Nodes :
    Visible(m) /\ Depth(m) < Depth(n) => m \in scan.paths
=============================================================================
