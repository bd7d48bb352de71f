------------------------------- MODULE Apply --------------------------------
(***************************************************************************)
(* What a run does with the wallpaper that was picked, and what the next   *)
(* one restores: apply_selection (src/src/app/loop.c), the process it      *)
(* starts for the backend (src/src/backend) and waits for, the remembered  *)
(* selection (src/src/state/selection.c) and the detached hooks            *)
(* (src/src/hooks/hooks.c).                                                *)
(*                                                                         *)
(* A step is a system call another process may observe.  Runs overlap when *)
(* they are on different displays: each has its lease, the file is one.    *)
(* Any call may fail but unlink, and a run may die between two of them.    *)
(* The child shares only the exec pipe with the run: both ends are closed  *)
(* when it executes its program.                                           *)
(***************************************************************************)
EXTENDS Naturals, Sequences

CONSTANTS
  Procs,   \* processes that may run at the same time
  Paths,   \* wallpapers
  Hooks,   \* config.on_apply_count
  MaxRuns, \* bound: runs started, one after the other or together
  None, Part \* no path; what a file holds before it holds one, at most its first bytes

ASSUME HooksAssumption == Hooks \in Nat

VARIABLES
  files,   \* every state file there has been, by number: what it holds
  state,   \* the file named last-selection, 0 for none
  tmps,    \* the files named last-selection.tmpXXXXXX
  runs,    \* runs started
  run,     \* [Procs -> a run]
  pipe,    \* [Procs -> exec_error of its last child]
  child,   \* [Procs -> its last child]
  applied, \* paths whose client has exited with 0
  hooked,  \* paths a hook was started with
  died     \* a run died with a temporary file

vars == <<files, state, tmps, runs, run, pipe, child, applied, hooked, died>>
disk == <<files, state, tmps>>
process == <<pipe, child>>
history == <<applied, hooked, died>>

\* at: the next step; file: an open file, or a temporary one; hook: the next.
Ended == [at |-> "ended", path |-> None, restored |-> None, file |-> 0, hook |-> 0]
Closed == [reading |-> FALSE, writers |-> {}, said |-> FALSE]

Init ==
  /\ files = <<>> /\ state = 0 /\ tmps = {} /\ runs = 0
  /\ run = [p \in Procs |-> Ended]
  /\ pipe = [p \in Procs |-> Closed]
  /\ child = [p \in Procs |-> "none"]
  /\ applied = {} /\ hooked = {} /\ died = FALSE

At(p, label) == run[p].at = label
Goto(p, label) == run' = [run EXCEPT ![p].at = label]
Ends(p) == run' = [run EXCEPT ![p] = Ended]

-----------------------------------------------------------------------------
(* restore_selection.                                                      *)

Start(p) ==
  /\ At(p, "ended") /\ runs < MaxRuns
  /\ runs' = runs + 1
  /\ run' = [run EXCEPT ![p] = [Ended EXCEPT !.at = "open"]]
  /\ UNCHANGED <<disk, process, history>>

\* matuwall_selection_load opens the file, if there is one.
Open(p) ==
  /\ At(p, "open")
  /\ \/ state # 0 /\ run' = [run EXCEPT ![p].at = "load", ![p].file = state]
     \/ Goto(p, "picker")
  /\ UNCHANGED <<disk, runs, process, history>>

\* The first bytes of a path look like a path.
Load(p) ==
  /\ At(p, "load")
  /\ \E got \in {files[run[p].file], None} :
       run' = [run EXCEPT ![p].at = "picker", ![p].file = 0, ![p].restored = got]
  /\ UNCHANGED <<disk, runs, process, history>>

\* The user leaves the picker with a wallpaper, or without.
Pick(p) ==
  /\ At(p, "picker")
  /\ \/ \E path \in Paths : run' = [run EXCEPT ![p] = [Ended EXCEPT !.at = "apply", !.path = path]]
     \/ Ends(p)
  /\ UNCHANGED <<disk, runs, process, history>>

-----------------------------------------------------------------------------
(* A child and its pipe.                                                   *)

(* Definitions named Bug... are faulty variants of the definition that     *)
(* follows them, see DecodeBudget.                                         *)

\* The run keeps its own writing end.
BugForked(p) ==
  /\ pipe' = [pipe EXCEPT ![p] = [reading |-> TRUE, writers |-> {"self", "child"}, said |-> FALSE]]
  /\ child' = [child EXCEPT ![p] = "forked"]

\* The run closes its writing end, the child its reading end.
Forked(p) ==
  /\ pipe' = [pipe EXCEPT ![p] = [reading |-> TRUE, writers |-> {"child"}, said |-> FALSE]]
  /\ child' = [child EXCEPT ![p] = "forked"]

\* execvp closes the pipe.
Exec(p) ==
  /\ child[p] = "forked"
  /\ child' = [child EXCEPT ![p] = "running"]
  /\ pipe' = [pipe EXCEPT ![p].writers = @ \ {"child"}]
  /\ UNCHANGED <<disk, runs, run, history>>

\* setsid or execvp has failed; the message may get lost.
ExecFails(p) ==
  /\ child[p] = "forked"
  /\ child' = [child EXCEPT ![p] = "failed"]
  /\ \E said \in BOOLEAN :
       pipe' = [pipe EXCEPT ![p].writers = @ \ {"child"}, ![p].said = said]
  /\ UNCHANGED <<disk, runs, run, history>>

\* A client that exits with 0 has set the wallpaper.
Exits(p) ==
  /\ child[p] = "running"
  /\ \/ /\ child' = [child EXCEPT ![p] = "succeeded"]
        /\ applied' = IF At(p, "wait") THEN applied \union {run[p].path} ELSE applied
     \/ child' = [child EXCEPT ![p] = "failed"] /\ UNCHANGED applied
  /\ pipe' = [pipe EXCEPT ![p].writers = @ \ {"child"}]
  /\ UNCHANGED <<disk, runs, run, hooked, died>>

\* A signal, before the program is there or later.
Killed(p) ==
  /\ child[p] \in {"forked", "running"}
  /\ child' = [child EXCEPT ![p] = "failed"]
  /\ pipe' = [pipe EXCEPT ![p].writers = @ \ {"child"}]
  /\ UNCHANGED <<disk, runs, run, history>>

Readable(p) == pipe[p].said \/ pipe[p].writers = {}

\* read may fail; the reading end is closed, and the child forgotten.
Reads(p) ==
  /\ Readable(p)
  /\ pipe' = [pipe EXCEPT ![p] = Closed]
  /\ child' = [child EXCEPT ![p] = "none"]

-----------------------------------------------------------------------------
(* apply_selection: the backend.                                           *)

\* No regular file, no backend that is there, arguments it does not take.
Refuse(p) ==
  /\ At(p, "apply")
  /\ Ends(p)
  /\ UNCHANGED <<disk, runs, process, history>>

\* pipe2 and fork; what was opened is closed when fork fails.
Fork(p) ==
  /\ At(p, "apply")
  /\ \/ Forked(p) /\ Goto(p, "wait")
     \/ Ends(p) /\ UNCHANGED process
  /\ UNCHANGED <<disk, runs, history>>

\* waitpid
Wait(p) ==
  /\ At(p, "wait") /\ child[p] \in {"succeeded", "failed"}
  /\ Goto(p, "inspect")
  /\ UNCHANGED <<disk, runs, process, history>>

\* The child goes on alone.
WaitFails(p) ==
  /\ At(p, "wait")
  /\ Ends(p)
  /\ pipe' = [pipe EXCEPT ![p] = Closed] /\ child' = [child EXCEPT ![p] = "none"]
  /\ UNCHANGED <<disk, runs, history>>

\* Nothing from the child, and exit status 0.
Inspect(p) ==
  /\ At(p, "inspect") /\ Reads(p)
  /\ \/ Ends(p)
     \/ ~pipe[p].said /\ child[p] = "succeeded" /\ Goto(p, "mkstemp")
  /\ UNCHANGED <<disk, runs, history>>

-----------------------------------------------------------------------------
(* matuwall_selection_save; apply_selection goes on when it fails.         *)

\* make_dirs and mkstemp.
Create(p) ==
  /\ At(p, "mkstemp")
  /\ \/ /\ files' = Append(files, Part) /\ tmps' = tmps \union {Len(files')}
        /\ run' = [run EXCEPT ![p].at = "write", ![p].file = Len(files')]
     \/ Goto(p, "hooks") /\ UNCHANGED <<files, tmps>>
  /\ UNCHANGED <<state, runs, process, history>>

\* What was written of the path is published.
BugWrite(p) ==
  /\ At(p, "write")
  /\ \E content \in {Part, run[p].path} : files' = [files EXCEPT ![run[p].file] = content]
  /\ Goto(p, "rename")
  /\ UNCHANGED <<state, tmps, runs, process, history>>

\* write_all, which may stop on the way, and close.
Write(p) ==
  /\ At(p, "write")
  /\ \/ files' = [files EXCEPT ![run[p].file] = run[p].path] /\ Goto(p, "rename")
     \/ files' = [files EXCEPT ![run[p].file] = Part] /\ Goto(p, "unlink")
  /\ UNCHANGED <<state, tmps, runs, process, history>>

Saved(p) == run' = [run EXCEPT ![p].at = "hooks", ![p].file = 0]

\* The temporary file of a failed rename is forgotten.
BugRename(p) ==
  /\ At(p, "rename") /\ Saved(p)
  /\ \/ state' = run[p].file /\ tmps' = tmps \ {run[p].file}
     \/ UNCHANGED <<state, tmps>>
  /\ UNCHANGED <<files, runs, process, history>>

Rename(p) ==
  /\ At(p, "rename")
  /\ \/ state' = run[p].file /\ tmps' = tmps \ {run[p].file} /\ Saved(p)
     \/ Goto(p, "unlink") /\ UNCHANGED <<state, tmps>>
  /\ UNCHANGED <<files, runs, process, history>>

Unlink(p) ==
  /\ At(p, "unlink") /\ Saved(p)
  /\ tmps' = tmps \ {run[p].file}
  /\ UNCHANGED <<files, state, runs, process, history>>

-----------------------------------------------------------------------------
(* matuwall_hooks_run.                                                     *)

\* A command that expands to too much or to nothing is left out.
Skip(p) ==
  /\ At(p, "hooks") /\ run[p].hook < Hooks
  /\ run' = [run EXCEPT ![p].hook = @ + 1]
  /\ UNCHANGED <<disk, runs, process, history>>

\* spawn_detached up to read: there is no waitpid.
Spawn(p) ==
  /\ At(p, "hooks") /\ run[p].hook < Hooks
  /\ run' = [run EXCEPT ![p].hook = @ + 1, ![p].at = "detach"]
  /\ Forked(p)
  /\ hooked' = hooked \union {run[p].path}
  /\ UNCHANGED <<disk, runs, applied, died>>

Detach(p) ==
  /\ At(p, "detach") /\ Reads(p) /\ Goto(p, "hooks")
  /\ UNCHANGED <<disk, runs, history>>

Leave(p) ==
  /\ At(p, "hooks") /\ run[p].hook = Hooks /\ Ends(p)
  /\ UNCHANGED <<disk, runs, process, history>>

-----------------------------------------------------------------------------
\* Any exit that runs no code of its own; a child goes on alone.
Crash(p) ==
  /\ ~At(p, "ended")
  /\ Ends(p)
  /\ pipe' = [pipe EXCEPT ![p] = Closed] /\ child' = [child EXCEPT ![p] = "none"]
  /\ died' = (died \/ run[p].file \in tmps)
  /\ UNCHANGED <<disk, runs, applied, hooked>>

AllEnded == runs = MaxRuns /\ (\A p \in Procs : At(p, "ended")) /\ UNCHANGED vars

\* apply_selection, from the pick to the end.
Step(p) ==
  \/ Refuse(p) \/ Fork(p) \/ Wait(p) \/ Inspect(p)
  \/ Create(p) \/ Write(p) \/ Rename(p) \/ Unlink(p)
  \/ Skip(p) \/ Spawn(p) \/ Detach(p) \/ Leave(p)

Execs(p) == Exec(p) \/ ExecFails(p) \/ Killed(p)

Next ==
  \/ \E p \in Procs :
       \/ Start(p) \/ Open(p) \/ Load(p) \/ Pick(p)
       \/ Step(p) \/ WaitFails(p) \/ Execs(p) \/ Exits(p) \/ Crash(p)
  \/ AllEnded

\* A client comes to an end; a hook need not.
ClientExits(p) == At(p, "wait") /\ Exits(p)

Spec ==
  /\ Init /\ [][Next]_vars
  /\ \A p \in Procs :
       WF_vars(Step(p)) /\ WF_vars(Exec(p) \/ ExecFails(p)) /\ WF_vars(ClientExits(p))

-----------------------------------------------------------------------------
(* What is remembered, what a launch restores and what the hooks get is    *)
(* the whole path of a wallpaper a backend has set, whatever failed, died  *)
(* or ran at the same time.                                                *)
OnlyApplied ==
  /\ state # 0 => files[state] \in applied
  /\ hooked \subseteq applied
  /\ \A p \in Procs : run[p].restored \in applied \union {None}

(* Nothing is left of an apply that has come to its end, whichever call of *)
(* it failed: no temporary file and no end of a pipe.  A run that died may *)
(* leave its file, and nobody removes it later.                            *)
NothingLeft ==
  (\A p \in Procs : At(p, "ended")) =>
    /\ ~died => tmps = {}
    /\ \A p \in Procs : pipe[p] = Closed

(* Once the wallpaper is picked the run ends, as soon as the client of the *)
(* backend does: a hook that stays, or a program that does not start, does *)
(* not keep it.                                                            *)
ApplyEnds == \A p \in Procs : At(p, "apply") ~> At(p, "ended")
=============================================================================
