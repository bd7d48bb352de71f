------------------------------ MODULE Instance ------------------------------
(***************************************************************************)
(* One picker per display (src/src/app/instance.c): a launch takes the     *)
(* lease, an fcntl lock on a file in the runtime directory, and listens on *)
(* a socket beside it; a later launch connects to that socket to ask the   *)
(* owner to leave, and waits for the lease.                                *)
(*                                                                         *)
(* A step is a system call that another launch can observe.  Launches are  *)
(* numbered in the order they start.  A crash is any exit that runs no     *)
(* code of its own: the kernel drops the lease and closes the socket, the  *)
(* socket's name stays.  Time is left out: the retry of a request and the  *)
(* end of the wait fall at any time.                                       *)
(***************************************************************************)
EXTENDS Naturals, Sequences, SequencesExt

CONSTANTS
  N,          \* number of launches
  Backlog,    \* connections a listening socket holds
  MaxCrashes, \* bound: launches that crash
  None

ASSUME LaunchesAssumption == N \in Nat /\ Backlog \in Nat \ {0} /\ None \notin 1 .. N

Launches == 1 .. N

VARIABLES
  pc,        \* pc[p]: what launch p does next
  due,       \* due[p]: next_request has passed
  late,      \* late[p]: deadline has passed
  lease,     \* the launch that holds the lock, or None
  path,      \* the launch whose socket socket_path names, or None
  owns,      \* the launches with owns_socket_path
  listening, \* the launches whose socket is open and listening
  pending,   \* pending[p]: launches connected to p's socket, not accepted
  crashes    \* launches that crashed so far

launching == <<pc, due, late, lease, path, owns, listening, pending, crashes>>

waiting == {"try", "ask"}                   \* in wait_for_lease
listens == {"remove", "bind", "listen"}     \* in listen_for_replacement
shown == {"opening", "open", "closing"}     \* connected to the compositor
finishing == {"close", "unlink", "unlock"}  \* in matuwall_instance_finish

InstanceInit ==
  /\ pc = [p \in Launches |-> "new"]
  /\ due = [p \in Launches |-> TRUE] /\ late = [p \in Launches |-> FALSE]
  /\ lease = None /\ path = None /\ owns = {} /\ listening = {}
  /\ pending = [p \in Launches |-> <<>>]
  /\ crashes = 0

Goto(p, label) == pc' = [pc EXCEPT ![p] = label]

\* matuwall_instance_init opens the lock file.
Launch(p) ==
  /\ pc[p] = "new" /\ \A q \in Launches : q < p => pc[q] # "new"
  /\ Goto(p, "try")
  /\ UNCHANGED <<due, late, owns, lease, path, listening, pending, crashes>>

-----------------------------------------------------------------------------
(* wait_for_lease.                                                         *)

TryLock(p) ==
  /\ pc[p] = "try"
  /\ IF lease = None THEN lease' = p /\ Goto(p, "remove")
     ELSE UNCHANGED lease /\ Goto(p, "ask")
  /\ UNCHANGED <<due, late, owns, path, listening, pending, crashes>>

GiveUp(p) ==
  /\ pc[p] = "ask" /\ late[p]
  /\ Goto(p, "unlock")
  /\ UNCHANGED <<due, late, owns, lease, path, listening, pending, crashes>>

\* request_replace: nobody may be listening, or the queue may be full.
Connects == path \in listening /\ Len(pending[path]) < Backlog

Ask(p) ==
  /\ pc[p] = "ask" /\ ~late[p]
  /\ Goto(p, "try")
  /\ due' = [due EXCEPT ![p] = FALSE]
  /\ pending' = IF due[p] /\ Connects THEN [pending EXCEPT ![path] = Append(@, p)] ELSE pending
  /\ UNCHANGED <<late, owns, lease, path, listening, crashes>>

(* Definitions named Bug... are faulty variants of the definition that     *)
(* follows them, see DecodeBudget.                                         *)

\* One request has to do.
BugRetry(p) == FALSE /\ UNCHANGED launching

\* INSTANCE_REPLACE_MS and INSTANCE_WAIT_MS go by.
Retry(p) ==
  /\ pc[p] \in waiting /\ ~due[p]
  /\ due' = [due EXCEPT ![p] = TRUE]
  /\ UNCHANGED <<pc, owns, late, lease, path, listening, pending, crashes>>

Expire(p) ==
  /\ pc[p] \in waiting /\ ~late[p]
  /\ late' = [late EXCEPT ![p] = TRUE]
  /\ UNCHANGED <<pc, owns, due, lease, path, listening, pending, crashes>>

-----------------------------------------------------------------------------
(* listen_for_replacement.                                                 *)

RemoveStale(p) ==
  /\ pc[p] = "remove"
  /\ path' = None
  /\ Goto(p, "bind")
  /\ UNCHANGED <<due, late, owns, lease, listening, pending, crashes>>

Bind(p) ==
  /\ pc[p] = "bind"
  /\ IF path = None THEN path' = p /\ owns' = owns \cup {p} /\ Goto(p, "listen")
     ELSE UNCHANGED <<path, owns>> /\ Goto(p, "close")
  /\ UNCHANGED <<due, late, lease, listening, pending, crashes>>

Listen(p) ==
  /\ pc[p] = "listen"
  /\ listening' = listening \cup {p}
  /\ Goto(p, "opening")
  /\ UNCHANGED <<due, late, owns, lease, path, pending, crashes>>

\* A system call fails; what was set up so far is taken down.
Fail(p) ==
  /\ pc[p] \in waiting \cup listens
  /\ Goto(p, IF pc[p] \in waiting THEN "unlock" ELSE "close")
  /\ UNCHANGED <<due, late, owns, lease, path, listening, pending, crashes>>

-----------------------------------------------------------------------------
(* The picker, see EventLoop.                                              *)

\* matuwall_app_init goes on, to the loop or to an error.
Open(p) ==
  /\ pc[p] = "opening"
  /\ \E label \in {"open", "closing"} : Goto(p, label)
  /\ UNCHANGED <<due, late, owns, lease, path, listening, pending, crashes>>

\* matuwall_instance_dispatch accepts every connection.
Replaced(p) ==
  /\ pc[p] = "open" /\ pending[p] # <<>>
  /\ pending' = [pending EXCEPT ![p] = <<>>]
  /\ Goto(p, "closing")
  /\ UNCHANGED <<due, late, owns, lease, path, listening, crashes>>

\* The user applies a wallpaper or cancels.
Leave(p) ==
  /\ pc[p] = "open"
  /\ Goto(p, "closing")
  /\ UNCHANGED <<due, late, owns, lease, path, listening, pending, crashes>>

\* The lease is released before the surfaces are destroyed.
BugHide(p) ==
  /\ pc[p] = "closing"
  /\ lease' = IF lease = p THEN None ELSE lease
  /\ IF lease = p THEN UNCHANGED pc ELSE Goto(p, "close")
  /\ UNCHANGED <<due, late, owns, path, listening, pending, crashes>>

\* matuwall_app_finish destroys the layers and disconnects.
Hide(p) ==
  /\ pc[p] = "closing"
  /\ Goto(p, "close")
  /\ UNCHANGED <<due, late, owns, lease, path, listening, pending, crashes>>

-----------------------------------------------------------------------------
(* matuwall_instance_finish.                                               *)

\* The socket is closed with the connections nobody accepted.
CloseSocket(p) ==
  /\ pc[p] = "close"
  /\ listening' = listening \ {p}
  /\ pending' = [pending EXCEPT ![p] = <<>>]
  /\ Goto(p, IF p \in owns THEN "unlink" ELSE "unlock")
  /\ UNCHANGED <<due, late, owns, lease, path, crashes>>

\* The lease is released before the name is removed.
BugUnlink(p) ==
  /\ pc[p] = "unlink"
  /\ lease' = IF lease = p THEN None ELSE lease
  /\ IF lease = p THEN UNCHANGED <<pc, path, owns>>
     ELSE path' = None /\ owns' = owns \ {p} /\ Goto(p, "unlock")
  /\ UNCHANGED <<due, late, listening, pending, crashes>>

\* By name, whoever's socket it names.
Unlink(p) ==
  /\ pc[p] = "unlink"
  /\ path' = None /\ owns' = owns \ {p}
  /\ Goto(p, "unlock")
  /\ UNCHANGED <<due, late, lease, listening, pending, crashes>>

\* Of a launch that gave up, closing the lock file releases nothing.
Unlock(p) ==
  /\ pc[p] = "unlock"
  /\ lease' = IF lease = p THEN None ELSE lease
  /\ Goto(p, "done")
  /\ UNCHANGED <<due, late, owns, path, listening, pending, crashes>>

Crash(p) ==
  /\ pc[p] \notin {"new", "done"} /\ crashes < MaxCrashes
  /\ crashes' = crashes + 1
  /\ lease' = IF lease = p THEN None ELSE lease
  /\ listening' = listening \ {p}
  /\ pending' = [pending EXCEPT ![p] = <<>>]
  /\ Goto(p, "done")
  /\ UNCHANGED <<due, late, owns, path>>

Wait(p) == TryLock(p) \/ GiveUp(p) \/ Ask(p) \/ Retry(p)
Own(p) == RemoveStale(p) \/ Bind(p) \/ Listen(p) \/ Open(p) \/ Replaced(p)
Withdraw(p) == Hide(p) \/ CloseSocket(p) \/ Unlink(p) \/ Unlock(p)

InstanceNext ==
  \E p \in Launches :
    \/ Launch(p) \/ Wait(p) \/ Expire(p) \/ Own(p) \/ Leave(p) \/ Withdraw(p)
    \/ Fail(p) \/ Crash(p)

(* Every launch goes on running; nobody has to start one, to leave the     *)
(* picker, to fail or crash, or to run out of time.                        *)
Fairness ==
  \A p \in Launches :
    WF_launching(TryLock(p) \/ GiveUp(p) \/ Ask(p) \/ Own(p) \/ Withdraw(p)) /\ WF_launching(Retry(p))

InstanceSpec == InstanceInit /\ [][InstanceNext]_launching /\ Fairness

-----------------------------------------------------------------------------
TypeOK ==
  /\ pc \in [Launches -> {"new", "done"} \cup waiting \cup listens \cup shown \cup finishing]
  /\ due \in [Launches -> BOOLEAN] /\ late \in [Launches -> BOOLEAN]
  /\ lease \in Launches \cup {None} /\ path \in Launches \cup {None}
  /\ owns \subseteq Launches /\ listening \subseteq Launches
  /\ pending \in [Launches -> Seq(Launches)] /\ \A p \in Launches : Len(pending[p]) <= Backlog
  /\ crashes \in Nat

(* "Only one picker can be open per Wayland display" (doc/matuwall.1.scd): *)
(* two launches are never connected to the compositor at a time, and the   *)
(* next one appears only when the one before has taken its surfaces down.  *)
OnePicker == \A p, q \in Launches : pc[p] \in shown /\ pc[q] \in shown => p = q

(* The name is free when the owner of the lease binds it: no launch fails  *)
(* because of what another one, crashed or still leaving, has left there.  *)
BindsFreely == \A p \in Launches : pc[p] = "bind" => path = None

(* The picker that is open can be asked to leave: the name in the runtime  *)
(* directory leads to its socket, although every launch before it unlinked *)
(* or may have left behind a socket of that name, which is in nobody's way *)
(* (BindsFreely).                                                          *)
Reachable ==
  /\ BindsFreely
  /\ \A p \in Launches : pc[p] \in shown => path = p /\ p \in listening

(* "A new invocation cancels and replaces the existing one"                *)
(* (doc/matuwall.1.scd:18): a launch that waits gets the lease, whoever    *)
(* holds it and whoever waits beside it, unless its time is up, it fails   *)
(* or crashes; also if its first request fell before the owner listened.   *)
WaiterIsServed == \A p \in Launches : pc[p] \in waiting ~> (pc[p] \notin waiting)
=============================================================================
