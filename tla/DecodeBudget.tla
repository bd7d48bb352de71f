---------------------------- MODULE DecodeBudget ----------------------------
(***************************************************************************)
(* The decode memory budget of the worker pool (src/src/thumb/worker.c,    *)
(* "decode budget" section).  Every decode opens a ticket, reserves its    *)
(* estimated peak once before the large allocations, and releases it when  *)
(* the decode returns.  A reservation that does not fit beside the running *)
(* ones sleeps on the condition variable budget_freed; an oversized decode *)
(* waits until it can run alone.                                           *)
(*                                                                         *)
(* The section between pthread_mutex_lock and the unlock or the            *)
(* pthread_cond_wait is one step.  A broadcast moves every sleeper from    *)
(* "waiting" to "woken"; a woken worker competes for the mutex again and   *)
(* evaluates the loop condition anew.                                      *)
(*                                                                         *)
(* The operators named ...Step leave the stop flags alone, so that         *)
(* WorkerPool can use them with its own flags in the place of stop.        *)
(***************************************************************************)
EXTENDS Integers

CONSTANTS
  DECODE_BUDGET,       \* bytes all running decodes may hold together
  DECODE_MEMORY_LIMIT, \* largest estimate a single decode may ask for
  Sizes                \* the peak estimates the files of a folder lead to

ASSUME BudgetAssumption  == DECODE_BUDGET \in Nat \ {0}
ASSUME LimitAssumption   == DECODE_MEMORY_LIMIT \in Nat
ASSUME SizesAssumption   == Sizes \subseteq Nat

MAX_WORKERS == 4
Workers == 1 .. MAX_WORKERS

VARIABLES
  decode_bytes, \* pool->decode_bytes
  held,         \* held[w]: bytes of the ticket of w's running decode
  want,         \* want[w]: the size w sleeps for, 0 when it does not
  stage,        \* where w is in decode_and_scale
  stop          \* stop[w]: the flag w's ticket points at

vars == <<decode_bytes, held, want, stage, stop>>

(* "off": no ticket; "open": ticket made, nothing reserved; "waiting":     *)
(* asleep on budget_freed; "woken": signalled, without the mutex yet;      *)
(* "decoding": granted; "refused": reserve returned false.                 *)
Stages == {"off", "open", "waiting", "woken", "decoding", "refused"}

Init ==
  /\ decode_bytes = 0
  /\ held = [w \in Workers |-> 0]
  /\ want = [w \in Workers |-> 0]
  /\ stage = [w \in Workers |-> "off"]
  /\ stop = [w \in Workers |-> FALSE]

-----------------------------------------------------------------------------
(* Definitions named Bug... are faulty variants of the definition that     *)
(* follows them.  No behaviour of the model uses them; each one makes a    *)
(* property of this module fail, which shows what the property guards.     *)

\* Only a pool that is over budget makes a decode wait.
BugWaitOnlyOver(w, bytes) == decode_bytes > DECODE_BUDGET /\ ~stop[w]

\* The loop condition of reserve_decode.
MustWait(w, bytes) ==
  /\ decode_bytes > 0
  /\ ~stop[w]
  /\ \/ decode_bytes > DECODE_BUDGET
     \/ bytes > DECODE_BUDGET - decode_bytes

\* pthread_cond_signal in the place of the broadcast.
BugSignal(st) ==
  IF \E w \in Workers : st[w] = "waiting"
  THEN [st EXCEPT ![CHOOSE w \in Workers : st[w] = "waiting"] = "woken"]
  ELSE st

\* pthread_cond_broadcast(&pool->budget_freed).
Broadcast(st) == [w \in Workers |-> IF st[w] = "waiting" THEN "woken" ELSE st[w]]

OpenStep(w) ==
  /\ stage[w] = "off"
  /\ stage' = [stage EXCEPT ![w] = "open"]
  /\ UNCHANGED <<decode_bytes, held, want>>

\* An estimate above the limit never reaches the pool.
RefuseOversize(w, bytes) ==
  /\ stage[w] = "open"
  /\ bytes > DECODE_MEMORY_LIMIT
  /\ stage' = [stage EXCEPT ![w] = "refused"]
  /\ UNCHANGED <<decode_bytes, held, want>>

\* The size w is about to reserve: chosen once, then remembered over sleeps.
Asks(w, bytes) ==
  \/ stage[w] = "open" /\ bytes <= DECODE_MEMORY_LIMIT
  \/ stage[w] = "woken" /\ bytes = want[w]

Sleep(w, bytes) ==
  /\ Asks(w, bytes)
  /\ MustWait(w, bytes)
  /\ stage' = [stage EXCEPT ![w] = "waiting"]
  /\ want' = [want EXCEPT ![w] = bytes]
  /\ UNCHANGED <<decode_bytes, held>>

Grant(w, bytes) ==
  /\ Asks(w, bytes)
  /\ ~MustWait(w, bytes)
  /\ ~stop[w]
  /\ decode_bytes' = decode_bytes + bytes
  /\ held' = [held EXCEPT ![w] = @ + bytes]
  /\ want' = [want EXCEPT ![w] = 0]
  /\ stage' = [stage EXCEPT ![w] = "decoding"]

Refuse(w, bytes) ==
  /\ Asks(w, bytes)
  /\ ~MustWait(w, bytes)
  /\ stop[w]
  /\ want' = [want EXCEPT ![w] = 0]
  /\ stage' = [stage EXCEPT ![w] = "refused"]
  /\ UNCHANGED <<decode_bytes, held>>

ReserveStep(w, bytes) ==
  RefuseOversize(w, bytes) \/ Sleep(w, bytes) \/ Grant(w, bytes) \/ Refuse(w, bytes)

\* The decoder returned, on any of its paths; a ticket with no bytes leaves
\* early and wakes nobody.
ReleaseStep(w) ==
  /\ stage[w] \in {"open", "decoding", "refused"}
  /\ LET closed == [stage EXCEPT ![w] = "off"]
     IN  IF held[w] = 0
         THEN /\ stage' = closed
              /\ UNCHANGED <<decode_bytes, held>>
         ELSE /\ decode_bytes' = decode_bytes - held[w]
              /\ held' = [held EXCEPT ![w] = 0]
              /\ stage' = Broadcast(closed)
  /\ UNCHANGED want

\* POSIX lets pthread_cond_wait return unsignalled.
SpuriousStep(w) ==
  /\ stage[w] = "waiting"
  /\ stage' = [stage EXCEPT ![w] = "woken"]
  /\ UNCHANGED <<decode_bytes, held, want>>

-----------------------------------------------------------------------------
\* The ticket's flag may be up before the decode starts.
Open(w) ==
  /\ OpenStep(w)
  /\ \E up \in BOOLEAN : stop' = [stop EXCEPT ![w] = up]

Reserve(w) ==
  /\ \E bytes \in Sizes : ReserveStep(w, bytes)
  /\ UNCHANGED stop

Release(w) ==
  /\ ReleaseStep(w)
  /\ stop' = [stop EXCEPT ![w] = FALSE]

SpuriousWake(w) == SpuriousStep(w) /\ UNCHANGED stop

\* cancel_running_preview and request_stop: flags go up under the mutex and
\* the sleepers are woken to see them.  S is empty when the cancelled preview
\* is not in a decode, or was cancelled before.
RaiseStop(S) ==
  /\ \A w \in S : stage[w] # "off" /\ ~stop[w]
  /\ stop' = [w \in Workers |-> w \in S \/ stop[w]]
  /\ stage' = Broadcast(stage)
  /\ UNCHANGED <<decode_bytes, held, want>>

Next ==
  \/ \E w \in Workers : Open(w) \/ Reserve(w) \/ Release(w) \/ SpuriousWake(w)
  \/ \E S \in SUBSET Workers : RaiseStop(S)

Spec == Init /\ [][Next]_vars

-----------------------------------------------------------------------------
TypeOK ==
  /\ decode_bytes \in Nat
  /\ held \in [Workers -> Nat]
  /\ want \in [Workers -> Nat]
  /\ stage \in [Workers -> Stages]
  /\ stop \in [Workers -> BOOLEAN]

\* Only a running decode has bytes ("waiters never hold bytes").
OnlyDecodersHold == \A w \in Workers : held[w] > 0 => stage[w] = "decoding"

SumOf(f) == f[1] + f[2] + f[3] + f[4]

(* The shared counter is exactly what the tickets hold, whatever the       *)
(* interleaving of reserve_decode, release_decode and the stop broadcasts: *)
(* the subtraction in release_decode never wraps the uint64_t.             *)
Conservation == decode_bytes = SumOf(held)

(* The budget is passed only by a decode that runs alone: two decodes that *)
(* hold bytes at once always fit the budget together (comment above        *)
(* reserve_decode: "an oversized decode runs alone").                      *)
OversizedRunsAlone ==
  decode_bytes > DECODE_BUDGET =>
    \E w \in Workers : held[w] = decode_bytes /\ \A v \in Workers \ {w} : held[v] = 0

(* No lost wake-up: a worker asleep on budget_freed is one whose loop      *)
(* condition holds right now.  Whoever makes it false, a release or a stop *)
(* flag, wakes it in the same critical section.                            *)
NoStrandedWaiter ==
  \A w \in Workers : stage[w] = "waiting" => MustWait(w, want[w])

(* The same fact read as progress: somebody asleep means somebody else is  *)
(* running a decode that will release, so the pool never sleeps as a whole.*)
SleeperHasRunner ==
  (\E w \in Workers : stage[w] = "waiting") =>
    \E v \in Workers : stage[v] = "decoding" /\ held[v] > 0

(* A worker sleeps only for memory that decodes under way hold: the        *)
(* counter it looks at is what the tickets hold, no wake-up was lost, and  *)
(* one of those decodes is there to wake it.                               *)
SleepersNeedMemory == Conservation /\ NoStrandedWaiter /\ SleeperHasRunner

(* Seen from outside, the mutex, the sleepers and the flags disappear: the *)
(* tickets behave like the admission rule of DecodeGrants.                 *)
Grants == INSTANCE DecodeGrants WITH granted <- held
GrantsSpec == Grants!Spec
=============================================================================
