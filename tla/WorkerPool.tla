----------------------------- MODULE WorkerPool -----------------------------
(***************************************************************************)
(* The thumbnail and preview worker pool (src/src/thumb/worker.c): the     *)
(* main thread submits, cancels, reorders and drains; up to four worker    *)
(* threads take jobs, produce images and publish results.                  *)
(*                                                                         *)
(* A job is a heap cell.  It is in one place at a time: the queue, the     *)
(* hands of a worker, the list of results or the list the main thread is   *)
(* delivering; a freed cell may be allocated again at once.  One step is   *)
(* one critical section of pool->mutex, or one access to shared state      *)
(* outside it: a read of a stop flag, the write to the eventfd.            *)
(*                                                                         *)
(* The decode memory budget is the module DecodeBudget.  Which index a job *)
(* is for, and what its result says (ok, cancelled, the pixels), belongs   *)
(* to the modules above the pool; here a job only moves.                   *)
(***************************************************************************)
EXTENDS Integers, FiniteSets, Sequences, SequencesExt, Queues

CONSTANTS
  ThreadCount,         \* pool->thread_count
  CellCount,           \* heap cells for jobs: calloc fails when all are used
  DECODE_BUDGET, DECODE_MEMORY_LIMIT, Sizes

Threads == 1 .. ThreadCount
Cells == 1 .. CellCount

ASSUME ThreadAssumption == ThreadCount \in 1 .. 4
ASSUME CellAssumption   == CellCount \in Nat \ {0}

VARIABLES
  job,             \* job[c]: the struct job in cell c, or Free
  jobs,            \* pool->jobs, head first
  results,         \* pool->results, head (newest) first
  running_preview, \* pool->running_preview, or NoCell
  stopping,        \* pool->stopping
  pc,              \* pc[w]: where worker w is
  cur,             \* cur[w]: the job w works on, or NoCell
  event,           \* the eventfd counter is not zero
  main,            \* what the main thread is doing with the pool
  draining,        \* the results main has detached, in delivery order
  decode_bytes, held, want, stage  \* see DecodeBudget

budget == <<decode_bytes, held, want, stage>>
vars == <<job, jobs, results, running_preview, stopping, pc, cur, event, main, draining, budget>>

NoCell == 0
Free == [kind |-> "free", cancelled |-> FALSE]
NewJob(kind) == [kind |-> kind, cancelled |-> FALSE]

(* "take": about to enter take_job; "asleep": in pthread_cond_wait on      *)
(* wakeup; "produce": job in hand; "decode": inside decode_and_scale;      *)
(* "publish": the result is made; "notify": published, eventfd not yet     *)
(* written; "exited".                                                      *)
PCs == {"take", "asleep", "produce", "decode", "publish", "notify", "exited"}

\* The flag produce() polls: the pool's for a thumbnail, the job's for a preview.
StopFlag(c) == IF job[c].kind = "thumb" THEN stopping ELSE job[c].cancelled

Budget == INSTANCE DecodeBudget WITH
  stop <- [w \in 1 .. 4 |-> stage[w] # "off" /\ StopFlag(cur[w])]

Init ==
  /\ job = [c \in Cells |-> Free]
  /\ jobs = <<>>
  /\ results = <<>>
  /\ running_preview = NoCell
  /\ stopping = FALSE
  /\ pc = [w \in Threads |-> "take"]
  /\ cur = [w \in Threads |-> NoCell]
  /\ event = FALSE
  /\ main = "idle"
  /\ draining = <<>>
  /\ decode_bytes = 0
  /\ held = [w \in 1 .. 4 |-> 0]
  /\ want = [w \in 1 .. 4 |-> 0]
  /\ stage = [w \in 1 .. 4 |-> "off"]

-----------------------------------------------------------------------------
(* Helpers.                                                                *)

FreeCells == {c \in Cells : job[c] = Free}
\* Free cells are alike, so any choice among them stands for all.
Malloc == CHOOSE c \in FreeCells : \A d \in FreeCells : c <= d
FreeAll(heap, S) == [c \in Cells |-> IF c \in S THEN Free ELSE heap[c]]

IsPreview(c) == job[c].kind = "preview"
IsThumb(c) == job[c].kind = "thumb"
QueuedPreviews == {c \in ToSet(jobs) : IsPreview(c)}
QueuedThumbs == {c \in ToSet(jobs) : IsThumb(c)}

Asleep == {w \in Threads : pc[w] = "asleep"}

(* Definitions named Bug... are faulty variants of the definition that     *)
(* follows them, see DecodeBudget.                                         *)
BugNoSignal == UNCHANGED pc

\* pthread_cond_signal(&pool->wakeup): one sleeper, whichever, if there is one.
SignalWakeup ==
  \/ Asleep = {} /\ UNCHANGED pc
  \/ \E w \in Asleep : pc' = [pc EXCEPT ![w] = "take"]

BugCancelNothing(heap) == heap

\* cancel_running_preview: raises the flag of the newest preview a worker has.
CancelRunning(heap) ==
  IF running_preview = NoCell THEN heap ELSE [heap EXCEPT ![running_preview].cancelled = TRUE]

BugCancelInSilence == stage

\* ... and wakes the workers asleep on the decode budget.
WakeForCancel == IF running_preview = NoCell THEN stage ELSE Budget!Broadcast(stage)

-----------------------------------------------------------------------------
(* Worker threads.                                                         *)

Sleep(w) ==
  /\ pc[w] = "take"
  /\ jobs = <<>>
  /\ ~stopping
  /\ pc' = [pc EXCEPT ![w] = "asleep"]
  /\ UNCHANGED <<job, jobs, results, running_preview, stopping, cur, event, main, draining, budget>>

SpuriousWake(w) ==
  /\ pc[w] = "asleep"
  /\ pc' = [pc EXCEPT ![w] = "take"]
  /\ UNCHANGED <<job, jobs, results, running_preview, stopping, cur, event, main, draining, budget>>

Exit(w) ==
  /\ pc[w] = "take"
  /\ stopping
  /\ pc' = [pc EXCEPT ![w] = "exited"]
  /\ UNCHANGED <<job, jobs, results, running_preview, stopping, cur, event, main, draining, budget>>

Take(w) ==
  /\ pc[w] = "take"
  /\ jobs # <<>>
  /\ ~stopping
  /\ jobs' = Tail(jobs)
  /\ cur' = [cur EXCEPT ![w] = Head(jobs)]
  /\ running_preview' = IF IsPreview(Head(jobs)) THEN Head(jobs) ELSE running_preview
  /\ pc' = [pc EXCEPT ![w] = "produce"]
  /\ UNCHANGED <<job, results, stopping, event, main, draining, budget>>

Local == UNCHANGED <<job, jobs, results, running_preview, stopping, cur, event, main, draining>>

\* produce() looks at its stop flag before it starts.
GiveUp(w) ==
  /\ pc[w] = "produce"
  /\ StopFlag(cur[w])
  /\ pc' = [pc EXCEPT ![w] = "publish"]
  /\ UNCHANGED budget
  /\ Local

CacheHit(w) ==
  /\ pc[w] = "produce"
  /\ ~StopFlag(cur[w])
  /\ IsThumb(cur[w])
  /\ pc' = [pc EXCEPT ![w] = "publish"]
  /\ UNCHANGED budget
  /\ Local

StartDecode(w) ==
  /\ pc[w] = "produce"
  /\ ~StopFlag(cur[w])
  /\ pc' = [pc EXCEPT ![w] = "decode"]
  /\ Budget!OpenStep(w)
  /\ Local

ReserveDecode(w) ==
  /\ pc[w] = "decode"
  /\ \E bytes \in Sizes : Budget!ReserveStep(w, bytes)
  /\ UNCHANGED pc
  /\ Local

SpuriousBudgetWake(w) ==
  /\ pc[w] = "decode"
  /\ Budget!SpuriousStep(w)
  /\ UNCHANGED pc
  /\ Local

FinishDecode(w) ==
  /\ pc[w] = "decode"
  /\ Budget!ReleaseStep(w)
  /\ pc' = [pc EXCEPT ![w] = "publish"]
  /\ Local

\* running_preview is left pointing at the published job.
BugPublishKeepsPointer(w) ==
  /\ pc[w] = "publish"
  /\ results' = <<cur[w]>> \o results
  /\ cur' = [cur EXCEPT ![w] = NoCell]
  /\ pc' = [pc EXCEPT ![w] = "notify"]
  /\ UNCHANGED <<job, jobs, running_preview, stopping, event, main, draining, budget>>

Publish(w) ==
  /\ pc[w] = "publish"
  /\ running_preview' = IF running_preview = cur[w] THEN NoCell ELSE running_preview
  /\ results' = <<cur[w]>> \o results
  /\ cur' = [cur EXCEPT ![w] = NoCell]
  /\ pc' = [pc EXCEPT ![w] = "notify"]
  /\ UNCHANGED <<job, jobs, stopping, event, main, draining, budget>>

Notify(w) ==
  /\ pc[w] = "notify"
  /\ event' = TRUE
  /\ pc' = [pc EXCEPT ![w] = "take"]
  /\ UNCHANGED <<job, jobs, results, running_preview, stopping, cur, main, draining, budget>>

Worker(w) ==
  \/ Sleep(w) \/ Exit(w) \/ Take(w)
  \/ GiveUp(w) \/ CacheHit(w) \/ StartDecode(w) \/ ReserveDecode(w) \/ FinishDecode(w)
  \/ Publish(w) \/ Notify(w)

-----------------------------------------------------------------------------
(* The main thread.                                                        *)

Submit ==
  /\ main = "idle"
  /\ FreeCells # {}
  /\ job' = [job EXCEPT ![Malloc] = NewJob("thumb")]
  /\ jobs' = Append(jobs, Malloc)
  /\ SignalWakeup
  /\ UNCHANGED <<results, running_preview, stopping, cur, event, main, draining, budget>>

SubmitPreview ==
  /\ main = "idle"
  /\ FreeCells # {}
  /\ job' = CancelRunning([FreeAll(job, QueuedPreviews) EXCEPT ![Malloc] = NewJob("preview")])
  /\ jobs' = <<Malloc>> \o Only(jobs, QueuedThumbs)
  /\ stage' = WakeForCancel
  /\ SignalWakeup
  /\ UNCHANGED <<results, running_preview, stopping, cur, event, main, draining,
                 decode_bytes, held, want>>

CancelPreview ==
  /\ main = "idle"
  /\ job' = CancelRunning(FreeAll(job, QueuedPreviews))
  /\ jobs' = Only(jobs, QueuedThumbs)
  /\ stage' = WakeForCancel
  /\ UNCHANGED <<results, running_preview, stopping, pc, cur, event, main, draining,
                 decode_bytes, held, want>>

\* Any classification of the queued thumbnails: keep and visible are decided
\* by the store above the pool.
PrioritizeThumbs ==
  /\ main = "idle"
  /\ \E keep \in SUBSET QueuedThumbs :
     \E visible \in SUBSET keep :
       /\ jobs' = Only(jobs, QueuedPreviews) \o Only(jobs, visible) \o Only(jobs, keep \ visible)
       /\ job' = FreeAll(job, QueuedThumbs \ keep)
  /\ UNCHANGED <<results, running_preview, stopping, pc, cur, event, main, draining, budget>>

\* matuwall_worker_drain, called when the eventfd polls readable: the counter
\* is read until it is empty, and only then is the list detached.
DrainRead ==
  /\ main \in {"idle", "detach"}
  /\ event
  /\ event' = FALSE
  /\ main' = "detach"
  /\ UNCHANGED <<job, jobs, results, running_preview, stopping, pc, cur, draining, budget>>

DrainDetach ==
  /\ main = "detach"
  /\ draining' = Reverse(results)
  /\ results' = <<>>
  /\ main' = "deliver"
  /\ UNCHANGED <<job, jobs, running_preview, stopping, pc, cur, event, budget>>

\* The counter is cleared after the list was detached.
BugDeliverClears ==
  /\ main = "deliver"
  /\ job' = FreeAll(job, ToSet(draining))
  /\ draining' = <<>>
  /\ event' = FALSE
  /\ main' = "idle"
  /\ UNCHANGED <<jobs, results, running_preview, stopping, pc, cur, budget>>

DrainDeliver ==
  /\ main = "deliver"
  /\ IF draining = <<>>
     THEN main' = "idle" /\ UNCHANGED <<job, draining>>
     ELSE /\ job' = FreeAll(job, {Head(draining)})
          /\ draining' = Tail(draining)
          /\ UNCHANGED main
  /\ UNCHANGED <<jobs, results, running_preview, stopping, pc, cur, event, budget>>

\* Without the broadcast on wakeup.
BugStopInSilence ==
  /\ stopping' = TRUE
  /\ job' = CancelRunning(job)
  /\ stage' = Budget!Broadcast(stage)
  /\ UNCHANGED <<jobs, results, running_preview, pc, cur, event, draining,
                 decode_bytes, held, want>>

\* matuwall_worker_pool_request_stop.
RaiseStopping ==
  /\ stopping' = TRUE
  /\ job' = CancelRunning(job)
  /\ pc' = [w \in Threads |-> IF pc[w] = "asleep" THEN "take" ELSE pc[w]]
  /\ stage' = Budget!Broadcast(stage)
  /\ UNCHANGED <<jobs, results, running_preview, cur, event, draining, decode_bytes, held, want>>

\* Before applying, the pool is told to stop and left alone.
RequestStop ==
  /\ main = "idle"
  /\ main' = "quiesced"
  /\ RaiseStopping

\* matuwall_worker_pool_stop up to the joins.
PoolStop ==
  /\ main \in {"idle", "quiesced"}
  /\ main' = "join"
  /\ RaiseStopping

\* Every worker joined: the queues are freed without the mutex.
FreePool ==
  /\ main = "join"
  /\ \A w \in Threads : pc[w] = "exited"
  /\ main' = "gone"
  /\ job' = FreeAll(job, ToSet(jobs) \cup ToSet(results))
  /\ jobs' = <<>>
  /\ results' = <<>>
  /\ UNCHANGED <<running_preview, stopping, pc, cur, event, draining, budget>>

Main ==
  \/ Submit \/ SubmitPreview \/ CancelPreview \/ PrioritizeThumbs
  \/ DrainRead \/ DrainDetach \/ DrainDeliver
  \/ RequestStop \/ PoolStop \/ FreePool

Finished == main = "gone" /\ UNCHANGED vars

Next ==
  \/ \E w \in Threads : Worker(w) \/ SpuriousWake(w) \/ SpuriousBudgetWake(w)
  \/ Main
  \/ Finished

(* The scheduler runs every thread, and a decode that runs comes back.     *)
(* Main keeps no promise to submit or drain; it only finishes what it has  *)
(* begun: pool_stop waits in pthread_join and then frees.                  *)
Fairness == (\A w \in Threads : WF_vars(Worker(w))) /\ WF_vars(FreePool)

Spec == Init /\ [][Next]_vars /\ Fairness

-----------------------------------------------------------------------------
(* Properties.                                                             *)

TypeOK ==
  /\ job \in [Cells -> [kind : {"free", "thumb", "preview"}, cancelled : BOOLEAN]]
  /\ jobs \in Seq(Cells) /\ results \in Seq(Cells) /\ draining \in Seq(Cells)
  /\ running_preview \in Cells \cup {NoCell}
  /\ stopping \in BOOLEAN /\ event \in BOOLEAN
  /\ pc \in [Threads -> PCs]
  /\ cur \in [Threads -> Cells \cup {NoCell}]
  /\ main \in {"idle", "detach", "deliver", "quiesced", "join", "gone"}
  /\ Budget!TypeOK

\* Every place a job can be reached from, with its multiplicity.
Places == jobs \o results \o draining \o Only(cur, Cells)

(* A job is reached from exactly one place until it is freed, and never    *)
(* after: no double free when queued previews are dropped, thumbnails      *)
(* withdrawn, results drained or the pool freed.  The one extra pointer,   *)
(* running_preview, is not left behind by a publish ("job is freed after   *)
(* drain, so the pointer must not outlive this", worker.c:194).            *)
OneOwner ==
  /\ IsInjective(Places)
  /\ \A c \in Cells : job[c] = Free <=> c \notin ToSet(Places)
  /\ running_preview # NoCell => running_preview \in {cur[w] : w \in Threads}

(* cancel_running_preview knows one job only.  That is enough: at most one *)
(* preview that nobody cancelled is queued or running, and if a worker has *)
(* it, running_preview points at it.                                       *)
CancelReachesPreview ==
  LET busy == {w \in Threads : cur[w] # NoCell /\ IsPreview(cur[w]) /\ ~job[cur[w]].cancelled}
  IN  /\ Cardinality(busy) + Cardinality(QueuedPreviews) <= 1
      /\ \A w \in busy : cur[w] = running_preview

(* A published result is never left where the main thread does not look:   *)
(* the eventfd is readable, or a worker is about to write it, or the main  *)
(* thread has cleared it and not detached the list yet.                    *)
NoLostResult ==
  results # <<>> /\ ~stopping =>
    event \/ main = "detach" \/ \E w \in Threads : pc[w] = "notify"

(* No wake-up on the condition variable wakeup is lost: while a worker     *)
(* sleeps, every queued job has a worker on its way to take it, although   *)
(* submit signals one sleeper and a signalled worker may find the queue    *)
(* emptied by another.                                                     *)
WorkConserving ==
  Asleep # {} /\ ~stopping => Len(jobs) <= Cardinality({w \in Threads : pc[w] = "take"})

(* The pool's workers, flags and cancellations drive the decode budget the *)
(* way DecodeBudget says.                                                  *)
BudgetSpec == Budget!Spec

(* matuwall_worker_pool_stop returns: no worker stays asleep on either     *)
(* condition variable or waits for memory for ever.                        *)
StopTerminates == main = "join" ~> main = "gone"
=============================================================================
