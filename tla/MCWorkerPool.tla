---------------------------- MODULE MCWorkerPool ----------------------------
EXTENDS WorkerPool

(* Decodes of one byte against a budget of one: two decodes never fit      *)
(* together, so the second one sleeps on budget_freed.                     *)
MCSizes == {1}
=============================================================================
