------------------------------- MODULE Queues -------------------------------
(***************************************************************************)
(* The walk along a list of jobs that keeps some of them in their order,   *)
(* as drop_queued_previews and matuwall_worker_prioritize_thumbs of        *)
(* src/src/thumb/worker.c do; the places are counted, not recursed over.   *)
(***************************************************************************)
EXTENDS Integers, FiniteSets

\* The elements of s that are in T, in the order of s.
Only(s, T) ==
  LET at == {i \in DOMAIN s : s[i] \in T}
  IN  [k \in 1 .. Cardinality(at) |-> s[CHOOSE i \in at : Cardinality({j \in at : j <= i}) = k]]
=============================================================================
