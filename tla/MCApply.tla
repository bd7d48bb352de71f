------------------------------ MODULE MCApply -------------------------------
(* Two displays and a run after them, for Apply.                           *)
EXTENDS Apply
=============================================================================
