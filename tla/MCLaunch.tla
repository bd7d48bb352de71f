------------------------------ MODULE MCLaunch ------------------------------
(* Command lines of three options and files of two entries, trees small    *)
(* enough to list and limits small enough to reach, and every pair of the  *)
(* choices preview, mouse and output, for Launch.                          *)
EXTENDS Launch

Setting(preview, mouse, output) == [preview |-> preview, mouse |-> mouse, output |-> output]

MCSetups ==
  {Setting(FALSE, TRUE, ""), Setting(TRUE, FALSE, ""),
   Setting(TRUE, TRUE, "left"), Setting(FALSE, FALSE, "left")}

(* Entries have no names but numbers and are read in any order: one        *)
(* numbering of a tree is enough, level by level and in a directory by     *)
(* kind.                                                                   *)
MCDisks ==
  LET rank == [dir |-> 1, image |-> 2, other |-> 3, hidden |-> 4]
  IN  {t \in Trees :
         \A m, n \in Nodes : m < n =>
           \/ t.parent[m] < t.parent[n]
           \/ t.parent[m] = t.parent[n] /\ rank[t.kind[m]] <= rank[t.kind[n]]}
=============================================================================
