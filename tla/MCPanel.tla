------------------------------ MODULE MCPanel ------------------------------
EXTENDS Panel

MCMinSlot == -4
MCSlots == {2, 5, 9}
MCSteps == {-2}

\* Settings that are alike in all runs, and those a run is about.
Config(carousel, position, edge, columns, rows, spacing, margin) ==
  [width |-> 3, height |-> 2, spacing |-> spacing, margin |-> margin, columns |-> columns,
   rows |-> rows, carousel |-> carousel, position |-> position, edge |-> edge,
   edge_margin |-> 1, overflow |-> 1, zoom |-> TRUE, animated |-> TRUE]

MCConfigs == {
  Config(FALSE, "center", "clip", 3, 2, 1, 2),
  Config(FALSE, "left", "peek", 2, 3, 1, 0),
  Config(TRUE, "bottom", "clip", 3, 1, 1, 2),
  Config(TRUE, "center", "fade", 2, 1, 3, 1),
  Config(TRUE, "right", "peek", 2, 1, 2, 1)}

Size(width, height) == [width |-> width, height |-> height]
MCOutputs == {Size(16, 12), Size(13, 8)}
MCSurfaces == {Size(9, 7)}
=============================================================================
