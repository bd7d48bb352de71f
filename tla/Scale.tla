------------------------------- MODULE Scale --------------------------------
(***************************************************************************)
(* The cover crop and the streamed box filter of src/src/thumb/scale.c, on *)
(* the vertical axis.  A row of the output is the set of source rows that  *)
(* were averaged into it: what a colour comes to does not matter here.     *)
(***************************************************************************)
EXTENDS Integers, Sequences

AtLeastOne(n) == IF n = 0 THEN 1 ELSE n

\* matuwall_cover_crop: first row and height of the part that is shown.
CoverCrop(src, out) ==
  IF src.w * out.h > out.w * src.h
  THEN [y |-> 0, h |-> AtLeastOne(src.h)]
  ELSE LET h == (out.h * src.w) \div out.w
       IN  [y |-> (src.h - h) \div 2, h |-> AtLeastOne(h)]

AxisSpan(origin, extent, output, index) ==
  LET start == origin + (index * extent) \div output
      end == origin + ((index + 1) * extent) \div output
      some == IF end <= start THEN start + 1 ELSE end
      last == IF some > origin + extent THEN origin + extent ELSE some
  IN  [start |-> start, count |-> last - start]

SpanRows(span) == span.start .. span.start + span.count - 1

(* next: scaler->next_row; rows: the span of that row; sums: the source    *)
(* rows added up so far; written: the rows each finished output row is the *)
(* average of.                                                             *)
ScalerInit(src, out) ==
  LET crop == CoverCrop(src, out)
  IN  [crop |-> crop, out_h |-> out.h, next |-> 0,
       rows |-> AxisSpan(crop.y, crop.h, out.h, 0), sums |-> {}, written |-> <<>>]

\* accumulate_row: the first row of a box stores, the others add.
Accumulate(scaler, y) ==
  IF y = scaler.rows.start THEN {y} ELSE scaler.sums \union {y}

\* write_row or write_single_row, and the span of the row that follows.
FinishRow(scaler, rows) ==
  LET next == scaler.next + 1
  IN  [scaler EXCEPT
         !.written = Append(@, rows),
         !.next = next,
         !.rows = IF next < scaler.out_h
                  THEN AxisSpan(scaler.crop.y, scaler.crop.h, scaler.out_h, next)
                  ELSE @]

ScalerDone(scaler) == scaler.next = scaler.out_h

\* One turn of the loop of matuwall_row_scaler_push.
PushOnce(scaler, y) ==
  IF ScalerDone(scaler) \/ y < scaler.rows.start THEN scaler
  ELSE IF scaler.rows.count = 1 THEN FinishRow(scaler, {y})
  ELSE LET sums == Accumulate(scaler, y)
       IN  IF y + 1 < scaler.rows.start + scaler.rows.count
           THEN [scaler EXCEPT !.sums = sums]
           ELSE FinishRow([scaler EXCEPT !.sums = sums], sums)

(* The loop: one source row may finish several output rows when the        *)
(* picture is enlarged.  A turn that waits for more rows repeats itself.   *)
Pushed(scaler, y) ==
  LET turn[n \in 0 .. scaler.out_h] ==
        IF n = 0 THEN scaler ELSE PushOnce(turn[n - 1], y)
  IN  turn[scaler.out_h]

-----------------------------------------------------------------------------
(* What the stream has to come to, said without one: output row i of a     *)
(* crop of h rows covers the source rows between i/out_h and (i+1)/out_h   *)
(* of the crop, and at least the one it begins in.                         *)
Box(crop, out_h, i) ==
  {crop.y + k : k \in {n \in 0 .. crop.h - 1 :
     \/ n * out_h <= i * crop.h /\ i * crop.h < (n + 1) * out_h
     \/ n >= (i * crop.h) \div out_h /\ n < ((i + 1) * crop.h) \div out_h}}
=============================================================================
