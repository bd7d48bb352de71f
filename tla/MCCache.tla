------------------------------ MODULE MCCache -------------------------------
EXTENDS Cache

Square(n) == [w |-> n, h |-> n]
Tall(w, h) == [w |-> w, h |-> h]

Thumb(target) == [path |-> "p", target |-> target, purpose |-> "thumbnail"]
Preview(target) == [path |-> "p", target |-> target, purpose |-> "preview"]

MCJobs ==
  [w1 |-> {Thumb(Square(2)), Preview(Tall(2, 3))},
   w2 |-> {Thumb(Square(2))}]

\* One file name: both versions are of one second, all of the time it tells.
MCName(key) == "entry"

Png(size, passes) == [format |-> "png", size |-> size, passes |-> passes]
DcScan(components, last) == [dc |-> components, last |-> last]
AcScan == [dc |-> {}, last |-> FALSE]
Jpeg(size, scans, subsampled) ==
  [format |-> "jpeg", size |-> size, scans |-> scans, subsampled |-> subsampled]

\* Smaller, larger, wider and taller than the targets; all kinds of scans.
MCFiles ==
  {Png(Tall(4, 6), 1), Png(Tall(3, 1), 2),
   Jpeg(Square(16), <<DcScan({"y", "c"}, FALSE), AcScan, DcScan({"y", "c"}, TRUE)>>, FALSE),
   Jpeg(Tall(20, 18), <<DcScan({"y"}, TRUE), DcScan({"c"}, TRUE), AcScan>>, FALSE),
   Jpeg(Square(16), <<DcScan({"y", "c"}, TRUE), AcScan>>, TRUE),
   Jpeg(Tall(7, 9), <<DcScan({"y", "c"}, TRUE)>>, TRUE),
   [format |-> "webp"], [format |-> "other"]}
=============================================================================
