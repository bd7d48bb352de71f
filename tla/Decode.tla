------------------------------- MODULE Decode -------------------------------
(***************************************************************************)
(* One decode: matuwall_image_decode (src/src/thumb/decode.c) and the      *)
(* three formats behind it (src/src/thumb/decode/).  Every allocation may  *)
(* fail, every call of a library may report an error, which for libpng and *)
(* libjpeg is a longjmp to the cleanup of the format, and the stop flag is *)
(* polled between rows.  A decode is the resources it holds, what was      *)
(* reserved for it, and how far its rows have come.                        *)
(*                                                                         *)
(* A JPEG of several scans is the sequence of its scans: the components    *)
(* whose DC coefficients the scan carries, and whether it is the last      *)
(* refinement of them.                                                     *)
(***************************************************************************)
EXTENDS Scale

CONSTANTS
  Workers, \* threads that decode, of this run or of another one
  Files,   \* kinds of wallpaper: format, size, and what the format adds
  Components \* colour components of a JPEG

ASSUME FormatAssumption == \A file \in Files : file.format \in {"png", "jpeg", "webp", "other"}
\* matuwall_image_dimensions_ok: no picture without a pixel is decoded.
ASSUME SizeAssumption == \A file \in Files :
  /\ file.format \in {"png", "jpeg"} => file.size \in [w : Nat \ {0}, h : Nat \ {0}]
  /\ file.format = "png" => file.passes \in Nat \ {0}

VARIABLES
  dec, \* dec[w]: the decode of worker w
  stop \* stop[w]: the flag job->stop of w's decode points at

(* at: where the decode is; held: memory and handles it has; granted: what *)
(* it has reserved; seen: the versions of the file it has read from;       *)
(* ver: the version behind its descriptor; linked: the file is still the   *)
(* one its path names.                                                     *)
NoDecode ==
  [at |-> "none", file |-> <<>>, job |-> <<>>, held |-> {}, granted |-> {}, seen |-> {},
   ver |-> 0, linked |-> FALSE, pass |-> 1, y |-> 0, scaler |-> <<>>,
   scan |-> 0, inside |-> FALSE]

Becomes(w, d) == dec' = [dec EXCEPT ![w] = d]

\* Every read takes what the file holds by now.
Read(d) == [d EXCEPT !.seen = @ \union {d.ver}]

-----------------------------------------------------------------------------
(* Images: alloc_target takes memory for a thumbnail and a mapped file for *)
(* a preview, and matuwall_image_free returns the one or the other.        *)
\* What alloc_target may leave in the image: all of it or nothing.
AllocTarget(d) == IF d.job.purpose = "preview" THEN {{"mapping", "memfd"}, {}} ELSE {{"pixels"}, {}}

ImageMemory == {"pixels", "mapping", "memfd"}
HasImage(held) == held \intersect {"pixels", "mapping"} # {}

\* matuwall_image_free: by whether the image says it is shared.
FreedImage(d) == IF "mapping" \in d.held THEN {"mapping", "memfd"} ELSE {"pixels"}

(* The end of matuwall_image_decode after a format has returned: frees is  *)
(* what the format gave back on its way out.                               *)
Failed(d, frees) == [d EXCEPT !.at = "failed", !.held = @ \ (frees \union {"fp"})]
Done(d, frees) == [d EXCEPT !.at = "done", !.held = @ \ (frees \union {"fp"})]

\* The early tests, open_regular and the signature.
OpenRegular(w) ==
  LET d == dec[w]
  IN  /\ d.at = "open"
      /\ \/ Becomes(w, Failed(d, {}))
         \/ /\ ~stop[w] /\ d.ver # 0
            /\ \E file \in Files :
                 LET opened == [Read(d) EXCEPT !.held = {"fp"}, !.file = file]
                 IN  IF file.format = "other"
                     THEN Becomes(w, Failed(opened, {}))
                     ELSE Becomes(w, [opened EXCEPT !.at = file.format])

-----------------------------------------------------------------------------
(* PNG *)
PngBuffers == {"rows", "columns"}

\* The rows are left to the caller, which knows nothing of them.
BugPngJump(d) == Failed(d, {"buffers", "png"} \union FreedImage(d))

\* setjmp has returned for the second time.
PngJump(d) == Failed(d, PngBuffers \union {"buffers", "png"} \union FreedImage(d))

PngCreate(w) ==
  LET d == dec[w]
  IN  /\ d.at = "png"
      /\ \/ Becomes(w, Failed(d, {}))
         \/ Becomes(w, [d EXCEPT !.at = "png_info", !.held = @ \union {"png", "buffers"}])

\* Header and transformations: an error jumps, a bad size frees by hand.
PngInfo(w) ==
  LET d == Read(dec[w])
  IN  /\ d.at = "png_info"
      /\ \/ Becomes(w, PngJump(d))
         \/ Becomes(w, Failed(d, {"buffers", "png"}))
         \/ Becomes(w, [d EXCEPT !.at = "png_reserve"])

\* Too large to keep, refused by the budget or stopped, or reserved.
PngReserve(w) ==
  LET d == dec[w]
  IN  /\ d.at = "png_reserve"
      /\ \/ Becomes(w, Failed(d, PngBuffers \union {"buffers", "png"}))
         \/ /\ ~stop[w]
            /\ Becomes(w, [d EXCEPT !.at = "png_alloc", !.granted = ImageMemory \union PngBuffers])

PngAlloc(w) ==
  LET d == dec[w]
  IN  /\ d.at = "png_alloc"
      /\ \E image \in AllocTarget(d), rows \in {{"rows"}, {}}, columns \in {{"columns"}, {}} :
           LET got == [d EXCEPT !.held = @ \union image \union rows \union columns]
               all == HasImage(image) /\ rows # {}
           IN  /\ columns # {} => all
               /\ IF columns # {}
                  THEN Becomes(w, [got EXCEPT !.at = "png_rows",
                                     !.scaler = ScalerInit(d.file.size, d.job.target)])
                  ELSE Becomes(w, PngJump(got))

PngRow(d) ==
  LET read == [Read(d) EXCEPT !.y = @ + 1]
  IN  IF d.pass = d.file.passes THEN [read EXCEPT !.scaler = Pushed(@, d.y)] ELSE read

PngRows(w) ==
  LET d == dec[w]
  IN  /\ d.at = "png_rows"
      /\ \/ Becomes(w, PngJump(d))
         \/ /\ ~stop[w] /\ d.y < d.file.size.h
            /\ Becomes(w, PngRow(d))
         \/ /\ d.y = d.file.size.h /\ d.pass < d.file.passes
            /\ Becomes(w, [d EXCEPT !.pass = @ + 1, !.y = 0])
         \/ /\ d.y = d.file.size.h /\ d.pass = d.file.passes
            /\ Becomes(w, Done(d, PngBuffers \union {"buffers", "png"}))
-----------------------------------------------------------------------------
(* JPEG *)
Ceiling(a, b) == (a + b - 1) \div b

\* jpeg_calc_output_dimensions with the DCT scale num/8.
ScaledSize(size, num) == [w |-> Ceiling(size.w * num, 8), h |-> Ceiling(size.h * num, 8)]

Covers(size, target) == size.w >= target.w /\ size.h >= target.h

(* jpeg_scale_for_target: the smallest of 1/8, 1/4 and 1/2 that leaves     *)
(* enough pixels, else the whole size; any M/8 that hits the target exactly.*)
ScaleForTarget(size, target) ==
  LET enough == {num \in {1, 2, 4} : Covers(ScaledSize(size, num), target)}
      num == IF enough = {} THEN 8 ELSE CHOOSE n \in enough : \A m \in enough : n <= m
      exact == {n \in 1 .. 7 : ScaledSize(size, n) = target}
  IN  IF ScaledSize(size, num) = target \/ exact = {} THEN num
      ELSE CHOOSE n \in exact : \A m \in exact : n >= m

Scale(d) == ScaleForTarget(d.file.size, d.job.target)

\* The dimensions of the picture, which jpeg_start_decompress computes anew.
OutputSize(d) == ScaledSize(d.file.size, Scale(d))

(* output_width and output_height as jpeg_scale_for_target leaves them.    *)
(* Where no M/8 hits the target the scale is set back behind the trials,   *)
(* the dimensions are not: they are those of the last trial, 1/8.          *)
TrialSize(d) == IF OutputSize(d) = d.job.target THEN OutputSize(d) ELSE ScaledSize(d.file.size, 1)

Direct(d) == TrialSize(d) = d.job.target
MultiScan(d) == Len(d.file.scans) > 1

\* Every component is reduced to its DC; subsampled ones keep a finer scale.
DcOnly(d) == Scale(d) = 1 /\ ~d.file.subsampled

(* cinfo->coef_bits[c][0] = 0: a scan has begun that carries the last bit  *)
(* of the component's DC.  libjpeg sets it as the scan starts.             *)
Announced(d, c) == \E k \in 1 .. d.scan : c \in d.file.scans[k].dc /\ d.file.scans[k].last
DcExact(d) == \A c \in Components : Announced(d, c)

StreamBuffers == {"row", "columns"}

\* The error handler, and the end of matuwall_decode_jpeg without success.
JpegFails(d) == Failed(d, StreamBuffers \union {"cinfo", "coefficients", "stream"} \union FreedImage(d))

JpegCreate(w) ==
  LET d == dec[w]
  IN  /\ d.at = "jpeg"
      /\ \/ Becomes(w, Failed(d, {}))
         \/ Becomes(w, [d EXCEPT !.at = "jpeg_header", !.held = @ \union {"stream", "cinfo"}])

\* Coefficients are counted by the scale of the output.
BugJpegPeak(d) ==
  (IF MultiScan(d) /\ ~DcOnly(d) THEN {"coefficients"} ELSE {})
    \union (IF Direct(d) THEN {} ELSE StreamBuffers) \union ImageMemory

\* peak, the sum that is reserved, by what it counts.
JpegPeak(d) ==
  (IF MultiScan(d) THEN {"coefficients"} ELSE {})
    \union (IF Direct(d) THEN {} ELSE StreamBuffers) \union ImageMemory

\* The pixels of the row in it, and those of the row read_jpeg_streamed takes.
RowCounted(d) == TrialSize(d).w
RowTaken(d) == OutputSize(d).w

JpegReserve(w) ==
  LET d == Read(dec[w])
  IN  /\ d.at = "jpeg_header"
      /\ \/ Becomes(w, JpegFails(d))
         \/ /\ ~stop[w]
            /\ Becomes(w, [d EXCEPT !.at = "jpeg_start", !.granted = JpegPeak(d)])

\* jpeg_start_decompress; the header has brought the input to the first scan.
JpegStart(w) ==
  LET d == Read(dec[w])
  IN  /\ d.at = "jpeg_start"
      /\ \/ Becomes(w, JpegFails(d))
         \/ Becomes(w, IF MultiScan(d)
                       THEN [d EXCEPT !.at = "jpeg_scans", !.scan = 1, !.inside = TRUE,
                                      !.held = @ \union {"coefficients"}]
                       ELSE [d EXCEPT !.at = "jpeg_alloc"])

\* The end of a scan is not waited for: the bits are looked at as it starts.
BugConsumed(d) ==
  IF d.inside
  THEN [d EXCEPT !.inside = FALSE]
  ELSE IF d.scan = Len(d.file.scans) THEN [d EXCEPT !.at = "jpeg_output"]
       ELSE LET next == [d EXCEPT !.scan = @ + 1, !.inside = TRUE]
            IN  IF DcOnly(d) /\ DcExact(next) THEN [next EXCEPT !.at = "jpeg_output"] ELSE next

\* jpeg_consume_input up to a status that matters, and what the loop does.
Consumed(d) ==
  IF d.inside
  THEN [d EXCEPT !.inside = FALSE, !.at = IF DcOnly(d) /\ DcExact(d) THEN "jpeg_output" ELSE @]
  ELSE IF d.scan = Len(d.file.scans) THEN [d EXCEPT !.at = "jpeg_output"]
       ELSE [d EXCEPT !.scan = @ + 1, !.inside = TRUE]

ConsumeScans(w) ==
  LET d == Read(dec[w])
  IN  /\ d.at = "jpeg_scans"
      /\ \/ Becomes(w, JpegFails(d))
         \/ ~stop[w] /\ Becomes(w, Consumed(d))

\* jpeg_start_output, alloc_target, and the buffers of a streamed file.
JpegAlloc(w) ==
  LET d == dec[w]
  IN  /\ d.at \in {"jpeg_output", "jpeg_alloc"}
      /\ \/ Becomes(w, JpegFails(d))
         \/ \E image \in AllocTarget(d), row \in {{"row"}, {}}, columns \in {{"columns"}, {}} :
              LET got == [d EXCEPT !.held = @ \union image \union row \union columns]
              IN  /\ row # {} => HasImage(image) /\ ~Direct(d)
                  /\ columns # {} => row # {}
                  /\ IF HasImage(image) /\ (Direct(d) \/ columns # {})
                     THEN Becomes(w, [got EXCEPT !.at = "jpeg_rows",
                            !.scaler = IF Direct(d) THEN @ ELSE ScalerInit(OutputSize(d), d.job.target)])
                     ELSE Becomes(w, JpegFails(got))

\* read_jpeg_direct is done with the picture, read_jpeg_streamed with the crop.
JpegRowsDone(d) == IF Direct(d) THEN d.y = d.job.target.h ELSE ScalerDone(d.scaler)

JpegRows(w) ==
  LET d == dec[w]
      read == [Read(d) EXCEPT !.y = @ + 1]
  IN  /\ d.at = "jpeg_rows"
      /\ \/ Becomes(w, JpegFails(d))
         \/ /\ ~stop[w] /\ ~JpegRowsDone(d) /\ d.y < OutputSize(d).h
            /\ Becomes(w, IF Direct(d) THEN read ELSE [read EXCEPT !.scaler = Pushed(@, d.y)])
         \/ /\ JpegRowsDone(d)
            /\ Becomes(w, Done(d, StreamBuffers \union {"cinfo", "coefficients", "stream"}))

-----------------------------------------------------------------------------
(* WebP: the compressed file is read whole before anything is reserved. *)
WebpRead(w) ==
  LET d == Read(dec[w])
  IN  /\ d.at = "webp"
      /\ \/ Becomes(w, Failed(d, {}))
         \/ Becomes(w, [d EXCEPT !.at = "webp_reserve", !.held = @ \union {"data"}])

WebpReserve(w) ==
  LET d == dec[w]
  IN  /\ d.at = "webp_reserve"
      /\ \/ Becomes(w, Failed(d, {"data"}))
         \/ /\ ~stop[w]
            /\ Becomes(w, [d EXCEPT !.at = "webp_alloc",
                              !.granted = {"data", "working"} \union ImageMemory])

WebpAlloc(w) ==
  LET d == dec[w]
  IN  /\ d.at = "webp_alloc"
      /\ \E image \in AllocTarget(d) :
           LET got == [d EXCEPT !.held = @ \union image]
           IN  Becomes(w, IF HasImage(image) THEN [got EXCEPT !.at = "webp_decode"]
                          ELSE Failed(got, {"data"}))

\* WebPDecode, between two looks at the flag.
WebpDecode(w) ==
  LET d == dec[w]
  IN  /\ d.at = "webp_decode"
      /\ \/ Becomes(w, Failed(d, {"data"} \union FreedImage(d)))
         \/ ~stop[w] /\ Becomes(w, Done(d, {"data"}))

DecodeStep(w) ==
  \/ OpenRegular(w)
  \/ PngCreate(w) \/ PngInfo(w) \/ PngReserve(w) \/ PngAlloc(w) \/ PngRows(w)
  \/ JpegCreate(w) \/ JpegReserve(w) \/ JpegStart(w) \/ ConsumeScans(w) \/ JpegAlloc(w) \/ JpegRows(w)
  \/ WebpRead(w) \/ WebpReserve(w) \/ WebpAlloc(w) \/ WebpDecode(w)

-----------------------------------------------------------------------------
Large == {"coefficients", "columns", "data", "row", "rows"} \union ImageMemory

\* Every large buffer was counted in what was reserved, whatever its size.
BuffersCounted(d) ==
  d.held \intersect Large \subseteq d.granted \union
    (IF d.at = "webp_reserve" THEN {"data"} ELSE {})

RowHeld(d) == d.at # "none" /\ "row" \in d.held

(* Before a decode holds a large buffer it has reserved memory for it:     *)
(* "called once per decode, before its large allocations" (format.h:32).   *)
(* Only the compressed file of a WebP is there before its reservation,     *)
(* which then counts it.  The buffers are as large as they were counted    *)
(* but for one: the row of a JPEG is counted in full if it is decoded at   *)
(* 1/8, and at no less than an eighth of its width otherwise.              *)
WithinReservation ==
  \A w \in Workers : LET d == dec[w] IN
    /\ d.at # "none" => BuffersCounted(d)
    /\ RowHeld(d) => /\ Scale(d) = 1 => RowTaken(d) <= RowCounted(d)
                     /\ RowTaken(d) <= 8 * RowCounted(d)

(* "decoders declare their transient peak before allocating it"            *)
(* (decode.h:25).  They do not: the row of a JPEG that is reduced by less  *)
(* than 1/8 is larger than what was reserved for it, since the peak is     *)
(* taken from the dimensions of the last trial (TrialSize).                *)
PeakDeclared ==
  \A w \in Workers : RowHeld(dec[w]) => RowTaken(dec[w]) <= RowCounted(dec[w])

\* Every started scan is there, or every bit of every component's DC.
DcComplete ==
  \A w \in Workers : LET d == dec[w] IN
    d.at \in {"jpeg_output", "jpeg_rows"} /\ MultiScan(d) =>
      \/ d.scan = Len(d.file.scans) /\ ~d.inside
      \/ /\ DcOnly(d)
         /\ \A c \in Components : \E k \in 1 .. (IF d.inside THEN d.scan - 1 ELSE d.scan) :
              c \in d.file.scans[k].dc /\ d.file.scans[k].last

\* Each row is the average of exactly the source rows its box covers.
RowsExact ==
  \A w \in Workers : LET d == dec[w] IN
    d.scaler # <<>> =>
      /\ \A i \in 1 .. d.scaler.next :
           d.scaler.written[i] = Box(d.scaler.crop, d.scaler.out_h, i - 1)
      /\ d.at = "png_rows" /\ (d.scaler.next > 0 \/ d.scaler.sums # {}) => d.pass = d.file.passes
      /\ d.at = "done" => ScalerDone(d.scaler)
      /\ d.at = "jpeg_rows" => ScalerDone(d.scaler) \/ d.y < OutputSize(d).h

(* No picture is finished too early, or from less than it should be: an    *)
(* image is drawn from a JPEG whose input was left early only when the     *)
(* scans read to their end hold every component's DC (jpeg.c:131, "only a  *)
(* completed scan makes every started scan's data present"), and a decode  *)
(* that reports success has written every row, each from the rows it       *)
(* covers, whatever the sizes, the crop and the passes.                    *)
PictureExact == DcComplete /\ RowsExact
=============================================================================
