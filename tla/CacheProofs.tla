----------------------------- MODULE CacheProofs -----------------------------
(***************************************************************************)
(* Proofs about Cache, for every set of workers, wallpapers, files and     *)
(* jobs, every bound on the versions and every naming of the keys.         *)
(***************************************************************************)
EXTENDS Cache, SequenceTheorems, WellFoundedInduction, TLAPS

IsImage(i) ==
  /\ i = [path |-> i.path, seen |-> i.seen, target |-> i.target, hit |-> i.hit]
  /\ i.hit \in BOOLEAN

IsEntry(e) ==
  /\ e = [key |-> e.key, image |-> e.image, whole |-> e.whole]
  /\ IsImage(e.image) /\ e.whole \in BOOLEAN

IsDecode(d) == DOMAIN d = DOMAIN NoDecode

\* The picture is the version of the wallpaper that the key names.
Shows(image, key) ==
  image.path = key.path /\ image.target = key.target /\ image.seen = {key.version}

EntryOk(e) == IsEntry(e) /\ (e # NoEntry => e.whole /\ Shows(e.image, e.key))

\* A temporary file that has a picture has the right one, whole or not.
TempOk(t) == IsEntry(t) /\ (t # NoEntry => Shows(t.image, t.key))

KeyOf(job, key, n) ==
  key = [path |-> job.path, version |-> key.version, target |-> job.target] /\ key.version \in 1 .. n

Storing == {"mkstemp", "fill", "publish"}

(* The work k of worker w with decode d and result r.  Versions are never  *)
(* used twice: when the file has the version of the key, it has had it     *)
(* ever since the key was taken, and nothing else was opened or read.      *)
WorkOk(w, d, k, r, src, n) ==
  /\ IsDecode(d) /\ IsImage(r)
  /\ k = [at |-> k.at, key |-> k.key]
  /\ k.at \notin {"idle", "dead"} => d.job \in Jobs[w]
  /\ k.key # NoKey => KeyOf(d.job, k.key, n)
  /\ k.at \in {"idle", "begin", "key", "dead"} => k.key = NoKey
  /\ k.at \in {"lookup", "check"} \union Storing => k.key # NoKey
  /\ k.at \in {"begin", "key", "lookup", "decode"} => d.seen = {}
  /\ k.at = "decoding" /\ d.at \notin {"none", "open", "failed"} => d.seen # {}
  /\ k.at = "decoding" /\ k.key # NoKey /\ src[k.key.path] = k.key.version =>
       d.ver = k.key.version /\ d.seen \subseteq {k.key.version}
  /\ k.at = "check" => r.path = k.key.path /\ r.target = k.key.target
  /\ k.at = "check" /\ src[k.key.path] = k.key.version => Shows(r, k.key)
  /\ k.at \in Storing => Shows(r, k.key)
  /\ r.hit => k.at = "returned" /\ k.key # NoKey /\ Shows(r, k.key)

IInv ==
  /\ dec = [w \in Workers |-> dec[w]] /\ work = [w \in Workers |-> work[w]]
  /\ result = [w \in Workers |-> result[w]] /\ temps = [w \in Workers |-> temps[w]]
  /\ entries = [n \in Names |-> entries[n]]
  /\ newest \in 1 .. MaxVersion
  /\ source \in [Paths -> 0 .. newest]
  /\ \A n \in Names : EntryOk(entries[n])
  /\ \A w \in Workers : TempOk(temps[w])
  /\ \A w \in Workers : WorkOk(w, dec[w], work[w], result[w], source, newest)

-----------------------------------------------------------------------------
(* What a step of a decode may do to its record.                           *)

\* Rows, buffers and positions change; what is read, is the file behind the
\* descriptor.
Follows(c, d) ==
  /\ IsDecode(c) /\ c.job = d.job /\ c.ver = d.ver
  /\ c.seen = d.seen \/ c.seen = d.seen \union {d.ver}
  /\ d.at \notin {"none", "failed"}
  /\ d.at = "open" => c.at = "failed" \/ c.seen # {}

Advances(w) == \E c : Becomes(w, c) /\ Follows(c, dec[w])

LEMMA OpenAdvances ==
  ASSUME NEW w, IsDecode(dec[w]), OpenRegular(w)
  PROVE  Advances(w)
<1> DEFINE d == dec[w]
<1>1. CASE Becomes(w, Failed(d, {}))
  <2>1. Follows(Failed(d, {}), d)
    BY DEF OpenRegular, IsDecode, Follows, Failed, NoDecode
  <2> QED
    BY <1>1, <2>1 DEF Advances
<1>2. ASSUME NEW file \in Files,
             NEW opened, opened = [Read(d) EXCEPT !.held = {"fp"}, !.file = file],
             Becomes(w, Failed(opened, {})) \/ Becomes(w, [opened EXCEPT !.at = file.format])
      PROVE  Advances(w)
  <2>1. IsDecode(opened) /\ opened.job = d.job /\ opened.ver = d.ver
        /\ opened.seen = d.seen \union {d.ver}
    BY <1>2 DEF IsDecode, Read, NoDecode
  <2>2. Follows(Failed(opened, {}), d) /\ Follows([opened EXCEPT !.at = file.format], d)
    BY <2>1 DEF OpenRegular, IsDecode, Follows, Failed, NoDecode
  <2> QED
    BY <1>2, <2>2 DEF Advances
<1> QED
  BY <1>1, <1>2 DEF OpenRegular

\* What all the steps of the three formats do.
Later(c, d) == IsDecode(c) /\ c.job = d.job /\ c.ver = d.ver /\ c.seen \in {d.seen, d.seen \union {d.ver}}

LEMMA LaterAdvances ==
  ASSUME NEW w, dec[w].at \notin {"none", "open", "failed"}, NEW c, Becomes(w, c), Later(c, dec[w])
  PROVE  Advances(w)
BY DEF Advances, Follows, Later

LEMMA ReadLater ==
  ASSUME NEW d, IsDecode(d)
  PROVE  Later(d, d) /\ Later(Read(d), d)
BY DEF IsDecode, Later, Read, NoDecode

LEMMA EndsLater ==
  ASSUME NEW d, NEW c, Later(c, d), NEW frees
  PROVE  Later(Failed(c, frees), d) /\ Later(Done(c, frees), d)
BY DEF IsDecode, Later, Failed, Done, NoDecode

\* The at of a record that was read is that of before.
LEMMA ReadAt ==
  ASSUME NEW d, IsDecode(d)
  PROVE  Read(d).at = d.at
BY DEF IsDecode, Read, NoDecode

LEMMA PngAllocAdvances ==
  ASSUME NEW w, IsDecode(dec[w]), PngAlloc(w)
  PROVE  Advances(w)
<1> DEFINE d == dec[w]
<1>1. Later(d, d) /\ d.at \notin {"none", "open", "failed"}
  BY ReadLater DEF PngAlloc
<1>2. PICK image \in AllocTarget(d), rows \in {{"rows"}, {}}, columns \in {{"columns"}, {}} :
        LET got == [d EXCEPT !.held = @ \union image \union rows \union columns]
        IN  IF columns # {}
            THEN Becomes(w, [got EXCEPT !.at = "png_rows",
                               !.scaler = ScalerInit(d.file.size, d.job.target)])
            ELSE Becomes(w, PngJump(got))
  BY DEF PngAlloc
<1> DEFINE got == [d EXCEPT !.held = @ \union image \union rows \union columns]
<1>3. Later(got, d)
  BY <1>1 DEF Later, IsDecode, NoDecode
<1>4. Later([got EXCEPT !.at = "png_rows", !.scaler = ScalerInit(d.file.size, d.job.target)], d)
  BY <1>3 DEF Later, IsDecode, NoDecode
<1>5. Later(PngJump(got), d)
  BY <1>3, EndsLater DEF PngJump
<1> QED
  BY <1>1, <1>2, <1>4, <1>5, LaterAdvances

LEMMA PngRowsAdvances ==
  ASSUME NEW w, IsDecode(dec[w]), PngRows(w)
  PROVE  Advances(w)
<1> DEFINE d == dec[w]
<1>1. Later(d, d) /\ Later(Read(d), d) /\ d.at \notin {"none", "open", "failed"}
  BY ReadLater DEF PngRows
<1>2. Later(PngJump(d), d) /\ Later(Done(d, PngBuffers \union {"buffers", "png"}), d)
  BY <1>1, EndsLater DEF PngJump
<1>3. Later(PngRow(d), d)
  BY <1>1 DEF Later, IsDecode, NoDecode, PngRow
<1>4. Later([d EXCEPT !.pass = @ + 1, !.y = 0], d)
  BY <1>1 DEF Later, IsDecode, NoDecode
<1> QED
  BY <1>1, <1>2, <1>3, <1>4, LaterAdvances DEF PngRows

LEMMA PngAdvances ==
  ASSUME NEW w, IsDecode(dec[w]), PngCreate(w) \/ PngInfo(w) \/ PngReserve(w)
  PROVE  Advances(w)
<1> DEFINE d == dec[w]
           r == Read(dec[w])
<1>1. Later(d, d) /\ Later(r, d) /\ d.at \notin {"none", "open", "failed"}
  BY ReadLater, ReadAt DEF PngCreate, PngInfo, PngReserve
<1>2. \A frees : Later(Failed(d, frees), d) /\ Later(Failed(r, frees), d)
  BY <1>1, EndsLater
<1>3. Later(PngJump(r), d)
  BY <1>2 DEF PngJump
<1>4. Later([d EXCEPT !.at = "png_info", !.held = @ \union {"png", "buffers"}], d)
  BY <1>1 DEF Later, IsDecode, NoDecode
<1>5. Later([r EXCEPT !.at = "png_reserve"], d)
  <2> HIDE DEF r
  <2> QED
    BY <1>1 DEF Later, IsDecode, NoDecode
<1>6. Later([d EXCEPT !.at = "png_alloc", !.granted = ImageMemory \union PngBuffers], d)
  BY <1>1 DEF Later, IsDecode, NoDecode
<1>7. CASE PngCreate(w)
  BY <1>1, <1>2, <1>4, <1>7, LaterAdvances DEF PngCreate
<1>8. CASE PngInfo(w)
  BY <1>1, <1>2, <1>3, <1>5, <1>8, LaterAdvances DEF PngInfo
<1>9. CASE PngReserve(w)
  BY <1>1, <1>2, <1>6, <1>9, LaterAdvances DEF PngReserve
<1> QED
  BY <1>7, <1>8, <1>9

LEMMA JpegAllocAdvances ==
  ASSUME NEW w, IsDecode(dec[w]), JpegAlloc(w)
  PROVE  Advances(w)
<1> DEFINE d == dec[w]
<1>1. Later(d, d) /\ d.at \notin {"none", "open", "failed"}
  BY ReadLater DEF JpegAlloc
<1>2. CASE Becomes(w, JpegFails(d))
  BY <1>1, <1>2, EndsLater, LaterAdvances DEF JpegFails
<1>3. ASSUME NEW held,
             NEW got, got = [d EXCEPT !.held = held],
             \/ Becomes(w, JpegFails(got))
             \/ Becomes(w, [got EXCEPT !.at = "jpeg_rows",
                              !.scaler = IF Direct(d) THEN @ ELSE ScalerInit(OutputSize(d), d.job.target)])
      PROVE  Advances(w)
  <2>1. Later(got, d)
    BY <1>1, <1>3 DEF Later, IsDecode, NoDecode
  <2>2. \A s : Later([got EXCEPT !.at = "jpeg_rows", !.scaler = s], d)
    BY <2>1 DEF Later, IsDecode, NoDecode
  <2>3. Later(JpegFails(got), d)
    BY <2>1, EndsLater DEF JpegFails
  <2> QED
    BY <1>1, <1>3, <2>2, <2>3, LaterAdvances
<1> QED
  BY <1>2, <1>3 DEF JpegAlloc

LEMMA JpegAdvances ==
  ASSUME NEW w, IsDecode(dec[w]),
         JpegCreate(w) \/ JpegReserve(w) \/ JpegStart(w) \/ ConsumeScans(w) \/ JpegRows(w)
  PROVE  Advances(w)
<1> DEFINE d == dec[w]
           r == Read(dec[w])
<1>1. Later(d, d) /\ Later(r, d) /\ d.at \notin {"none", "open", "failed"} /\ IsDecode(r)
  BY ReadLater, ReadAt DEF JpegCreate, JpegReserve, JpegStart, ConsumeScans, JpegRows, Later
<1>2. \A frees : Later(Failed(d, frees), d) /\ Later(Failed(r, frees), d) /\ Later(Done(d, frees), d)
  BY <1>1, EndsLater
<1>3. Later(JpegFails(d), d) /\ Later(JpegFails(r), d)
  BY <1>2 DEF JpegFails
<1>4. Later([d EXCEPT !.at = "jpeg_header", !.held = @ \union {"stream", "cinfo"}], d)
  BY <1>1 DEF Later, IsDecode, NoDecode
<1>5. Later([r EXCEPT !.at = "jpeg_start", !.granted = JpegPeak(r)], d)
  <2> HIDE DEF r
  <2> QED
    BY <1>1 DEF Later, IsDecode, NoDecode
<1>6. /\ Later([r EXCEPT !.at = "jpeg_scans", !.scan = 1, !.inside = TRUE,
                          !.held = @ \union {"coefficients"}], d)
      /\ Later([r EXCEPT !.at = "jpeg_alloc"], d)
  <2> HIDE DEF r
  <2> QED
    BY <1>1 DEF Later, IsDecode, NoDecode
<1>7. Later(Consumed(r), d)
  <2> HIDE DEF r
  <2> QED
    BY <1>1 DEF Later, IsDecode, NoDecode, Consumed
<1>8. LET read == [r EXCEPT !.y = @ + 1]
      IN  Later(read, d) /\ \A s : Later([read EXCEPT !.scaler = s], d)
  <2> HIDE DEF r
  <2> QED
    BY <1>1 DEF Later, IsDecode, NoDecode
<1>9. CASE JpegCreate(w)
  BY <1>1, <1>2, <1>4, <1>9, LaterAdvances DEF JpegCreate
<1>10. CASE JpegReserve(w)
  BY <1>1, <1>3, <1>5, <1>10, LaterAdvances DEF JpegReserve
<1>11. CASE JpegStart(w)
  BY <1>1, <1>3, <1>6, <1>11, LaterAdvances DEF JpegStart
<1>12. CASE ConsumeScans(w)
  BY <1>1, <1>3, <1>7, <1>12, LaterAdvances DEF ConsumeScans
<1>13. CASE JpegRows(w)
  BY <1>1, <1>2, <1>3, <1>8, <1>13, LaterAdvances DEF JpegRows
<1> QED
  BY <1>9, <1>10, <1>11, <1>12, <1>13

LEMMA WebpAdvances ==
  ASSUME NEW w, IsDecode(dec[w]), WebpRead(w) \/ WebpReserve(w) \/ WebpAlloc(w) \/ WebpDecode(w)
  PROVE  Advances(w)
<1> DEFINE d == dec[w]
           r == Read(dec[w])
<1>1. Later(d, d) /\ Later(r, d) /\ d.at \notin {"none", "open", "failed"}
  BY ReadLater, ReadAt DEF WebpRead, WebpReserve, WebpAlloc, WebpDecode
<1>2. \A frees : /\ Later(Failed(d, frees), d) /\ Later(Failed(r, frees), d)
                 /\ Later(Done(d, frees), d)
  BY <1>1, EndsLater
<1>3. Later([r EXCEPT !.at = "webp_reserve", !.held = @ \union {"data"}], d)
  <2> HIDE DEF r
  <2> QED
    BY <1>1 DEF Later, IsDecode, NoDecode
<1>4. \A g : Later([d EXCEPT !.at = "webp_alloc", !.granted = g], d)
  BY <1>1 DEF Later, IsDecode, NoDecode
<1>5. ASSUME NEW image, NEW got, got = [d EXCEPT !.held = @ \union image]
      PROVE  Later([got EXCEPT !.at = "webp_decode"], d) /\ Later(Failed(got, {"data"}), d)
  <2>1. Later(got, d)
    BY <1>1, <1>5 DEF Later, IsDecode, NoDecode
  <2>2. Later([got EXCEPT !.at = "webp_decode"], d)
    BY <2>1 DEF Later, IsDecode, NoDecode
  <2> QED
    BY <2>1, <2>2, EndsLater
<1>6. CASE WebpRead(w)
  BY <1>1, <1>2, <1>3, <1>6, LaterAdvances DEF WebpRead
<1>7. CASE WebpReserve(w)
  BY <1>1, <1>2, <1>4, <1>7, LaterAdvances DEF WebpReserve
<1>8. CASE WebpAlloc(w)
  BY <1>1, <1>5, <1>8, LaterAdvances DEF WebpAlloc
<1>9. CASE WebpDecode(w)
  BY <1>1, <1>2, <1>9, LaterAdvances DEF WebpDecode
<1> QED
  BY <1>6, <1>7, <1>8, <1>9

LEMMA StepAdvances ==
  ASSUME NEW w, IsDecode(dec[w]), DecodeStep(w)
  PROVE  Advances(w)
BY OpenAdvances, PngAdvances, PngAllocAdvances, PngRowsAdvances, JpegAdvances, JpegAllocAdvances,
   WebpAdvances DEF DecodeStep

-----------------------------------------------------------------------------
(* The steps of one worker: the others, and the wallpapers, stay.          *)

LEMMA OneWorker ==
  ASSUME IInv, NEW w \in Workers, NEW d, NEW k, NEW r, NEW t,
         dec' = [dec EXCEPT ![w] = d], work' = [work EXCEPT ![w] = k],
         result' = [result EXCEPT ![w] = r], temps' = [temps EXCEPT ![w] = t],
         UNCHANGED <<source, newest>>,
         entries' = [n \in Names |-> entries'[n]], \A n \in Names : EntryOk(entries'[n]),
         WorkOk(w, d, k, r, source, newest), TempOk(t)
  PROVE  IInv'
<1>1. /\ dec' = [v \in Workers |-> dec'[v]] /\ work' = [v \in Workers |-> work'[v]]
      /\ result' = [v \in Workers |-> result'[v]] /\ temps' = [v \in Workers |-> temps'[v]]
  BY DEF IInv
<1>2. ASSUME NEW v \in Workers
      PROVE  WorkOk(v, dec'[v], work'[v], result'[v], source, newest) /\ TempOk(temps'[v])
  <2>1. CASE v = w
    <3>1. dec'[v] = d /\ work'[v] = k /\ result'[v] = r /\ temps'[v] = t
      BY <2>1 DEF IInv
    <3> QED
      BY <2>1, <3>1
  <2>2. CASE v # w
    <3>1. dec'[v] = dec[v] /\ work'[v] = work[v] /\ result'[v] = result[v] /\ temps'[v] = temps[v]
      BY <2>2 DEF IInv
    <3> QED
      BY <3>1 DEF IInv
  <2> QED
    BY <2>1, <2>2
<1>3. newest' \in 1 .. MaxVersion /\ source' \in [Paths -> 0 .. newest']
  BY DEF IInv
<1>4. \A v \in Workers : WorkOk(v, dec'[v], work'[v], result'[v], source', newest') /\ TempOk(temps'[v])
  BY <1>2
<1> QED
  BY <1>1, <1>3, <1>4 DEF IInv

\* What the invariant says of one worker.
LEMMA Facts ==
  ASSUME IInv, NEW w \in Workers
  PROVE  /\ WorkOk(w, dec[w], work[w], result[w], source, newest)
         /\ TempOk(temps[w])
         /\ dec = [dec EXCEPT ![w] = dec[w]] /\ work = [work EXCEPT ![w] = work[w]]
         /\ result = [result EXCEPT ![w] = result[w]] /\ temps = [temps EXCEPT ![w] = temps[w]]
         /\ entries = [n \in Names |-> entries[n]]
         /\ \A n \in Names : EntryOk(entries[n])
BY DEF IInv

\* The directory is as it was.
LEMMA SameEntries ==
  ASSUME IInv, entries' = entries
  PROVE  entries' = [n \in Names |-> entries'[n]] /\ \A n \in Names : EntryOk(entries'[n])
BY DEF IInv

LEMMA TakeKeeps ==
  ASSUME IInv, NEW w \in Workers, NEW job \in Jobs[w], Take(w, job)
  PROVE  IInv'
<1> DEFINE d == [NoDecode EXCEPT !.job = job]
           k == [at |-> "begin", key |-> NoKey]
<1>1. WorkOk(w, d, k, result[w], source, newest)
  BY Facts DEF WorkOk, Take, IsDecode, NoDecode, Storing
<1> HIDE DEF d, k
<1>2. dec' = [dec EXCEPT ![w] = d] /\ work' = [work EXCEPT ![w] = k]
  BY DEF Take, d, k
<1>3. result' = [result EXCEPT ![w] = result[w]] /\ temps' = [temps EXCEPT ![w] = temps[w]]
      /\ entries' = entries /\ UNCHANGED <<source, newest>>
  BY Facts DEF Take, diskVars
<1> QED
  BY Facts, <1>1, <1>2, <1>3, OneWorker

\* A step that changes the place of the worker, and perhaps its result.
LEMMA GoesKeeps ==
  ASSUME IInv, NEW w \in Workers, NEW at, NEW r, Goes(w, at), result' = [result EXCEPT ![w] = r],
         UNCHANGED <<dec, source, newest, temps, entries>>,
         WorkOk(w, dec[w], [at |-> at, key |-> work[w].key], r, source, newest)
  PROVE  IInv'
<1> DEFINE k == [at |-> at, key |-> work[w].key]
<1>1. work[w] = [at |-> work[w].at, key |-> work[w].key]
  BY Facts DEF WorkOk
<1>2. [work[w] EXCEPT !.at = at] = k
  BY <1>1
<1>3. work' = [work EXCEPT ![w] = k]
  BY <1>2 DEF Goes
<1>4. WorkOk(w, dec[w], k, r, source, newest)
  OBVIOUS
<1>5. dec' = [dec EXCEPT ![w] = dec[w]] /\ temps' = [temps EXCEPT ![w] = temps[w]]
      /\ entries' = entries /\ UNCHANGED <<source, newest>>
  BY Facts
<1>6. TempOk(temps[w])
  BY Facts
<1> HIDE DEF k
<1> QED
  BY <1>3, <1>4, <1>5, <1>6, SameEntries, OneWorker

LEMMA BeginKeeps ==
  ASSUME IInv, NEW w \in Workers, Begin(w)
  PROVE  IInv'
<1>1. PICK at \in {"returned", "key", "decode"} : Goes(w, at)
  BY DEF Begin
<1>2. WorkOk(w, dec[w], [at |-> at, key |-> work[w].key], result[w], source, newest)
  BY Facts DEF WorkOk, Begin, Storing
<1>3. result' = [result EXCEPT ![w] = result[w]] /\ UNCHANGED <<dec, source, newest, temps, entries>>
  BY Facts DEF Begin, diskVars
<1> QED
  BY <1>1, <1>2, <1>3, GoesKeeps

LEMMA CacheKeyKeeps ==
  ASSUME IInv, NEW w \in Workers, CacheKey(w)
  PROVE  IInv'
<1> DEFINE job == dec[w].job
           key == [path |-> job.path, version |-> source[job.path], target |-> job.target]
<1>1. result' = [result EXCEPT ![w] = result[w]] /\ temps' = [temps EXCEPT ![w] = temps[w]]
      /\ dec' = [dec EXCEPT ![w] = dec[w]] /\ entries' = entries
      /\ UNCHANGED <<source, newest>> /\ UNCHANGED <<dec, source, newest, temps, entries>>
  BY Facts DEF CacheKey, diskVars
<1>2. CASE Goes(w, "decode")
  <2>1. WorkOk(w, dec[w], [at |-> "decode", key |-> work[w].key], result[w], source, newest)
    BY Facts DEF WorkOk, CacheKey, Storing
  <2> QED
    BY <1>1, <1>2, <2>1, GoesKeeps
<1>3. CASE source[job.path] # 0 /\ work' = [work EXCEPT ![w] = [at |-> "lookup", key |-> key]]
  <2>1. source[job.path] \in 1 .. newest
    <3>1. work[w].at = "key"
      BY DEF CacheKey
    <3>2. job.path \in Paths
      BY <3>1, Facts, JobsAssumption DEF WorkOk
    <3>3. source[job.path] \in 0 .. newest /\ newest \in Nat
      BY <3>2, VersionAssumption DEF IInv
    <3> QED
      BY <1>3, <3>3
  <2>2. KeyOf(job, key, newest)
    BY <2>1 DEF KeyOf
  <2>3. key # NoKey
    <3>1. key.version # 0
      BY <1>3
    <3>2. NoKey.version = 0
      BY DEF NoKey
    <3> QED
      BY <3>1, <3>2
  <2> DEFINE k == [at |-> "lookup", key |-> key]
  <2>4. WorkOk(w, dec[w], k, result[w], source, newest)
    <3> HIDE DEF key
    <3> QED
      BY <2>2, <2>3, Facts DEF WorkOk, CacheKey, Storing
  <2> HIDE DEF k
  <2>5. work' = [work EXCEPT ![w] = k]
    BY <1>3 DEF k
  <2>6. TempOk(temps[w])
    BY Facts
  <2> QED
    <3> HIDE DEF key
    <3> QED
      BY <1>1, <2>4, <2>5, SameEntries, <2>6, OneWorker
<1> QED
  BY <1>2, <1>3 DEF CacheKey

\* The names of the keys that work is about are names of the directory.
LEMMA NameKnown ==
  ASSUME IInv, NEW w \in Workers, work[w].key # NoKey, dec[w].job \in Jobs[w]
  PROVE  Name(work[w].key) \in Names
<1> DEFINE key == work[w].key
<1>1. KeyOf(dec[w].job, key, newest)
  BY Facts DEF WorkOk
<1>2. key.version \in 1 .. MaxVersion
  BY <1>1, VersionAssumption DEF KeyOf, IInv
<1>3. dec[w].job \in UNION {Jobs[v] : v \in Workers}
  OBVIOUS
<1>4. key \in Keys
  BY <1>1, <1>2, <1>3 DEF KeyOf, Keys
<1> QED
  BY <1>4 DEF Names

LEMMA CacheReadKeeps ==
  ASSUME IInv, NEW w \in Workers, CacheRead(w)
  PROVE  IInv'
<1> DEFINE key == work[w].key
           e == entries[Name(key)]
<1>1. UNCHANGED <<dec, source, newest, temps, entries>> /\ work[w].at = "lookup"
  BY DEF CacheRead, diskVars
<1>2. CASE Goes(w, "decode") /\ UNCHANGED result
  <2>1. WorkOk(w, dec[w], [at |-> "decode", key |-> key], result[w], source, newest)
    BY <1>1, Facts DEF WorkOk, Storing
  <2>2. result' = [result EXCEPT ![w] = result[w]]
    BY <1>2, Facts
  <2> QED
    BY <1>1, <1>2, <2>1, <2>2, GoesKeeps
<1>3. ASSUME Readable(e, key), Goes(w, "returned"),
             NEW r, r \in {result[w], [e.image EXCEPT !.hit = TRUE]},
             result' = [result EXCEPT ![w] = r]
      PROVE  IInv'
  <2>1. key # NoKey /\ dec[w].job \in Jobs[w] /\ IsImage(result[w]) /\ ~result[w].hit
    BY <1>1, Facts DEF WorkOk, IsImage
  <2>2. EntryOk(e)
    BY <2>1, NameKnown, Facts
  <2>3. IsEntry(e) /\ Shows(e.image, key)
    BY <1>3, <2>2 DEF Readable, EntryOk, NoEntry
  <2>4. IsImage(r) /\ (r.hit => Shows(r, key))
    <3>1. CASE r = result[w]
      BY <2>1, <3>1
    <3>2. CASE r = [e.image EXCEPT !.hit = TRUE]
      BY <2>3, <3>2 DEF IsEntry, IsImage, Shows
    <3> QED
      BY <1>3, <3>1, <3>2
  <2>5. WorkOk(w, dec[w], [at |-> "returned", key |-> key], r, source, newest)
    BY <1>1, <2>1, <2>4, Facts DEF WorkOk, Storing
  <2> QED
    BY <1>1, <1>3, <2>5, GoesKeeps
<1>4. CASE Readable(e, key) /\ Goes(w, "returned")
           /\ result' = IF stop[w] THEN result ELSE [result EXCEPT ![w] = [e.image EXCEPT !.hit = TRUE]]
  <2>1. result = [result EXCEPT ![w] = result[w]]
    BY Facts
  <2> QED
    BY <1>3, <1>4, <2>1
<1> QED
  BY <1>2, <1>4 DEF CacheRead

\* A step that changes the decode, and perhaps place and result.
LEMMA DecodeKeeps ==
  ASSUME IInv, NEW w \in Workers, NEW at, NEW d, NEW r,
         Goes(w, at) \/ (work' = work /\ at = work[w].at), Becomes(w, d),
         result' = [result EXCEPT ![w] = r], UNCHANGED <<source, newest, temps, entries>>,
         WorkOk(w, d, [at |-> at, key |-> work[w].key], r, source, newest)
  PROVE  IInv'
<1> DEFINE k == [at |-> at, key |-> work[w].key]
<1>1. work[w] = [at |-> work[w].at, key |-> work[w].key] /\ work = [work EXCEPT ![w] = work[w]]
  BY Facts DEF WorkOk
<1>2. [work[w] EXCEPT !.at = at] = k /\ (at = work[w].at => work[w] = k)
  BY <1>1
<1>3. work' = [work EXCEPT ![w] = k]
  BY <1>1, <1>2 DEF Goes
<1>4. WorkOk(w, d, k, r, source, newest)
  OBVIOUS
<1>5. dec' = [dec EXCEPT ![w] = d] /\ temps' = [temps EXCEPT ![w] = temps[w]]
      /\ entries' = entries /\ UNCHANGED <<source, newest>>
  BY Facts DEF Becomes
<1>6. TempOk(temps[w])
  BY Facts
<1> HIDE DEF k
<1> QED
  BY <1>3, <1>4, <1>5, <1>6, SameEntries, OneWorker

LEMMA StartDecodeKeeps ==
  ASSUME IInv, NEW w \in Workers, StartDecode(w)
  PROVE  IInv'
<1> DEFINE at == source[dec[w].job.path]
           opened == [dec[w] EXCEPT !.at = "open", !.ver = at, !.linked = TRUE]
           wk == [at |-> "decoding", key |-> work[w].key]
<1>1. /\ IsDecode(dec[w]) /\ work[w].at = "decode"
      /\ work[w].key # NoKey => KeyOf(dec[w].job, work[w].key, newest)
      /\ dec[w].job \in Jobs[w] /\ IsImage(result[w]) /\ ~result[w].hit
  BY Facts DEF StartDecode, WorkOk, IsImage
<1>2. IsDecode(opened) /\ opened.job = dec[w].job /\ opened.ver = at /\ opened.at = "open"
      /\ opened.seen = dec[w].seen
  BY <1>1 DEF IsDecode, NoDecode
<1>3. work[w].key # NoKey /\ source[work[w].key.path] = work[w].key.version =>
        at = work[w].key.version
  BY <1>1 DEF KeyOf
<1>4. dec[w].seen = {}
  BY <1>1, Facts DEF WorkOk
<1>5. ASSUME NEW d, IsDecode(d), d.job = dec[w].job, d.ver = at, d.seen \subseteq {at},
             d.at \in {"open", "failed"} \/ d.seen # {}
      PROVE  WorkOk(w, d, wk, result[w], source, newest)
  BY <1>1, <1>3, <1>5, Facts DEF WorkOk, Storing
<1>6. WorkOk(w, opened, wk, result[w], source, newest)
  BY <1>2, <1>4, <1>5
<1>7. WorkOk(w, Failed(opened, {}), wk, result[w], source, newest)
  <2>1. /\ IsDecode(Failed(opened, {})) /\ Failed(opened, {}).job = dec[w].job
        /\ Failed(opened, {}).ver = at /\ Failed(opened, {}).seen = {} /\ Failed(opened, {}).at = "failed"
    BY <1>2, <1>4 DEF IsDecode, NoDecode, Failed
  <2> QED
    BY <1>5, <2>1
<1>8. ASSUME NEW held, NEW d,
             d = [opened EXCEPT !.at = "done", !.seen = {at}, !.granted = ImageMemory, !.held = held]
      PROVE  WorkOk(w, d, wk, result[w], source, newest)
  <2>1. IsDecode(d) /\ d.job = dec[w].job /\ d.ver = at /\ d.seen = {at}
    BY <1>2, <1>8 DEF IsDecode, NoDecode
  <2> QED
    BY <1>5, <2>1
<1>9. Goes(w, "decoding") /\ result' = [result EXCEPT ![w] = result[w]]
      /\ UNCHANGED <<source, newest, temps, entries>>
  BY Facts DEF StartDecode, diskVars
<1>10. \E d : Becomes(w, d) /\ WorkOk(w, d, wk, result[w], source, newest)
  BY <1>6, <1>7, <1>8 DEF StartDecode
<1> QED
  BY <1>9, <1>10, DecodeKeeps

LEMMA DecodeSomeKeeps ==
  ASSUME IInv, NEW w \in Workers, DecodeSome(w)
  PROVE  IInv'
<1>1. IsDecode(dec[w]) /\ work[w].at = "decoding"
  BY Facts DEF WorkOk, DecodeSome
<1>2. PICK d : Becomes(w, d) /\ Follows(d, dec[w])
  BY <1>1, StepAdvances DEF DecodeSome, Advances
<1>3. WorkOk(w, d, [at |-> "decoding", key |-> work[w].key], result[w], source, newest)
  <2>1. d.at \notin {"none", "open", "failed"} => d.seen # {}
    BY <1>1, <1>2, Facts DEF WorkOk, Follows
  <2> QED
    BY <1>1, <1>2, <2>1, Facts DEF WorkOk, Follows, Storing
<1>4. result' = [result EXCEPT ![w] = result[w]] /\ UNCHANGED <<work, source, newest, temps, entries>>
  BY Facts DEF DecodeSome, diskVars
<1> QED
  BY <1>1, <1>2, <1>3, <1>4, DecodeKeeps

LEMMA FinishDecodeKeeps ==
  ASSUME IInv, NEW w \in Workers, FinishDecode(w)
  PROVE  IInv'
<1> DEFINE d == dec[w]
           key == work[w].key
           ok == d.at = "done" /\ ~stop[w]
           at == IF ~ok \/ key = NoKey THEN "returned" ELSE "check"
           r == IF ok THEN Decoded(d) ELSE result[w]
           c == [NoDecode EXCEPT !.job = d.job,
                   !.held = IF d.at = "done" /\ stop[w] THEN d.held \ FreedImage(d) ELSE d.held]
<1>1. /\ work[w].at = "decoding" /\ Goes(w, at) /\ Becomes(w, c)
      /\ UNCHANGED <<source, newest, temps, entries>>
      /\ result' = IF ok THEN [result EXCEPT ![w] = Decoded(d)] ELSE result
  BY DEF FinishDecode, diskVars
<1>2. IsDecode(c) /\ c.job = d.job
  BY DEF IsDecode, NoDecode
<1>3. result' = [result EXCEPT ![w] = r]
  BY <1>1, Facts
<1>4. IsImage(Decoded(d)) /\ ~Decoded(d).hit /\ Decoded(d).path = d.job.path
      /\ Decoded(d).target = d.job.target /\ Decoded(d).seen = d.seen
  BY DEF Decoded, IsImage
<1>5. IsImage(r) /\ ~r.hit
  BY <1>1, <1>4, Facts DEF WorkOk
<1>6. ASSUME at = "check"
      PROVE  /\ key # NoKey /\ r.path = key.path /\ r.target = key.target
             /\ source[key.path] = key.version => Shows(r, key)
  <2>1. ~(~ok \/ key = NoKey)
    BY <1>6
  <2>2. ok /\ key # NoKey
    BY <2>1
  <2>3. r = Decoded(d) /\ d.at = "done"
    BY <2>2
  <2>4. KeyOf(d.job, key, newest) /\ d.seen # {}
    <3>1. WorkOk(w, d, work[w], result[w], source, newest)
      BY Facts
    <3>2. d.seen # {}
      BY <1>1, <2>3, <3>1 DEF WorkOk
    <3>3. KeyOf(d.job, key, newest)
      BY <2>2, <3>1 DEF WorkOk
    <3> QED
      BY <3>2, <3>3
  <2>5. source[key.path] = key.version => d.seen = {key.version}
    <3>1. WorkOk(w, d, work[w], result[w], source, newest)
      BY Facts
    <3>2. source[key.path] = key.version => d.seen \subseteq {key.version}
      BY <1>1, <2>2, <3>1 DEF WorkOk
    <3> QED
      BY <2>4, <3>2
  <2>6. key.path = d.job.path /\ key.target = d.job.target
    BY <2>4 DEF KeyOf
  <2> HIDE DEF key, d, r
  <2> QED
    BY <1>4, <2>2, <2>3, <2>5, <2>6 DEF Shows
<1>7. WorkOk(w, c, [at |-> at, key |-> key], r, source, newest)
  <2>1. at \in {"returned", "check"}
    OBVIOUS
  <2> HIDE DEF at, r, c
  <2> QED
    BY <1>1, <1>2, <1>5, <1>6, <2>1, Facts DEF WorkOk, Storing
<1> HIDE DEF at, r, c
<1> QED
  BY <1>1, <1>3, <1>7, DecodeKeeps

LEMMA CacheCheckKeeps ==
  ASSUME IInv, NEW w \in Workers, CacheCheck(w)
  PROVE  IInv'
<1>1. PICK at : /\ Goes(w, at)
                /\ at = "returned" \/ (at = "mkstemp" /\ Unchanged(w))
  <2>1. CASE Unchanged(w)
    BY <2>1 DEF CacheCheck
  <2>2. CASE ~Unchanged(w)
    BY <2>2 DEF CacheCheck
  <2> QED
    BY <2>1, <2>2
<1>2. WorkOk(w, dec[w], [at |-> at, key |-> work[w].key], result[w], source, newest)
  <2>1. work[w].at = "check" /\ WorkOk(w, dec[w], work[w], result[w], source, newest)
    BY Facts DEF CacheCheck
  <2>2. at = "mkstemp" => Shows(result[w], work[w].key)
    BY <1>1, <2>1 DEF WorkOk, Unchanged
  <2> QED
    BY <1>1, <2>1, <2>2 DEF WorkOk, Storing
<1>3. result' = [result EXCEPT ![w] = result[w]] /\ UNCHANGED <<dec, source, newest, temps, entries>>
  BY Facts DEF CacheCheck, diskVars
<1> QED
  BY <1>1, <1>2, <1>3, GoesKeeps

\* A step of matuwall_cache_write: place, temporary file and entry.
LEMMA WriteKeeps ==
  ASSUME IInv, NEW w \in Workers, NEW at \in Storing \union {"returned"}, NEW t, Goes(w, at),
         work[w].at \in Storing,
         temps' = [temps EXCEPT ![w] = t], TempOk(t), UNCHANGED <<dec, source, newest, result>>,
         entries' = [n \in Names |-> entries'[n]], \A n \in Names : EntryOk(entries'[n])
  PROVE  IInv'
<1> DEFINE k == [at |-> at, key |-> work[w].key]
<1>1. work[w] = [at |-> work[w].at, key |-> work[w].key]
  BY Facts DEF WorkOk
<1>2. work' = [work EXCEPT ![w] = k]
  <2>1. [work[w] EXCEPT !.at = at] = k
    BY <1>1
  <2> QED
    BY <2>1 DEF Goes
<1>3. WorkOk(w, dec[w], k, result[w], source, newest)
  BY Facts DEF WorkOk, Storing
<1>4. dec' = [dec EXCEPT ![w] = dec[w]] /\ result' = [result EXCEPT ![w] = result[w]]
      /\ UNCHANGED <<source, newest>>
  BY Facts
<1> HIDE DEF k
<1> QED
  BY <1>2, <1>3, <1>4, OneWorker

LEMMA StoreKeeps ==
  ASSUME IInv, NEW w \in Workers, MakeTemp(w) \/ Fill(w) \/ Publish(w)
  PROVE  IInv'
<1>1. /\ work[w].at \in Storing /\ UNCHANGED <<dec, source, newest, result>>
      /\ IsImage(result[w]) /\ TempOk(temps[w]) /\ Shows(result[w], work[w].key)
      /\ temps = [temps EXCEPT ![w] = temps[w]]
  BY Facts DEF MakeTemp, Fill, Publish, Storing, WorkOk
<1>2. TempOk(NoEntry)
  BY DEF TempOk, NoEntry, IsEntry, NoImage, IsImage
<1>3. CASE MakeTemp(w)
  <2>1. entries' = entries
    BY <1>3 DEF MakeTemp
  <2> DEFINE t == [key |-> work[w].key, image |-> result[w], whole |-> FALSE]
  <2>2. TempOk(t)
    BY <1>1 DEF TempOk, IsEntry
  <2> HIDE DEF t
  <2>3. \/ Goes(w, "returned") /\ temps' = temps
        \/ Goes(w, "fill") /\ temps' = [temps EXCEPT ![w] = t]
    BY <1>3 DEF MakeTemp, t
  <2> QED
    BY <1>1, <2>1, <2>2, <2>3, SameEntries, WriteKeeps DEF Storing
<1>4. CASE Fill(w)
  <2>1. entries' = entries /\ Goes(w, "publish")
    BY <1>4 DEF Fill
  <2>4. PICK whole \in BOOLEAN : whole = (temps[w] # NoEntry)
    OBVIOUS
  <2> DEFINE t == [temps[w] EXCEPT !.whole = whole]
  <2>2. TempOk(t)
    <3>1. CASE temps[w] = NoEntry
      <4>1. NoEntry = [key |-> NoKey, image |-> NoImage, whole |-> FALSE]
        BY DEF NoEntry
      <4>2. whole = FALSE
        BY <2>4, <3>1
      <4>3. t = NoEntry
        <5>1. t = [[key |-> NoKey, image |-> NoImage, whole |-> FALSE] EXCEPT !.whole = FALSE]
          BY <3>1, <4>1, <4>2
        <5> HIDE DEF t
        <5>2. t = [key |-> NoKey, image |-> NoImage, whole |-> FALSE]
          BY <5>1
        <5> QED
          BY <4>1, <5>2
      <4> QED
        BY <4>3, <1>2
    <3>2. CASE temps[w] # NoEntry
      <4>1. IsEntry(temps[w]) /\ Shows(temps[w].image, temps[w].key)
        BY <1>1, <3>2 DEF TempOk
      <4>2. t.key = temps[w].key /\ t.image = temps[w].image /\ IsEntry(t)
        BY <2>4, <3>2, <4>1 DEF IsEntry
      <4> QED
        BY <4>1, <4>2 DEF TempOk
    <3> QED
      BY <3>1, <3>2
  <2>3. temps' = temps \/ temps' = [temps EXCEPT ![w] = t]
    BY <1>4, <2>4 DEF Fill
  <2> HIDE DEF t
  <2> QED
    BY <1>1, <2>1, <2>2, <2>3, SameEntries, WriteKeeps DEF Storing
<1>5. CASE Publish(w)
  <2>1. Goes(w, "returned") /\ temps' = [temps EXCEPT ![w] = NoEntry]
    BY <1>5 DEF Publish
  <2>2. entries' = [n \in Names |-> entries'[n]] /\ \A n \in Names : EntryOk(entries'[n])
    <3>1. CASE entries' = entries
      BY <3>1, SameEntries
    <3>2. CASE temps[w].whole /\ entries' = [entries EXCEPT ![Name(work[w].key)] = temps[w]]
      <4>1. temps[w] # NoEntry
        BY <3>2 DEF NoEntry
      <4>2. EntryOk(temps[w])
        BY <1>1, <3>2, <4>1 DEF TempOk, EntryOk
      <4>3. entries = [n \in Names |-> entries[n]] /\ \A n \in Names : EntryOk(entries[n])
        BY Facts
      <4> QED
        BY <3>2, <4>2, <4>3
    <3> QED
      BY <1>5, <3>1, <3>2 DEF Publish
  <2> QED
    BY <1>1, <1>2, <2>1, <2>2, WriteKeeps
<1> QED
  BY <1>3, <1>4, <1>5

LEMMA EndKeeps ==
  ASSUME IInv, NEW w \in Workers, Deliver(w) \/ Crash(w)
  PROVE  IInv'
<1>1. PICK at \in {"idle", "dead"} : work' = [work EXCEPT ![w] = [at |-> at, key |-> NoKey]]
  BY DEF Deliver, Crash, NoWork
<1>2. /\ dec' = [dec EXCEPT ![w] = NoDecode] /\ result' = [result EXCEPT ![w] = NoImage]
      /\ temps' = [temps EXCEPT ![w] = temps[w]] /\ entries' = entries
      /\ UNCHANGED <<source, newest>>
  BY Facts DEF Deliver, Crash, diskVars
<1> DEFINE k == [at |-> at, key |-> NoKey]
<1>3. WorkOk(w, NoDecode, k, NoImage, source, newest)
  BY <1>1 DEF WorkOk, IsDecode, IsImage, NoImage, Storing
<1>4. TempOk(temps[w])
  BY Facts
<1> HIDE DEF k
<1>5. work' = [work EXCEPT ![w] = k]
  BY <1>1 DEF k
<1> QED
  BY <1>2, <1>3, <1>4, <1>5, SameEntries, OneWorker

LEMMA ClearKeeps ==
  ASSUME IInv, UNCHANGED <<dec, work, result, source, newest>>,
         \/ \E w \in Workers : ClearTemp(w)
         \/ \E n \in Names : ClearEntry(n)
  PROVE  IInv'
<1>1. EntryOk(NoEntry) /\ TempOk(NoEntry)
  BY DEF EntryOk, TempOk, NoEntry, IsEntry, NoImage, IsImage
<1>2. CASE \E w \in Workers : ClearTemp(w)
  <2>1. PICK w \in Workers : ClearTemp(w)
    BY <1>2
  <2>2. temps' = [temps EXCEPT ![w] = NoEntry] /\ entries' = entries
    BY <2>1 DEF ClearTemp
  <2>3. \A v \in Workers : TempOk(temps'[v])
    BY <1>1, <2>2 DEF IInv
  <2> QED
    BY <2>2, <2>3 DEF IInv
<1>3. CASE \E n \in Names : ClearEntry(n)
  <2>1. PICK n \in Names : ClearEntry(n)
    BY <1>3
  <2>2. entries' = [entries EXCEPT ![n] = NoEntry] /\ temps' = temps
    BY <2>1 DEF ClearEntry
  <2>3. \A m \in Names : EntryOk(entries'[m])
    BY <1>1, <2>2 DEF IInv
  <2> QED
    BY <2>2, <2>3 DEF IInv
<1> QED
  BY <1>2, <1>3

(* The file of a path changes.  A key taken before has another version, or *)
(* is of another path, whose decodes do not notice.                        *)
LEMMA ChangeKeeps ==
  ASSUME IInv, NEW p \in Paths, NEW v, NEW n, newest' = n,
         n \in newest .. MaxVersion, v = 0 \/ (v = n /\ newest < n),
         source' = [source EXCEPT ![p] = v],
         dec' = [w \in Workers |-> dec'[w]],
         \A w \in Workers :
           /\ IsDecode(dec'[w]) /\ dec'[w].job = dec[w].job /\ dec'[w].at = dec[w].at
           /\ dec'[w].seen = dec[w].seen
           /\ dec[w].job.path # p => dec'[w].ver = dec[w].ver,
         UNCHANGED <<work, result, entries, temps>>
  PROVE  IInv'
<1>1. newest \in Nat /\ n \in Nat /\ newest \in 1 .. MaxVersion /\ n \in 1 .. MaxVersion
  BY VersionAssumption DEF IInv
<1>2. source' \in [Paths -> 0 .. n]
  BY <1>1 DEF IInv
<1>3. ASSUME NEW w \in Workers
      PROVE  WorkOk(w, dec'[w], work[w], result[w], source', n)
  <2>1. WorkOk(w, dec[w], work[w], result[w], source, newest)
    BY DEF IInv
  <2> DEFINE key == work[w].key
             job == dec[w].job
  <2>2. key # NoKey => KeyOf(job, key, newest)
    BY <2>1 DEF WorkOk
  <2>3. key # NoKey => KeyOf(job, key, n)
    BY <1>1, <2>2 DEF KeyOf
  <2>4. key # NoKey => key.path = job.path /\ job.path \in Paths
    <3>1. key # NoKey => job \in Jobs[w]
      BY <2>1 DEF WorkOk
    <3> QED
      BY <2>2, <3>1, JobsAssumption DEF KeyOf
  <2>5. ASSUME key # NoKey, source'[key.path] = key.version
        PROVE  source[key.path] = key.version /\ dec'[w].ver = dec[w].ver
    <3>1. key.version \in 1 .. newest
      BY <2>2, <2>5 DEF KeyOf
    <3>2. key.version # v
      BY <1>1, <3>1
    <3>3. key.path # p
      BY <2>4, <2>5, <3>2 DEF IInv
    <3> QED
      BY <2>4, <2>5, <3>3 DEF IInv
  <2> HIDE DEF key, job
  <2>6. /\ IsDecode(dec'[w]) /\ dec'[w].job = job /\ dec'[w].at = dec[w].at
        /\ dec'[w].seen = dec[w].seen
    BY DEF job
  <2> QED
    BY <2>1, <2>3, <2>5, <2>6 DEF WorkOk, key, job, Storing
<1>4. \A w \in Workers : WorkOk(w, dec'[w], work'[w], result'[w], source', newest')
  BY <1>3
<1> QED
  BY <1>1, <1>2, <1>4 DEF IInv

LEMMA ReopenKeeps ==
  ASSUME IInv, NEW p \in Paths, NEW keep \in BOOLEAN, Reopen(p, keep)
  PROVE  /\ dec' = [w \in Workers |-> dec'[w]]
         /\ \A w \in Workers :
              /\ IsDecode(dec'[w]) /\ dec'[w].job = dec[w].job /\ dec'[w].at = dec[w].at
              /\ dec'[w].seen = dec[w].seen
              /\ dec[w].job.path # p => dec'[w].ver = dec[w].ver
<1>1. dec' = [w \in Workers |-> dec'[w]]
  BY DEF Reopen
<1>2. ASSUME NEW w \in Workers
      PROVE  /\ IsDecode(dec'[w]) /\ dec'[w].job = dec[w].job /\ dec'[w].at = dec[w].at
             /\ dec'[w].seen = dec[w].seen
             /\ dec[w].job.path # p => dec'[w].ver = dec[w].ver
  <2>1. IsDecode(dec[w])
    BY Facts DEF WorkOk
  <2>2. CASE dec'[w] = dec[w]
    BY <2>1, <2>2
  <2>3. CASE dec'[w] = [dec[w] EXCEPT !.ver = newest'] /\ dec[w].job.path = p
    BY <2>1, <2>3 DEF IsDecode, NoDecode
  <2>4. CASE dec'[w] = [dec[w] EXCEPT !.linked = FALSE]
    BY <2>1, <2>4 DEF IsDecode, NoDecode
  <2>5. dec'[w] = IF dec[w].job # <<>> /\ dec[w].linked /\ dec[w].job.path = p
                  THEN IF keep THEN [dec[w] EXCEPT !.ver = newest'] ELSE [dec[w] EXCEPT !.linked = FALSE]
                  ELSE dec[w]
    BY DEF Reopen
  <2> QED
    BY <2>2, <2>3, <2>4, <2>5
<1> QED
  BY <1>1, <1>2

LEMMA WorldKeeps ==
  ASSUME IInv, NEW p \in Paths, Remove(p) \/ \E inPlace \in BOOLEAN : Replace(p, inPlace)
  PROVE  IInv'
<1>0. newest \in 1 .. MaxVersion /\ MaxVersion \in Nat
  BY VersionAssumption DEF IInv
<1>1. CASE Remove(p)
  <2>1. Reopen(p, FALSE) /\ newest' = newest /\ source' = [source EXCEPT ![p] = 0]
        /\ UNCHANGED <<work, result, entries, temps>>
    BY <1>1 DEF Remove, diskVars
  <2>2. newest \in newest .. MaxVersion
    BY <1>0
  <2> QED
    BY <2>1, <2>2, ReopenKeeps, ChangeKeeps
<1>2. ASSUME NEW inPlace \in BOOLEAN, Replace(p, inPlace) PROVE IInv'
  <2>1. Reopen(p, inPlace) /\ newest' = newest + 1 /\ source' = [source EXCEPT ![p] = newest + 1]
        /\ newest < MaxVersion /\ UNCHANGED <<work, result, entries, temps>>
    BY <1>2 DEF Replace, diskVars
  <2>2. newest + 1 \in newest .. MaxVersion /\ newest < newest + 1
    BY <1>0, <2>1
  <2> QED
    BY <2>1, <2>2, ReopenKeeps, ChangeKeeps
<1> QED
  BY <1>1, <1>2

-----------------------------------------------------------------------------
LEMMA InitIInv == Init => IInv
<1> SUFFICES ASSUME Init PROVE IInv
  OBVIOUS
<1>1. EntryOk(NoEntry) /\ TempOk(NoEntry)
  BY DEF EntryOk, TempOk, NoEntry, IsEntry, NoImage, IsImage
<1>2. \A w \in Workers : WorkOk(w, NoDecode, NoWork, NoImage, source, newest)
  BY DEF WorkOk, NoWork, IsDecode, IsImage, NoImage, Storing
<1>3. newest \in 1 .. MaxVersion /\ source \in [Paths -> 0 .. newest]
  BY VersionAssumption DEF Init
<1> QED
  BY <1>1, <1>2, <1>3 DEF IInv, Init

LEMMA NextKeeps == IInv /\ [Next]_vars => IInv'
<1> SUFFICES ASSUME IInv, [Next]_vars PROVE IInv'
  OBVIOUS
<1>1. ASSUME NEW w \in Workers, Worker(w) PROVE IInv'
  BY <1>1, BeginKeeps, CacheKeyKeeps, CacheReadKeeps, StartDecodeKeeps, DecodeSomeKeeps,
     FinishDecodeKeeps, CacheCheckKeeps, StoreKeeps, EndKeeps DEF Worker
<1>2. ASSUME NEW w \in Workers, RaiseStop(w) PROVE IInv'
  BY <1>2 DEF RaiseStop, IInv, diskVars
<1>3. ASSUME NEW w \in Workers, Crash(w) \/ ClearTemp(w) PROVE IInv'
  BY <1>3, EndKeeps, ClearKeeps DEF ClearTemp
<1>4. ASSUME NEW n \in Names, ClearEntry(n) PROVE IInv'
  BY <1>4, ClearKeeps DEF ClearEntry
<1>5. ASSUME NEW w \in Workers, NEW job \in Jobs[w], Take(w, job) PROVE IInv'
  BY <1>5, TakeKeeps
<1>6. ASSUME NEW p \in Paths, Remove(p) \/ \E inPlace \in BOOLEAN : Replace(p, inPlace) PROVE IInv'
  BY <1>6, WorldKeeps
<1>7. CASE UNCHANGED vars
  BY <1>7 DEF vars, diskVars, IInv
<1> QED
  BY <1>1, <1>2, <1>3, <1>4, <1>5, <1>6, <1>7 DEF Next

(* An entry is a whole thumbnail of the version its header names, and a    *)
(* hit is the wallpaper as it was when it was looked up: for any number of *)
(* workers, launches and changes of the wallpapers, and however the names  *)
(* of the entries collide.                                                 *)
THEOREM CacheIsSound == Spec => []EntrySound
<1>1. IInv => EntrySound
  <2> SUFFICES ASSUME IInv PROVE EntrySound
    OBVIOUS
  <2>1. ASSUME NEW n \in Names, entries[n] # NoEntry
        PROVE  /\ entries[n].whole
               /\ entries[n].image.path = entries[n].key.path
               /\ entries[n].image.target = entries[n].key.target
               /\ entries[n].image.seen = {entries[n].key.version}
    BY <2>1 DEF IInv, EntryOk, Shows
  <2>2. ASSUME NEW w \in Workers, result[w].hit
        PROVE  /\ result[w].seen = {work[w].key.version}
               /\ result[w].path = dec[w].job.path /\ result[w].target = dec[w].job.target
    <3>1. WorkOk(w, dec[w], work[w], result[w], source, newest)
      BY Facts
    <3>2. Shows(result[w], work[w].key) /\ KeyOf(dec[w].job, work[w].key, newest)
      BY <2>2, <3>1 DEF WorkOk
    <3> QED
      BY <3>2 DEF Shows, KeyOf
  <2> QED
    BY <2>1, <2>2 DEF EntrySound
<1> QED
  BY <1>1, InitIInv, NextKeeps, PTL DEF Spec

-----------------------------------------------------------------------------
(* What a worker holds, and what it has reserved, at every place.          *)

\* What alloc_target leaves in an image it has made.
TakenBy(job) == IF job.purpose = "preview" THEN {"mapping", "memfd"} ELSE {"pixels"}

WithFile ==
  {"png", "png_info", "png_reserve", "png_alloc", "png_rows",
   "jpeg", "jpeg_header", "jpeg_start", "jpeg_scans", "jpeg_output", "jpeg_alloc", "jpeg_rows",
   "webp", "webp_reserve", "webp_alloc", "webp_decode"}

Holds(d) ==
  CASE d.at \in {"png", "jpeg", "webp"} -> {"fp"}
    [] d.at \in {"png_info", "png_reserve", "png_alloc"} -> {"fp", "png", "buffers"}
    [] d.at = "png_rows" -> {"fp", "png", "buffers"} \union PngBuffers \union TakenBy(d.job)
    [] d.at \in {"jpeg_header", "jpeg_start", "jpeg_alloc"} -> {"fp", "stream", "cinfo"}
    [] d.at \in {"jpeg_scans", "jpeg_output"} -> {"fp", "stream", "cinfo", "coefficients"}
    [] d.at = "jpeg_rows" ->
         {"fp", "stream", "cinfo"} \union (IF MultiScan(d) THEN {"coefficients"} ELSE {})
           \union (IF Direct(d) THEN {} ELSE StreamBuffers) \union TakenBy(d.job)
    [] d.at \in {"webp_reserve", "webp_alloc"} -> {"fp", "data"}
    [] d.at = "webp_decode" -> {"fp", "data"} \union TakenBy(d.job)
    [] d.at = "done" -> TakenBy(d.job)
    [] OTHER -> {}

Reserves(d) ==
  /\ d.at \in {"png_alloc", "png_rows"} => d.granted = ImageMemory \union PngBuffers
  /\ d.at \in {"jpeg_start", "jpeg_scans", "jpeg_output", "jpeg_alloc", "jpeg_rows"} => d.granted = JpegPeak(d)
  /\ d.at \in {"webp_alloc", "webp_decode"} => d.granted = {"data", "working"} \union ImageMemory
  /\ d.at = "done" => ImageMemory \subseteq d.granted

\* How much of a JPEG of several scans has been read where.
ScansOk(d) ==
  /\ d.at \in {"jpeg_scans", "jpeg_output"} => MultiScan(d)
  /\ d.at = "jpeg_alloc" => ~MultiScan(d)
  /\ d.at \in {"jpeg_output", "jpeg_rows"} /\ MultiScan(d) =>
       ~d.inside /\ (d.scan = Len(d.file.scans) \/ (DcOnly(d) /\ DcExact(d)))

DecodeOk(d) ==
  /\ IsDecode(d)
  /\ d.at \in {"none", "open", "failed", "done"} \union WithFile
  /\ d.at # "none" => d.held = Holds(d)
  /\ Reserves(d) /\ ScansOk(d)

\* What a step of a decode leaves in the place of c.
Keeps(c, d) == DecodeOk(c) /\ c.job = d.job /\ c.at # "none"
Advanced(w) == \E c : Becomes(w, c) /\ Keeps(c, dec[w])

\* What is known of a decode by its file and job alone.
LEMMA SameFile ==
  ASSUME NEW c, NEW d, c.file = d.file, c.job = d.job
  PROVE  /\ MultiScan(c) = MultiScan(d) /\ Direct(c) = Direct(d) /\ DcOnly(c) = DcOnly(d)
         /\ JpegPeak(c) = JpegPeak(d) /\ OutputSize(c) = OutputSize(d)
BY DEF MultiScan, Direct, DcOnly, JpegPeak, TrialSize, OutputSize, Scale

LEMMA ReadIs ==
  ASSUME NEW d, IsDecode(d)
  PROVE  /\ IsDecode(Read(d)) /\ Read(d).at = d.at /\ Read(d).held = d.held /\ Read(d).job = d.job
         /\ Read(d).file = d.file /\ Read(d).granted = d.granted /\ Read(d).scan = d.scan
         /\ Read(d).inside = d.inside
BY DEF IsDecode, NoDecode, Read

\* A format that gives back all but the image, and the image if it is there.
LEMMA FailedKeeps ==
  ASSUME NEW c, NEW d, IsDecode(c), c.job = d.job, NEW frees, c.held \subseteq frees \union {"fp"}
  PROVE  Keeps(Failed(c, frees), d)
<1> DEFINE f == Failed(c, frees)
<1>1. IsDecode(f) /\ f.at = "failed" /\ f.held = c.held \ (frees \union {"fp"}) /\ f.job = c.job
  BY DEF IsDecode, NoDecode, Failed
<1> HIDE DEF f
<1>2. f.held = {}
  BY <1>1
<1>3. Holds(f) = {}
  BY <1>1 DEF Holds
<1> QED
  BY <1>1, <1>2, <1>3 DEF Keeps, DecodeOk, Reserves, ScansOk, WithFile, f

LEMMA DoneKeeps ==
  ASSUME NEW d, IsDecode(d), NEW frees, d.held \ (frees \union {"fp"}) = TakenBy(d.job),
         ImageMemory \subseteq d.granted
  PROVE  Keeps(Done(d, frees), d)
<1> DEFINE f == Done(d, frees)
<1>1. IsDecode(f) /\ f.at = "done" /\ f.held = TakenBy(d.job) /\ f.job = d.job /\ f.granted = d.granted
  BY DEF IsDecode, NoDecode, Done
<1> HIDE DEF f
<1>3. Holds(f) = TakenBy(d.job)
  BY <1>1 DEF Holds
<1> QED
  BY <1>1, <1>3 DEF Keeps, DecodeOk, Reserves, ScansOk, WithFile, f

LEMMA OpenKeepsHeld ==
  ASSUME NEW w, DecodeOk(dec[w]), OpenRegular(w)
  PROVE  Advanced(w)
<1> DEFINE d == dec[w]
<1>1. IsDecode(d) /\ d.at = "open" /\ d.held = {}
  BY DEF OpenRegular, DecodeOk, Holds
<1>2. CASE Becomes(w, Failed(d, {}))
  BY <1>1, <1>2, FailedKeeps DEF Advanced
<1>3. ASSUME NEW file \in Files,
             NEW opened, opened = [Read(d) EXCEPT !.held = {"fp"}, !.file = file],
             IF file.format = "other" THEN Becomes(w, Failed(opened, {}))
             ELSE Becomes(w, [opened EXCEPT !.at = file.format])
      PROVE  Advanced(w)
  <2>1. IsDecode(opened) /\ opened.job = d.job /\ opened.held = {"fp"}
    BY <1>1, <1>3, ReadIs DEF IsDecode, NoDecode
  <2>2. CASE file.format = "other"
    BY <1>3, <2>1, <2>2, FailedKeeps DEF Advanced
  <2>3. CASE file.format # "other"
    <3> DEFINE c == [opened EXCEPT !.at = file.format]
    <3>1. IsDecode(c) /\ c.at \in {"png", "jpeg", "webp"} /\ c.held = {"fp"} /\ c.job = d.job
      BY <2>1, <2>3, FormatAssumption DEF IsDecode, NoDecode
    <3>2. Becomes(w, c)
      BY <1>3, <2>3
    <3> HIDE DEF c
    <3>3. Holds(c) = {"fp"}
      BY <3>1 DEF Holds
    <3>4. Keeps(c, d)
      BY <3>1, <3>3 DEF Keeps, DecodeOk, Reserves, ScansOk, WithFile
    <3> QED
      BY <3>2, <3>4 DEF Advanced
  <2> QED
    BY <2>2, <2>3
<1> QED
  BY <1>2, <1>3 DEF OpenRegular

\* Whatever kind of image there is, freeing it leaves nothing of it.
LEMMA FreesImage ==
  ASSUME NEW c, c.held \intersect ImageMemory \in {{}, {"mapping", "memfd"}, {"pixels"}}
  PROVE  c.held \intersect ImageMemory \subseteq FreedImage(c)
BY DEF ImageMemory, FreedImage

LEMMA TakenIsImage ==
  ASSUME NEW d
  PROVE  /\ TakenBy(d.job) \in {{"mapping", "memfd"}, {"pixels"}}
         /\ TakenBy(d.job) \subseteq ImageMemory /\ HasImage(TakenBy(d.job))
         /\ \A image \in AllocTarget(d) :
              /\ image = {} \/ image = TakenBy(d.job)
              /\ HasImage(image) <=> image = TakenBy(d.job)
BY DEF TakenBy, ImageMemory, HasImage, AllocTarget

LEMMA PngJumpKeeps ==
  ASSUME NEW c, NEW d, IsDecode(c), c.job = d.job,
         c.held \intersect ImageMemory \in {{}, TakenBy(d.job)},
         c.held \subseteq {"fp", "png", "buffers"} \union PngBuffers \union ImageMemory
  PROVE  Keeps(PngJump(c), d)
<1>1. c.held \intersect ImageMemory \subseteq FreedImage(c)
  BY FreesImage, TakenIsImage
<1>2. c.held \subseteq (PngBuffers \union {"buffers", "png"} \union FreedImage(c)) \union {"fp"}
  BY <1>1
<1> QED
  BY <1>2, FailedKeeps DEF PngJump

LEMMA PngKeeps ==
  ASSUME NEW w, DecodeOk(dec[w]), PngCreate(w) \/ PngInfo(w) \/ PngReserve(w)
  PROVE  Advanced(w)
<1> DEFINE d == dec[w]
           r == Read(dec[w])
<1>1. IsDecode(d) /\ IsDecode(r) /\ r.at = d.at /\ r.held = d.held /\ r.job = d.job
  BY ReadIs DEF DecodeOk
<1>2. CASE PngCreate(w)
  <2>1. d.at = "png" /\ d.held = {"fp"}
    BY <1>2 DEF PngCreate, DecodeOk, Holds
  <2> DEFINE c == [d EXCEPT !.at = "png_info", !.held = @ \union {"png", "buffers"}]
  <2>2. IsDecode(c) /\ c.at = "png_info" /\ c.held = {"fp", "png", "buffers"} /\ c.job = d.job
    BY <1>1, <2>1 DEF IsDecode, NoDecode
  <2> HIDE DEF c
  <2>3. Keeps(c, d)
    BY <2>2 DEF Keeps, DecodeOk, Holds, Reserves, ScansOk, WithFile
  <2>4. Keeps(Failed(d, {}), d)
    BY <1>1, <2>1, FailedKeeps
  <2> QED
    BY <1>2, <2>3, <2>4 DEF PngCreate, Advanced, c
<1>3. CASE PngInfo(w)
  <2>1. d.at = "png_info" /\ d.held = {"fp", "png", "buffers"}
    BY <1>1, <1>3 DEF PngInfo, DecodeOk, Holds
  <2> HIDE DEF d, r
  <2> DEFINE c == [r EXCEPT !.at = "png_reserve"]
  <2>2. IsDecode(c) /\ c.at = "png_reserve" /\ c.held = {"fp", "png", "buffers"} /\ c.job = d.job
    BY <1>1, <2>1 DEF IsDecode, NoDecode
  <2> HIDE DEF c
  <2>3. Keeps(c, d)
    BY <2>2 DEF Keeps, DecodeOk, Holds, Reserves, ScansOk, WithFile
  <2>4. Keeps(Failed(r, {"buffers", "png"}), d)
    BY <1>1, <2>1, FailedKeeps
  <2>5. Keeps(PngJump(r), d)
    <3>1. r.held \intersect ImageMemory = {}
      BY <1>1, <2>1 DEF ImageMemory
    <3> QED
      BY <1>1, <2>1, <3>1, PngJumpKeeps
  <2> QED
    BY <1>3, <2>3, <2>4, <2>5 DEF PngInfo, Advanced, c, d, r
<1>4. CASE PngReserve(w)
  <2>1. d.at = "png_reserve" /\ d.held = {"fp", "png", "buffers"}
    BY <1>4 DEF PngReserve, DecodeOk, Holds
  <2> DEFINE c == [d EXCEPT !.at = "png_alloc", !.granted = ImageMemory \union PngBuffers]
  <2>2. IsDecode(c) /\ c.at = "png_alloc" /\ c.held = {"fp", "png", "buffers"} /\ c.job = d.job
        /\ c.granted = ImageMemory \union PngBuffers
    BY <1>1, <2>1 DEF IsDecode, NoDecode
  <2> HIDE DEF c
  <2>3. Keeps(c, d)
    BY <2>2 DEF Keeps, DecodeOk, Holds, Reserves, ScansOk, WithFile
  <2>4. Keeps(Failed(d, PngBuffers \union {"buffers", "png"}), d)
    BY <1>1, <2>1, FailedKeeps
  <2> QED
    BY <1>4, <2>3, <2>4 DEF PngReserve, Advanced, c
<1> QED
  BY <1>2, <1>3, <1>4

LEMMA PngAllocKeeps ==
  ASSUME NEW w, DecodeOk(dec[w]), PngAlloc(w)
  PROVE  Advanced(w)
<1> DEFINE d == dec[w]
<1>1. /\ IsDecode(d) /\ d.held = {"fp", "png", "buffers"}
      /\ d.granted = ImageMemory \union PngBuffers
  BY DEF PngAlloc, DecodeOk, Holds, Reserves
<1>2. ASSUME NEW image \in AllocTarget(d), NEW rows \in {{"rows"}, {}}, NEW columns \in {{"columns"}, {}},
             NEW got, got = [d EXCEPT !.held = @ \union image \union rows \union columns],
             columns # {} => HasImage(image) /\ rows # {},
             IF columns # {}
             THEN Becomes(w, [got EXCEPT !.at = "png_rows",
                                !.scaler = ScalerInit(d.file.size, d.job.target)])
             ELSE Becomes(w, PngJump(got))
      PROVE  Advanced(w)
  <2>1. IsDecode(got) /\ got.job = d.job /\ got.granted = d.granted
        /\ got.held = {"fp", "png", "buffers"} \union image \union rows \union columns
    BY <1>1, <1>2 DEF IsDecode, NoDecode
  <2>2. CASE columns = {}
    <3>1. image = {} \/ image = TakenBy(d.job)
      BY TakenIsImage
    <3>2. got.held \intersect ImageMemory = image
      BY <2>1, <2>2, <3>1, TakenIsImage DEF ImageMemory
    <3>3. got.held \subseteq {"fp", "png", "buffers"} \union PngBuffers \union ImageMemory
      BY <2>1, <2>2, <3>1, TakenIsImage DEF PngBuffers
    <3>4. Keeps(PngJump(got), d)
      BY <2>1, <3>1, <3>2, <3>3, PngJumpKeeps
    <3> QED
      BY <1>2, <2>2, <3>4 DEF Advanced
  <2>3. CASE columns # {}
    <3> DEFINE c == [got EXCEPT !.at = "png_rows", !.scaler = ScalerInit(d.file.size, d.job.target)]
    <3>1. image = TakenBy(d.job) /\ rows = {"rows"} /\ columns = {"columns"} /\ Becomes(w, c)
      BY <1>2, <2>3, TakenIsImage
    <3>2. IsDecode(c) /\ c.at = "png_rows" /\ c.job = d.job /\ c.granted = ImageMemory \union PngBuffers
          /\ c.held = {"fp", "png", "buffers"} \union PngBuffers \union TakenBy(d.job)
      BY <1>1, <2>1, <3>1 DEF IsDecode, NoDecode, PngBuffers
    <3> HIDE DEF c
    <3>3. Keeps(c, d)
      BY <3>2 DEF Keeps, DecodeOk, Holds, Reserves, ScansOk, WithFile
    <3> QED
      BY <3>1, <3>3 DEF Advanced
  <2> QED
    BY <2>2, <2>3
<1> QED
  BY <1>2 DEF PngAlloc

LEMMA PngRowsKeeps ==
  ASSUME NEW w, DecodeOk(dec[w]), PngRows(w)
  PROVE  Advanced(w)
<1> DEFINE d == dec[w]
<1>1. /\ IsDecode(d) /\ d.at = "png_rows" /\ d.granted = ImageMemory \union PngBuffers
      /\ d.held = {"fp", "png", "buffers"} \union PngBuffers \union TakenBy(d.job)
  BY DEF PngRows, DecodeOk, Holds, Reserves
<1>2. ASSUME NEW c, IsDecode(c), c.at = d.at, c.held = d.held, c.granted = d.granted, c.job = d.job
      PROVE  Keeps(c, d)
  BY <1>1, <1>2 DEF Keeps, DecodeOk, Holds, Reserves, ScansOk, WithFile
<1>3. Keeps(PngJump(d), d)
  <2>1. d.held \intersect ImageMemory = TakenBy(d.job)
    BY <1>1, TakenIsImage DEF PngBuffers, ImageMemory
  <2>2. d.held \subseteq {"fp", "png", "buffers"} \union PngBuffers \union ImageMemory
    BY <1>1, TakenIsImage
  <2> QED
    BY <1>1, <2>1, <2>2, PngJumpKeeps
<1>4. Keeps(Done(d, PngBuffers \union {"buffers", "png"}), d)
  <2>1. d.held \ ((PngBuffers \union {"buffers", "png"}) \union {"fp"}) = TakenBy(d.job)
    BY <1>1, TakenIsImage DEF PngBuffers, ImageMemory
  <2> QED
    BY <1>1, <2>1, DoneKeeps
<1>5. Keeps(PngRow(d), d)
  <2> DEFINE r == Read(d)
  <2>1. IsDecode(r) /\ r.at = d.at /\ r.held = d.held /\ r.job = d.job /\ r.granted = d.granted
    BY <1>1, ReadIs
  <2> HIDE DEF r
  <2> DEFINE read == [r EXCEPT !.y = @ + 1]
  <2>2. IsDecode(read) /\ read.at = d.at /\ read.held = d.held /\ read.job = d.job
        /\ read.granted = d.granted
    BY <2>1 DEF IsDecode, NoDecode
  <2> HIDE DEF read
  <2>3. LET c == [read EXCEPT !.scaler = Pushed(@, d.y)]
        IN  IsDecode(c) /\ c.at = d.at /\ c.held = d.held /\ c.granted = d.granted /\ c.job = d.job
    BY <2>2 DEF IsDecode, NoDecode
  <2>4. PngRow(d) \in {read, [read EXCEPT !.scaler = Pushed(@, d.y)]}
    BY DEF PngRow, read, r
  <2> QED
    BY <1>2, <2>2, <2>3, <2>4
<1>6. Keeps([d EXCEPT !.pass = @ + 1, !.y = 0], d)
  <2> DEFINE c == [d EXCEPT !.pass = @ + 1, !.y = 0]
  <2>1. IsDecode(c) /\ c.at = d.at /\ c.held = d.held /\ c.granted = d.granted /\ c.job = d.job
    BY <1>1 DEF IsDecode, NoDecode
  <2> QED
    BY <1>2, <2>1
<1> QED
  BY <1>3, <1>4, <1>5, <1>6 DEF PngRows, Advanced

LEMMA JpegFailsKeeps ==
  ASSUME NEW c, NEW d, IsDecode(c), c.job = d.job,
         c.held \intersect ImageMemory \in {{}, TakenBy(d.job)},
         c.held \subseteq {"fp", "stream", "cinfo", "coefficients"} \union StreamBuffers \union ImageMemory
  PROVE  Keeps(JpegFails(c), d)
<1>1. c.held \intersect ImageMemory \subseteq FreedImage(c)
  BY FreesImage, TakenIsImage
<1>2. c.held \subseteq
        (StreamBuffers \union {"cinfo", "coefficients", "stream"} \union FreedImage(c)) \union {"fp"}
  BY <1>1
<1> QED
  BY <1>2, FailedKeeps DEF JpegFails

\* The same, before there is a picture.
LEMMA JpegFailsEarly ==
  ASSUME NEW c, NEW d, IsDecode(c), c.job = d.job,
         c.held \subseteq {"fp", "stream", "cinfo", "coefficients"} \union StreamBuffers
  PROVE  Keeps(JpegFails(c), d)
<1>1. c.held \intersect ImageMemory = {}
  BY DEF StreamBuffers, ImageMemory
<1> QED
  BY <1>1, JpegFailsKeeps

LEMMA JpegKeeps ==
  ASSUME NEW w, DecodeOk(dec[w]), JpegCreate(w) \/ JpegReserve(w) \/ JpegStart(w)
  PROVE  Advanced(w)
<1> DEFINE d == dec[w]
           r == Read(dec[w])
<1>1. /\ IsDecode(d) /\ IsDecode(r) /\ r.at = d.at /\ r.held = d.held /\ r.job = d.job
      /\ r.file = d.file /\ r.granted = d.granted
  BY ReadIs DEF DecodeOk
<1>2. CASE JpegCreate(w)
  <2>1. d.at = "jpeg" /\ d.held = {"fp"}
    BY <1>2 DEF JpegCreate, DecodeOk, Holds
  <2> DEFINE c == [d EXCEPT !.at = "jpeg_header", !.held = @ \union {"stream", "cinfo"}]
  <2>2. IsDecode(c) /\ c.at = "jpeg_header" /\ c.held = {"fp", "stream", "cinfo"} /\ c.job = d.job
    BY <1>1, <2>1 DEF IsDecode, NoDecode
  <2> HIDE DEF c
  <2>3. Keeps(c, d)
    BY <2>2 DEF Keeps, DecodeOk, Holds, Reserves, ScansOk, WithFile
  <2>4. Keeps(Failed(d, {}), d)
    BY <1>1, <2>1, FailedKeeps
  <2> QED
    BY <1>2, <2>3, <2>4 DEF JpegCreate, Advanced, c
<1>3. CASE JpegReserve(w)
  <2>1. d.at = "jpeg_header" /\ d.held = {"fp", "stream", "cinfo"}
    BY <1>1, <1>3 DEF JpegReserve, DecodeOk, Holds
  <2> HIDE DEF d, r
  <2> DEFINE c == [r EXCEPT !.at = "jpeg_start", !.granted = JpegPeak(r)]
  <2>2. IsDecode(c) /\ c.at = "jpeg_start" /\ c.held = {"fp", "stream", "cinfo"} /\ c.job = d.job
        /\ c.granted = JpegPeak(r) /\ c.file = r.file /\ c.job = r.job
    BY <1>1, <2>1 DEF IsDecode, NoDecode
  <2> HIDE DEF c
  <2>3. c.granted = JpegPeak(c)
    BY <2>2, SameFile
  <2>4. Keeps(c, d)
    BY <2>2, <2>3 DEF Keeps, DecodeOk, Holds, Reserves, ScansOk, WithFile
  <2>5. Keeps(JpegFails(r), d)
    BY <1>1, <2>1, JpegFailsEarly
  <2> QED
    BY <1>3, <2>4, <2>5 DEF JpegReserve, Advanced, c, d, r
<1>4. CASE JpegStart(w)
  <2>1. d.at = "jpeg_start" /\ d.held = {"fp", "stream", "cinfo"} /\ d.granted = JpegPeak(d)
    BY <1>1, <1>4 DEF JpegStart, DecodeOk, Holds, Reserves
  <2> HIDE DEF d, r
  <2> DEFINE c == [r EXCEPT !.at = "jpeg_scans", !.scan = 1, !.inside = TRUE,
                             !.held = @ \union {"coefficients"}]
             s == [r EXCEPT !.at = "jpeg_alloc"]
  <2>2. IsDecode(c) /\ c.at = "jpeg_scans" /\ c.held = {"fp", "stream", "cinfo", "coefficients"}
        /\ c.job = d.job /\ c.granted = d.granted /\ c.file = d.file
    BY <1>1, <2>1 DEF IsDecode, NoDecode
  <2>3. IsDecode(s) /\ s.at = "jpeg_alloc" /\ s.held = {"fp", "stream", "cinfo"}
        /\ s.job = d.job /\ s.granted = d.granted /\ s.file = d.file
    BY <1>1, <2>1 DEF IsDecode, NoDecode
  <2> HIDE DEF c, s
  <2>4. MultiScan(r) = MultiScan(d) /\ MultiScan(c) = MultiScan(d) /\ MultiScan(s) = MultiScan(d)
        /\ c.granted = JpegPeak(c) /\ s.granted = JpegPeak(s)
    BY <1>1, <2>1, <2>2, <2>3, SameFile
  <2>5. MultiScan(r) => Keeps(c, d)
    BY <2>2, <2>4 DEF Keeps, DecodeOk, Holds, Reserves, ScansOk, WithFile
  <2>6. ~MultiScan(r) => Keeps(s, d)
    BY <2>3, <2>4 DEF Keeps, DecodeOk, Holds, Reserves, ScansOk, WithFile
  <2>7. Keeps(JpegFails(r), d)
    BY <1>1, <2>1, JpegFailsEarly
  <2>8. Becomes(w, JpegFails(r)) \/ Becomes(w, IF MultiScan(r) THEN c ELSE s)
    BY <1>4 DEF JpegStart, c, s, r
  <2> QED
    BY <2>5, <2>6, <2>7, <2>8 DEF Advanced, d
<1> QED
  BY <1>2, <1>3, <1>4

(* The loop over the scans is left at the end of the file, or at the end   *)
(* of a scan that leaves nothing of the DC to come.                        *)
LEMMA ScansKeep ==
  ASSUME NEW w, DecodeOk(dec[w]), ConsumeScans(w)
  PROVE  Advanced(w)
<1> DEFINE d == dec[w]
           r == Read(dec[w])
<1>1. /\ IsDecode(d) /\ IsDecode(r) /\ r.at = d.at /\ r.held = d.held /\ r.job = d.job
      /\ r.file = d.file /\ r.granted = d.granted /\ r.scan = d.scan /\ r.inside = d.inside
  BY ReadIs DEF DecodeOk
<1>2. d.at = "jpeg_scans"
  BY <1>1 DEF ConsumeScans
<1>3. d.held = {"fp", "stream", "cinfo", "coefficients"} /\ d.granted = JpegPeak(d) /\ MultiScan(d)
  BY <1>2 DEF DecodeOk, Holds, Reserves, ScansOk
<1> HIDE DEF d, r
<1>4. ASSUME NEW c, IsDecode(c), c.held = r.held, c.job = r.job, c.file = r.file, c.granted = r.granted,
             c.at \in {"jpeg_scans", "jpeg_output"},
             c.at = "jpeg_output" =>
               ~c.inside /\ (c.scan = Len(c.file.scans) \/ (DcOnly(c) /\ DcExact(c)))
      PROVE  Keeps(c, d)
  <2>1. MultiScan(c) /\ c.granted = JpegPeak(c)
    BY <1>1, <1>3, <1>4, SameFile
  <2> QED
    BY <1>1, <1>3, <1>4, <2>1 DEF Keeps, DecodeOk, Holds, Reserves, ScansOk, WithFile
<1>5. Keeps(JpegFails(r), d)
  BY <1>1, <1>3, JpegFailsEarly
<1>6. Keeps(Consumed(r), d)
  <2>1. CASE r.inside
    <3> DEFINE exact == DcOnly(r) /\ DcExact(r)
               c == [r EXCEPT !.inside = FALSE, !.at = IF DcOnly(r) /\ DcExact(r) THEN "jpeg_output" ELSE @]
    <3>1. /\ IsDecode(c) /\ c.held = r.held /\ c.job = r.job /\ c.file = r.file /\ c.granted = r.granted
          /\ c.scan = r.scan /\ c.inside = FALSE
          /\ c.at = IF DcOnly(r) /\ DcExact(r) THEN "jpeg_output" ELSE "jpeg_scans"
      BY <1>1, <1>2 DEF IsDecode, NoDecode
    <3>2. Consumed(r) = c
      BY <2>1 DEF Consumed
    <3> HIDE DEF c
    <3>3. DcOnly(c) = DcOnly(r) /\ DcExact(c) = DcExact(r)
      BY <3>1, SameFile DEF DcExact, Announced
    <3> QED
      BY <1>4, <3>1, <3>2, <3>3
  <2>2. CASE ~r.inside /\ r.scan = Len(r.file.scans)
    <3> DEFINE c == [r EXCEPT !.at = "jpeg_output"]
    <3>1. /\ IsDecode(c) /\ c.held = r.held /\ c.job = r.job /\ c.file = r.file /\ c.granted = r.granted
          /\ c.scan = r.scan /\ c.inside = r.inside /\ c.at = "jpeg_output"
      BY <1>1 DEF IsDecode, NoDecode
    <3>2. Consumed(r) = c
      BY <2>2 DEF Consumed
    <3> HIDE DEF c
    <3> QED
      BY <1>4, <2>2, <3>1, <3>2
  <2>3. CASE ~r.inside /\ r.scan # Len(r.file.scans)
    <3> DEFINE c == [r EXCEPT !.scan = @ + 1, !.inside = TRUE]
    <3>1. /\ IsDecode(c) /\ c.held = r.held /\ c.job = r.job /\ c.file = r.file /\ c.granted = r.granted
          /\ c.at = "jpeg_scans"
      BY <1>1, <1>2 DEF IsDecode, NoDecode
    <3>2. Consumed(r) = c
      BY <2>3 DEF Consumed
    <3> HIDE DEF c
    <3> QED
      BY <1>4, <3>1, <3>2
  <2> QED
    BY <2>1, <2>2, <2>3
<1> QED
  BY <1>5, <1>6 DEF ConsumeScans, Advanced, d, r

\* What JpegAlloc is given: the scans are over, if there were several.
LEMMA AtAlloc ==
  ASSUME NEW d, DecodeOk(d), d.at \in {"jpeg_output", "jpeg_alloc"}
  PROVE  /\ IsDecode(d) /\ d.granted = JpegPeak(d)
         /\ d.held = {"fp", "stream", "cinfo"} \union (IF MultiScan(d) THEN {"coefficients"} ELSE {})
         /\ MultiScan(d) => ~d.inside /\ (d.scan = Len(d.file.scans) \/ (DcOnly(d) /\ DcExact(d)))
BY DEF DecodeOk, Holds, Reserves, ScansOk

LEMMA JpegAllocKeeps ==
  ASSUME NEW w, DecodeOk(dec[w]), JpegAlloc(w)
  PROVE  Advanced(w)
<1> DEFINE d == dec[w]
<1>1. /\ IsDecode(d) /\ d.granted = JpegPeak(d)
      /\ d.held = {"fp", "stream", "cinfo"} \union (IF MultiScan(d) THEN {"coefficients"} ELSE {})
      /\ MultiScan(d) => ~d.inside /\ (d.scan = Len(d.file.scans) \/ (DcOnly(d) /\ DcExact(d)))
  BY AtAlloc DEF JpegAlloc
<1>2. CASE Becomes(w, JpegFails(d))
  BY <1>1, <1>2, JpegFailsEarly DEF Advanced
<1>3. ASSUME NEW image \in AllocTarget(d), NEW row \in {{"row"}, {}}, NEW columns \in {{"columns"}, {}},
             NEW got, got = [d EXCEPT !.held = @ \union image \union row \union columns],
             row # {} => HasImage(image) /\ ~Direct(d),
             columns # {} => row # {},
             IF HasImage(image) /\ (Direct(d) \/ columns # {})
             THEN Becomes(w, [got EXCEPT !.at = "jpeg_rows",
                    !.scaler = IF Direct(d) THEN @ ELSE ScalerInit(OutputSize(d), d.job.target)])
             ELSE Becomes(w, JpegFails(got))
      PROVE  Advanced(w)
  <2>1. /\ IsDecode(got) /\ got.job = d.job /\ got.granted = d.granted /\ got.file = d.file
        /\ got.held = d.held \union image \union row \union columns
        /\ got.scan = d.scan /\ got.inside = d.inside
    BY <1>1, <1>3 DEF IsDecode, NoDecode
  <2>2. image = {} \/ image = TakenBy(d.job)
    BY TakenIsImage
  <2>3. CASE Becomes(w, JpegFails(got))
    <3>1. got.held \intersect ImageMemory = image
      BY <1>1, <2>1, <2>2, TakenIsImage DEF ImageMemory
    <3>2. got.held \subseteq {"fp", "stream", "cinfo", "coefficients"} \union StreamBuffers \union ImageMemory
      BY <1>1, <2>1, <2>2, TakenIsImage DEF StreamBuffers
    <3>3. Keeps(JpegFails(got), d)
      BY <2>1, <2>2, <3>1, <3>2, JpegFailsKeeps
    <3> QED
      BY <2>3, <3>3 DEF Advanced
  <2>4. CASE HasImage(image) /\ (Direct(d) \/ columns # {})
    <3> DEFINE c == [got EXCEPT !.at = "jpeg_rows",
                       !.scaler = IF Direct(d) THEN @ ELSE ScalerInit(OutputSize(d), d.job.target)]
    <3>1. Becomes(w, c)
      BY <1>3, <2>4
    <3>2. /\ IsDecode(c) /\ c.at = "jpeg_rows" /\ c.job = d.job /\ c.granted = d.granted /\ c.file = d.file
          /\ c.held = got.held /\ c.scan = d.scan /\ c.inside = d.inside
      BY <2>1 DEF IsDecode, NoDecode
    <3> HIDE DEF c
    <3>3. /\ MultiScan(c) = MultiScan(d) /\ Direct(c) = Direct(d) /\ DcOnly(c) = DcOnly(d)
          /\ JpegPeak(c) = JpegPeak(d) /\ DcExact(c) = DcExact(d)
      BY <3>2, SameFile DEF DcExact, Announced
    <3>4. row \union columns = IF Direct(d) THEN {} ELSE StreamBuffers
      BY <1>3, <2>4 DEF StreamBuffers
    <3>5. image = TakenBy(d.job)
      BY <2>4, TakenIsImage
    <3>6. c.held = Holds(c)
      BY <1>1, <2>1, <3>2, <3>3, <3>4, <3>5 DEF Holds
    <3>7. ScansOk(c)
      BY <1>1, <3>2, <3>3 DEF ScansOk
    <3>8. Keeps(c, d)
      BY <1>1, <3>2, <3>3, <3>6, <3>7 DEF Keeps, DecodeOk, Reserves, WithFile
    <3> QED
      BY <3>1, <3>8 DEF Advanced
  <2> QED
    BY <1>3, <2>3, <2>4
<1> QED
  BY <1>2, <1>3 DEF JpegAlloc

LEMMA JpegRowsKeeps ==
  ASSUME NEW w, DecodeOk(dec[w]), JpegRows(w)
  PROVE  Advanced(w)
<1> DEFINE d == dec[w]
           r == Read(d)
           read == [r EXCEPT !.y = @ + 1]
<1>1. /\ IsDecode(d) /\ d.at = "jpeg_rows" /\ d.granted = JpegPeak(d)
      /\ d.held = {"fp", "stream", "cinfo"} \union (IF MultiScan(d) THEN {"coefficients"} ELSE {})
                    \union (IF Direct(d) THEN {} ELSE StreamBuffers) \union TakenBy(d.job)
  BY DEF JpegRows, DecodeOk, Holds, Reserves
<1>2. ASSUME NEW c, IsDecode(c), c.at = d.at, c.held = d.held, c.granted = d.granted, c.job = d.job,
             c.file = d.file, c.scan = d.scan, c.inside = d.inside
      PROVE  Keeps(c, d)
  <2>1. /\ MultiScan(c) = MultiScan(d) /\ Direct(c) = Direct(d) /\ DcOnly(c) = DcOnly(d)
        /\ JpegPeak(c) = JpegPeak(d) /\ DcExact(c) = DcExact(d)
    BY <1>2, SameFile DEF DcExact, Announced
  <2>2. c.held = Holds(c)
    BY <1>1, <1>2, <2>1 DEF Holds
  <2>3. ScansOk(c)
    BY <1>1, <1>2, <2>1 DEF DecodeOk, ScansOk
  <2> QED
    BY <1>1, <1>2, <2>1, <2>2, <2>3 DEF Keeps, DecodeOk, Reserves, WithFile
<1>3. Keeps(JpegFails(d), d)
  <2>1. d.held \intersect ImageMemory = TakenBy(d.job)
    BY <1>1, TakenIsImage DEF StreamBuffers, ImageMemory
  <2>2. d.held \subseteq {"fp", "stream", "cinfo", "coefficients"} \union StreamBuffers \union ImageMemory
    BY <1>1, TakenIsImage
  <2> QED
    BY <1>1, <2>1, <2>2, JpegFailsKeeps
<1>4. Keeps(Done(d, StreamBuffers \union {"cinfo", "coefficients", "stream"}), d)
  <2>1. d.held \ ((StreamBuffers \union {"cinfo", "coefficients", "stream"}) \union {"fp"}) = TakenBy(d.job)
    BY <1>1, TakenIsImage DEF StreamBuffers, ImageMemory
  <2>2. ImageMemory \subseteq d.granted
    BY <1>1 DEF JpegPeak
  <2> QED
    BY <1>1, <2>1, <2>2, DoneKeeps
<1>5. IsDecode(r) /\ r.at = d.at /\ r.held = d.held /\ r.job = d.job /\ r.file = d.file
      /\ r.granted = d.granted /\ r.scan = d.scan /\ r.inside = d.inside
  BY <1>1, ReadIs
<1> HIDE DEF r
<1>6. IsDecode(read) /\ read.at = d.at /\ read.held = d.held /\ read.job = d.job /\ read.file = d.file
      /\ read.granted = d.granted /\ read.scan = d.scan /\ read.inside = d.inside
  BY <1>5 DEF IsDecode, NoDecode
<1> HIDE DEF read
<1>7. Keeps(read, d)
  BY <1>2, <1>6
<1>8. Keeps([read EXCEPT !.scaler = Pushed(@, d.y)], d)
  <2> DEFINE c == [read EXCEPT !.scaler = Pushed(@, d.y)]
  <2>1. IsDecode(c) /\ c.at = d.at /\ c.held = d.held /\ c.job = d.job /\ c.file = d.file
        /\ c.granted = d.granted /\ c.scan = d.scan /\ c.inside = d.inside
    BY <1>6 DEF IsDecode, NoDecode
  <2> QED
    BY <1>2, <2>1
<1>9. \/ Becomes(w, JpegFails(d)) \/ Becomes(w, read)
      \/ Becomes(w, [read EXCEPT !.scaler = Pushed(@, d.y)])
      \/ Becomes(w, Done(d, StreamBuffers \union {"cinfo", "coefficients", "stream"}))
  BY DEF JpegRows, read, r
<1> QED
  BY <1>3, <1>4, <1>7, <1>8, <1>9 DEF Advanced

LEMMA WebpKeeps ==
  ASSUME NEW w, DecodeOk(dec[w]), WebpRead(w) \/ WebpReserve(w) \/ WebpAlloc(w) \/ WebpDecode(w)
  PROVE  Advanced(w)
<1> DEFINE d == dec[w]
           r == Read(dec[w])
<1>1. /\ IsDecode(d) /\ IsDecode(r) /\ r.at = d.at /\ r.held = d.held /\ r.job = d.job
  BY ReadIs DEF DecodeOk
<1>2. CASE WebpRead(w)
  <2>1. d.at = "webp" /\ d.held = {"fp"}
    BY <1>1, <1>2 DEF WebpRead, DecodeOk, Holds
  <2> HIDE DEF d, r
  <2> DEFINE c == [r EXCEPT !.at = "webp_reserve", !.held = @ \union {"data"}]
  <2>2. IsDecode(c) /\ c.at = "webp_reserve" /\ c.held = {"fp", "data"} /\ c.job = d.job
    BY <1>1, <2>1 DEF IsDecode, NoDecode
  <2> HIDE DEF c
  <2>3. Keeps(c, d)
    BY <2>2 DEF Keeps, DecodeOk, Holds, Reserves, ScansOk, WithFile
  <2>4. Keeps(Failed(r, {}), d)
    BY <1>1, <2>1, FailedKeeps
  <2> QED
    BY <1>2, <2>3, <2>4 DEF WebpRead, Advanced, c, d, r
<1>3. CASE WebpReserve(w)
  <2>1. d.at = "webp_reserve" /\ d.held = {"fp", "data"}
    BY <1>3 DEF WebpReserve, DecodeOk, Holds
  <2> DEFINE c == [d EXCEPT !.at = "webp_alloc", !.granted = {"data", "working"} \union ImageMemory]
  <2>2. IsDecode(c) /\ c.at = "webp_alloc" /\ c.held = {"fp", "data"} /\ c.job = d.job
        /\ c.granted = {"data", "working"} \union ImageMemory
    BY <1>1, <2>1 DEF IsDecode, NoDecode
  <2> HIDE DEF c
  <2>3. Keeps(c, d)
    BY <2>2 DEF Keeps, DecodeOk, Holds, Reserves, ScansOk, WithFile
  <2>4. Keeps(Failed(d, {"data"}), d)
    BY <1>1, <2>1, FailedKeeps
  <2> QED
    BY <1>3, <2>3, <2>4 DEF WebpReserve, Advanced, c
<1>4. CASE WebpAlloc(w)
  <2>1. d.at = "webp_alloc" /\ d.held = {"fp", "data"} /\ d.granted = {"data", "working"} \union ImageMemory
    BY <1>4 DEF WebpAlloc, DecodeOk, Holds, Reserves
  <2>2. PICK image \in AllocTarget(d) :
          LET got == [d EXCEPT !.held = @ \union image]
          IN  Becomes(w, IF HasImage(image) THEN [got EXCEPT !.at = "webp_decode"]
                         ELSE Failed(got, {"data"}))
    BY <1>4 DEF WebpAlloc
  <2> DEFINE got == [d EXCEPT !.held = @ \union image]
             c == [got EXCEPT !.at = "webp_decode"]
  <2>3. IsDecode(got) /\ got.held = {"fp", "data"} \union image /\ got.job = d.job
        /\ got.granted = d.granted
    BY <1>1, <2>1 DEF IsDecode, NoDecode
  <2>4. IF HasImage(image) THEN Becomes(w, c) ELSE Becomes(w, Failed(got, {"data"}))
    BY <2>2
  <2> HIDE DEF got
  <2>5. CASE HasImage(image)
    <3>1. IsDecode(c) /\ c.at = "webp_decode" /\ c.held = {"fp", "data"} \union TakenBy(d.job)
          /\ c.job = d.job /\ c.granted = d.granted
      BY <2>3, <2>5, TakenIsImage DEF IsDecode, NoDecode
    <3> HIDE DEF c
    <3>2. Keeps(c, d)
      BY <2>1, <3>1 DEF Keeps, DecodeOk, Holds, Reserves, ScansOk, WithFile
    <3> QED
      BY <2>4, <2>5, <3>2 DEF Advanced
  <2>6. CASE ~HasImage(image)
    <3>1. got.held \subseteq {"data"} \union {"fp"}
      BY <2>3, <2>6, TakenIsImage
    <3>2. Keeps(Failed(got, {"data"}), d)
      BY <2>3, <3>1, FailedKeeps
    <3> QED
      BY <2>4, <2>6, <3>2 DEF Advanced
  <2> QED
    BY <2>5, <2>6
<1>5. CASE WebpDecode(w)
  <2>1. d.at = "webp_decode" /\ d.held = {"fp", "data"} \union TakenBy(d.job) /\ ImageMemory \subseteq d.granted
    BY <1>5 DEF WebpDecode, DecodeOk, Holds, Reserves
  <2>2. d.held \intersect ImageMemory = TakenBy(d.job)
    BY <2>1, TakenIsImage DEF ImageMemory
  <2>3. d.held \subseteq ({"data"} \union FreedImage(d)) \union {"fp"}
    <3>1. TakenBy(d.job) \subseteq FreedImage(d)
      BY <2>2, TakenIsImage, FreesImage
    <3> QED
      BY <2>1, <3>1
  <2>4. Keeps(Failed(d, {"data"} \union FreedImage(d)), d)
    BY <1>1, <2>3, FailedKeeps
  <2>5. d.held \ ({"data"} \union {"fp"}) = TakenBy(d.job)
    BY <2>1, TakenIsImage DEF ImageMemory
  <2>6. Keeps(Done(d, {"data"}), d)
    BY <1>1, <2>1, <2>5, DoneKeeps
  <2> QED
    BY <1>5, <2>4, <2>6 DEF WebpDecode, Advanced
<1> QED
  BY <1>2, <1>3, <1>4, <1>5

LEMMA StepKeeps ==
  ASSUME NEW w, DecodeOk(dec[w]), DecodeStep(w)
  PROVE  Advanced(w)
BY OpenKeepsHeld, PngKeeps, PngAllocKeeps, PngRowsKeeps, JpegKeeps, ScansKeep, JpegAllocKeeps,
   JpegRowsKeeps, WebpKeeps DEF DecodeStep

-----------------------------------------------------------------------------
(* The jobs: what one holds besides its decode.                            *)

BeforeDecode == {"idle", "begin", "key", "lookup", "decode", "dead"}

\* A job at place at, with decode d, result r and temporary file t.
JobOk(d, at, r, t) ==
  /\ DecodeOk(d)
  /\ at \in BeforeDecode => d.held = {} /\ r = NoImage
  /\ at = "decoding" => d.at # "none" /\ r = NoImage
  /\ at \in {"check"} \union Storing => r # NoImage /\ ~r.hit /\ d.held = TakenBy(d.job)
  /\ at = "returned" => d.held = IF r = NoImage \/ r.hit THEN {} ELSE TakenBy(d.job)
  /\ at \notin {"dead", "fill", "publish"} => t = NoEntry

JobsOk == \A w \in Workers : JobOk(dec[w], work[w].at, result[w], temps[w])

LEMMA OneJob ==
  ASSUME JobsOk, NEW w \in Workers,
         \A v \in Workers : v # w =>
           dec'[v] = dec[v] /\ work'[v] = work[v] /\ result'[v] = result[v] /\ temps'[v] = temps[v],
         JobOk(dec'[w], work'[w].at, result'[w], temps'[w])
  PROVE  JobsOk'
<1>1. ASSUME NEW v \in Workers PROVE JobOk(dec'[v], work'[v].at, result'[v], temps'[v])
  <2>1. CASE v = w
    BY <2>1
  <2>2. CASE v # w
    BY <2>2 DEF JobsOk
  <2> QED
    BY <2>1, <2>2
<1> QED
  BY <1>1 DEF JobsOk

\* Going to another place changes that of one job.
LEMMA GoesTo ==
  ASSUME IInv, NEW w \in Workers, NEW at, Goes(w, at)
  PROVE  work'[w].at = at /\ \A v \in Workers : v # w => work'[v] = work[v]
<1>1. work[w] = [at |-> work[w].at, key |-> work[w].key] /\ work = [v \in Workers |-> work[v]]
  BY Facts DEF WorkOk, IInv
<1>2. [work[w] EXCEPT !.at = at].at = at
  BY <1>1
<1> QED
  BY <1>1, <1>2 DEF Goes

LEMMA BecomesOne ==
  ASSUME IInv, NEW w \in Workers, NEW c, Becomes(w, c)
  PROVE  dec'[w] = c /\ \A v \in Workers : v # w => dec'[v] = dec[v]
BY DEF Becomes, IInv

LEMMA NoDecodeOk ==
  ASSUME NEW job, NEW held
  PROVE  LET d == [NoDecode EXCEPT !.job = job, !.held = held]
         IN  DecodeOk(d) /\ d.held = held /\ d.job = job /\ d.at = "none"
<1> DEFINE d == [NoDecode EXCEPT !.job = job, !.held = held]
<1>1. IsDecode(d) /\ d.at = "none" /\ d.held = held /\ d.job = job
  BY DEF IsDecode, NoDecode
<1> HIDE DEF d
<1>2. DecodeOk(d)
  BY <1>1 DEF DecodeOk, Reserves, ScansOk
<1> QED
  BY <1>1, <1>2 DEF d

LEMMA NoDecodeHolds == DecodeOk(NoDecode) /\ NoDecode.held = {} /\ NoDecode.at = "none"
BY DEF DecodeOk, IsDecode, NoDecode, Reserves, ScansOk

LEMMA TakeOk ==
  ASSUME IInv, JobsOk, NEW w \in Workers, NEW job \in Jobs[w], Take(w, job)
  PROVE  JobsOk'
<1> DEFINE d == [NoDecode EXCEPT !.job = job]
<1>1. DecodeOk(d) /\ d.held = {}
  <2>1. IsDecode(d) /\ d.at = "none" /\ d.held = {}
    BY DEF IsDecode, NoDecode
  <2> HIDE DEF d
  <2> QED
    BY <2>1 DEF DecodeOk, Reserves, ScansOk
<1>2. JobOk(dec[w], "idle", result[w], temps[w])
  BY DEF JobsOk, Take
<1>3. dec'[w] = d /\ work'[w].at = "begin" /\ result'[w] = result[w] /\ temps'[w] = temps[w]
  BY DEF Take, IInv, diskVars
<1>4. \A v \in Workers : v # w =>
        dec'[v] = dec[v] /\ work'[v] = work[v] /\ result'[v] = result[v] /\ temps'[v] = temps[v]
  BY DEF Take, IInv, diskVars
<1> HIDE DEF d
<1>5. JobOk(dec'[w], work'[w].at, result'[w], temps'[w])
  BY <1>1, <1>2, <1>3 DEF JobOk, BeforeDecode, Storing
<1> QED
  BY <1>4, <1>5, OneJob

\* The steps to the decode: nothing is held, and nothing comes of it but a hit.
LEMMA EarlyOk ==
  ASSUME IInv, JobsOk, NEW w \in Workers, Begin(w) \/ CacheKey(w) \/ CacheRead(w)
  PROVE  JobsOk'
<1>1. JobOk(dec[w], work[w].at, result[w], temps[w]) /\ work[w].at \in {"begin", "key", "lookup"}
  BY DEF JobsOk, Begin, CacheKey, CacheRead
<1>2. dec' = dec /\ temps' = temps
  BY DEF Begin, CacheKey, CacheRead, diskVars
<1>3. ASSUME result' = result, work'[w].at \in {"returned", "key", "lookup", "decode"},
             \A v \in Workers : v # w => work'[v] = work[v]
      PROVE  JobsOk'
  <2>1. JobOk(dec'[w], work'[w].at, result'[w], temps'[w])
    BY <1>1, <1>2, <1>3 DEF JobOk, BeforeDecode, Storing
  <2> QED
    BY <1>2, <1>3, <2>1, OneJob
<1>4. CASE Begin(w)
  <2>1. PICK at \in {"returned", "key", "decode"} : Goes(w, at)
    BY <1>4 DEF Begin
  <2> QED
    BY <1>3, <1>4, <2>1, GoesTo DEF Begin
<1>5. CASE CacheKey(w)
  <2>1. CASE Goes(w, "decode")
    BY <1>3, <1>5, <2>1, GoesTo DEF CacheKey
  <2>2. ASSUME NEW key, work' = [work EXCEPT ![w] = [at |-> "lookup", key |-> key]] PROVE JobsOk'
    <3>1. work'[w].at = "lookup" /\ \A v \in Workers : v # w => work'[v] = work[v]
      BY <2>2 DEF IInv
    <3> QED
      BY <1>3, <1>5, <3>1 DEF CacheKey
  <2> QED
    BY <1>5, <2>1, <2>2 DEF CacheKey
<1>6. CASE CacheRead(w)
  <2>1. CASE Goes(w, "decode") /\ UNCHANGED result
    BY <1>3, <2>1, GoesTo
  <2>2. ASSUME Goes(w, "returned"), result' = result PROVE JobsOk'
    BY <1>3, <2>2, GoesTo
  <2>3. ASSUME Goes(w, "returned"), Readable(entries[Name(work[w].key)], work[w].key),
               result' = [result EXCEPT ![w] = [entries[Name(work[w].key)].image EXCEPT !.hit = TRUE]]
        PROVE  JobsOk'
    <3> DEFINE e == entries[Name(work[w].key)]
               r == [e.image EXCEPT !.hit = TRUE]
    <3>1. work[w].key # NoKey /\ dec[w].job \in Jobs[w]
      BY <1>6, Facts DEF CacheRead, WorkOk
    <3>2. IsImage(e.image)
      BY <3>1, NameKnown, Facts DEF EntryOk, IsEntry
    <3>3. r.hit
      <4> HIDE DEF e
      <4> QED
        BY <3>2 DEF IsImage
    <3>4. result'[w] = r /\ \A v \in Workers : v # w => result'[v] = result[v]
      BY <2>3 DEF IInv
    <3>5. work'[w].at = "returned" /\ \A v \in Workers : v # w => work'[v] = work[v]
      BY <2>3, GoesTo
    <3> HIDE DEF r
    <3>6. JobOk(dec'[w], work'[w].at, result'[w], temps'[w])
      BY <1>1, <1>2, <3>3, <3>4, <3>5 DEF JobOk, BeforeDecode, Storing
    <3> QED
      BY <1>2, <3>4, <3>5, <3>6, OneJob
  <2> QED
    BY <1>6, <2>1, <2>2, <2>3 DEF CacheRead
<1> QED
  BY <1>4, <1>5, <1>6

\* A step of the decode itself leaves the result and the disk alone.
LEMMA DecodingOk ==
  ASSUME IInv, JobsOk, NEW w \in Workers, NEW c, Becomes(w, c), Keeps(c, dec[w]),
         work'[w].at = "decoding", \A v \in Workers : v # w => work'[v] = work[v],
         work[w].at \in {"decode", "decoding"}, result' = result, temps' = temps
  PROVE  JobsOk'
<1>1. JobOk(dec[w], work[w].at, result[w], temps[w])
  BY DEF JobsOk
<1>2. JobOk(dec'[w], work'[w].at, result'[w], temps'[w])
  BY <1>1, BecomesOne DEF JobOk, Keeps, BeforeDecode, Storing
<1> QED
  BY <1>2, BecomesOne, OneJob

LEMMA StartDecodeOk ==
  ASSUME IInv, JobsOk, NEW w \in Workers, StartDecode(w)
  PROVE  JobsOk'
<1> DEFINE d == dec[w]
           at == source[d.job.path]
           opened == [d EXCEPT !.at = "open", !.ver = at, !.linked = TRUE]
<1>1. IsDecode(d) /\ d.held = {} /\ work[w].at = "decode"
  BY DEF StartDecode, JobsOk, JobOk, DecodeOk, BeforeDecode
<1>2. IsDecode(opened) /\ opened.at = "open" /\ opened.held = {} /\ opened.job = d.job
  BY <1>1 DEF IsDecode, NoDecode
<1> HIDE DEF opened
<1>3. Keeps(opened, d)
  BY <1>2 DEF Keeps, DecodeOk, Holds, Reserves, ScansOk, WithFile
<1>4. Keeps(Failed(opened, {}), d)
  BY <1>2, FailedKeeps
<1>5. Keeps([opened EXCEPT !.at = "done", !.seen = {at}, !.granted = ImageMemory,
               !.held = CHOOSE image \in AllocTarget(opened) : image # {}], d)
  <2> DEFINE held == CHOOSE image \in AllocTarget(opened) : image # {}
             c == [opened EXCEPT !.at = "done", !.seen = {at}, !.granted = ImageMemory, !.held = held]
  <2>1. held = TakenBy(d.job)
    <3>1. \E image \in AllocTarget(opened) : image # {}
      BY DEF AllocTarget
    <3>2. held \in AllocTarget(opened) /\ held # {}
      BY <3>1
    <3> HIDE DEF held
    <3> QED
      BY <1>2, <3>2, TakenIsImage
  <2> HIDE DEF held, at
  <2>2. IsDecode(c) /\ c.at = "done" /\ c.granted = ImageMemory /\ c.held = held /\ c.job = d.job
    BY <1>2 DEF IsDecode, NoDecode
  <2> HIDE DEF c
  <2>3. Keeps(c, d)
    BY <2>1, <2>2 DEF Keeps, DecodeOk, Holds, Reserves, ScansOk, WithFile
  <2> QED
    BY <2>3 DEF c, held
<1>6. \E c : Becomes(w, c) /\ Keeps(c, d)
  BY <1>3, <1>4, <1>5 DEF StartDecode, opened
<1>7. work'[w].at = "decoding" /\ (\A v \in Workers : v # w => work'[v] = work[v])
      /\ result' = result /\ temps' = temps
  BY GoesTo DEF StartDecode, diskVars
<1> QED
  BY <1>1, <1>6, <1>7, DecodingOk

LEMMA DecodeSomeOk ==
  ASSUME IInv, JobsOk, NEW w \in Workers, DecodeSome(w)
  PROVE  JobsOk'
<1>1. DecodeOk(dec[w])
  BY DEF JobsOk, JobOk
<1>2. PICK c : Becomes(w, c) /\ Keeps(c, dec[w])
  BY <1>1, StepKeeps DEF DecodeSome, Advanced
<1> QED
  BY <1>2, DecodingOk DEF DecodeSome, diskVars

LEMMA FinishDecodeOk ==
  ASSUME IInv, JobsOk, NEW w \in Workers, FinishDecode(w)
  PROVE  JobsOk'
<1> DEFINE d == dec[w]
           ok == d.at = "done" /\ ~stop[w]
           held == IF d.at = "done" /\ stop[w] THEN d.held \ FreedImage(d) ELSE d.held
           c == [NoDecode EXCEPT !.job = d.job, !.held = held]
           at == IF ~ok \/ work[w].key = NoKey THEN "returned" ELSE "check"
           r == IF ok THEN Decoded(d) ELSE result[w]
<1>1. JobOk(d, "decoding", result[w], temps[w])
  BY DEF JobsOk, FinishDecode
<1>2. Becomes(w, c) /\ Goes(w, at) /\ temps' = temps
      /\ result' = (IF ok THEN [result EXCEPT ![w] = Decoded(d)] ELSE result)
      /\ d.at \in {"done", "failed"}
  BY DEF FinishDecode, diskVars
<1>3. d.held = IF d.at = "done" THEN TakenBy(d.job) ELSE {}
  BY <1>1, <1>2 DEF JobOk, DecodeOk, Holds
<1>4. held = IF ok THEN TakenBy(d.job) ELSE {}
  <2>1. CASE d.at = "failed"
    BY <1>3, <2>1
  <2>2. CASE d.at = "done" /\ ~stop[w]
    BY <1>3, <2>2
  <2>3. CASE d.at = "done" /\ stop[w]
    <3>1. d.held = TakenBy(d.job)
      BY <1>3, <2>3
    <3>2. d.held \intersect ImageMemory = TakenBy(d.job)
      BY <3>1, TakenIsImage
    <3>3. TakenBy(d.job) \subseteq FreedImage(d)
      BY <3>2, TakenIsImage, FreesImage
    <3>4. held = {}
      BY <2>3, <3>1, <3>3
    <3> QED
      BY <2>3, <3>4
  <2> QED
    BY <1>2, <2>1, <2>2, <2>3
<1>5. DecodeOk(c) /\ c.held = held /\ c.job = d.job
  <2> HIDE DEF held
  <2> QED
    BY NoDecodeOk
<1>6. ok => Decoded(d) # NoImage /\ ~Decoded(d).hit
  <2>1. ok => d.seen # {}
    BY Facts DEF FinishDecode, WorkOk
  <2>2. Decoded(d).seen = d.seen /\ ~Decoded(d).hit /\ NoImage.seen = {}
    BY DEF Decoded, NoImage
  <2> QED
    BY <2>1, <2>2
<1>7. result'[w] = r /\ \A v \in Workers : v # w => result'[v] = result[v]
  <2>1. result = [v \in Workers |-> result[v]]
    BY DEF IInv
  <2> HIDE DEF ok
  <2> QED
    BY <1>2, <2>1
<1>8. result[w] = NoImage /\ temps[w] = NoEntry
  BY <1>1 DEF JobOk, BeforeDecode
<1>9. JobOk(c, at, r, temps[w])
  <2>1. CASE ok
    <3>1. held = TakenBy(d.job) /\ r = Decoded(d) /\ at \in {"returned", "check"}
      BY <1>4, <2>1
    <3> HIDE DEF c, held, at, r, ok
    <3> QED
      BY <1>5, <1>6, <1>8, <2>1, <3>1 DEF JobOk, BeforeDecode, Storing
  <2>2. CASE ~ok
    <3>1. held = {} /\ r = NoImage /\ at = "returned"
      BY <1>4, <1>8, <2>2
    <3> HIDE DEF c, held, at, r, ok
    <3> QED
      BY <1>5, <1>8, <3>1 DEF JobOk, BeforeDecode, Storing
  <2> QED
    BY <2>1, <2>2
<1> HIDE DEF c, r, at
<1>10. JobOk(dec'[w], work'[w].at, result'[w], temps'[w])
  BY <1>2, <1>7, <1>9, BecomesOne, GoesTo
<1> QED
  BY <1>2, <1>7, <1>10, BecomesOne, GoesTo, OneJob

\* matuwall_cache_write: the file is made, filled, and given away or removed.
LEMMA StoreOk ==
  ASSUME IInv, JobsOk, NEW w \in Workers, CacheCheck(w) \/ MakeTemp(w) \/ Fill(w) \/ Publish(w)
  PROVE  JobsOk'
<1>1. /\ JobOk(dec[w], work[w].at, result[w], temps[w])
      /\ work[w].at \in {"check"} \union Storing
  BY DEF JobsOk, CacheCheck, MakeTemp, Fill, Publish, Storing
<1>2. dec' = dec /\ result' = result
  BY DEF CacheCheck, MakeTemp, Fill, Publish, diskVars
<1>3. ASSUME NEW at \in Storing \union {"returned"}, Goes(w, at), NEW t, temps'[w] = t,
             \A v \in Workers : v # w => temps'[v] = temps[v],
             at \in {"mkstemp", "returned"} => t = NoEntry
      PROVE  JobsOk'
  <2>1. JobOk(dec'[w], work'[w].at, result'[w], temps'[w])
    BY <1>1, <1>2, <1>3, GoesTo DEF JobOk, BeforeDecode, Storing
  <2> QED
    BY <1>2, <1>3, <2>1, GoesTo, OneJob
<1>4. CASE CacheCheck(w)
  <2>1. temps[w] = NoEntry /\ temps' = temps
    BY <1>1, <1>4 DEF CacheCheck, JobOk, diskVars
  <2>2. PICK at \in {"mkstemp", "returned"} : Goes(w, at)
    BY <1>4 DEF CacheCheck
  <2> QED
    BY <1>3, <2>1, <2>2 DEF Storing
<1>5. CASE MakeTemp(w)
  <2>1. temps[w] = NoEntry
    BY <1>1, <1>5 DEF MakeTemp, JobOk
  <2>2. CASE Goes(w, "returned") /\ temps' = temps
    BY <1>3, <2>1, <2>2
  <2>3. ASSUME NEW t, Goes(w, "fill"), temps' = [temps EXCEPT ![w] = t] PROVE JobsOk'
    <3>1. temps'[w] = t /\ \A v \in Workers : v # w => temps'[v] = temps[v]
      BY <2>3 DEF IInv
    <3> QED
      BY <1>3, <2>3, <3>1 DEF Storing
  <2> QED
    BY <1>5, <2>2, <2>3 DEF MakeTemp
<1>6. CASE Fill(w)
  <2>1. \A v \in Workers : v # w => temps'[v] = temps[v]
    BY <1>6 DEF Fill, IInv
  <2> QED
    BY <1>3, <1>6, <2>1 DEF Fill, Storing
<1>7. CASE Publish(w)
  <2>1. temps'[w] = NoEntry /\ \A v \in Workers : v # w => temps'[v] = temps[v]
    BY <1>7 DEF Publish, IInv
  <2> QED
    BY <1>3, <1>7, <2>1 DEF Publish
<1> QED
  BY <1>4, <1>5, <1>6, <1>7

LEMMA EndOk ==
  ASSUME IInv, JobsOk, NEW w \in Workers, Deliver(w) \/ Crash(w)
  PROVE  JobsOk'
<1>1. /\ dec'[w] = NoDecode /\ result'[w] = NoImage /\ temps' = temps
      /\ \A v \in Workers : v # w => dec'[v] = dec[v] /\ work'[v] = work[v] /\ result'[v] = result[v]
  BY DEF Deliver, Crash, IInv, diskVars
<1>2. work'[w].at \in {"idle", "dead"} /\ (work'[w].at = "idle" => work[w].at = "returned")
  BY DEF Deliver, Crash, NoWork, IInv
<1>3. work[w].at = "returned" => temps[w] = NoEntry
  BY DEF JobsOk, JobOk
<1>4. JobOk(dec'[w], work'[w].at, result'[w], temps'[w])
  BY <1>1, <1>2, <1>3, NoDecodeHolds DEF JobOk, BeforeDecode, Storing
<1> QED
  BY <1>1, <1>4, OneJob

\* Whoever empties the directory only takes temporary files away.
LEMMA ClearTempOk ==
  ASSUME IInv, JobsOk, NEW w \in Workers, ClearTemp(w)
  PROVE  JobsOk'
<1>1. temps'[w] = NoEntry /\ (\A v \in Workers : v # w => temps'[v] = temps[v])
      /\ UNCHANGED <<dec, work, result>>
  BY DEF ClearTemp, IInv
<1>2. JobOk(dec'[w], work'[w].at, result'[w], temps'[w])
  BY <1>1 DEF JobsOk, JobOk
<1> QED
  BY <1>1, <1>2, OneJob

\* A wallpaper that changes is not noticed by what decodes hold.
LEMMA WorldOk ==
  ASSUME IInv, JobsOk, NEW p \in Paths, Remove(p) \/ \E inPlace \in BOOLEAN : Replace(p, inPlace)
  PROVE  JobsOk'
<1>1. PICK keep \in BOOLEAN : Reopen(p, keep)
  BY DEF Remove, Replace
<1>2. UNCHANGED <<work, result, temps>>
  BY DEF Remove, Replace, diskVars
<1>3. ASSUME NEW w \in Workers
      PROVE  JobOk(dec'[w], work[w].at, result[w], temps[w])
  <2> DEFINE d == dec[w]
  <2>1. JobOk(d, work[w].at, result[w], temps[w])
    BY DEF JobsOk
  <2>2. CASE dec'[w] = d
    BY <2>1, <2>2
  <2>3. ASSUME NEW v, NEW l, NEW c, c = [d EXCEPT !.ver = v] \/ c = [d EXCEPT !.linked = l]
        PROVE  JobOk(c, work[w].at, result[w], temps[w])
    <3>1. /\ IsDecode(c) /\ c.at = d.at /\ c.held = d.held /\ c.granted = d.granted /\ c.job = d.job
          /\ c.file = d.file /\ c.scan = d.scan /\ c.inside = d.inside
      BY <2>1, <2>3 DEF JobOk, DecodeOk, IsDecode, NoDecode
    <3>2. /\ MultiScan(c) = MultiScan(d) /\ Direct(c) = Direct(d) /\ DcOnly(c) = DcOnly(d)
          /\ JpegPeak(c) = JpegPeak(d) /\ DcExact(c) = DcExact(d) /\ TakenBy(c.job) = TakenBy(d.job)
      BY <3>1, SameFile DEF DcExact, Announced
    <3>3. Holds(c) = Holds(d)
      BY <3>1, <3>2 DEF Holds
    <3>4. Reserves(c) /\ ScansOk(c)
      BY <2>1, <3>1, <3>2 DEF JobOk, DecodeOk, Reserves, ScansOk
    <3>5. DecodeOk(c)
      BY <2>1, <3>1, <3>3, <3>4 DEF JobOk, DecodeOk
    <3> QED
      BY <2>1, <3>1, <3>2, <3>5 DEF JobOk
  <2>4. dec'[w] = IF d.job # <<>> /\ d.linked /\ d.job.path = p
                  THEN IF keep THEN [d EXCEPT !.ver = newest'] ELSE [d EXCEPT !.linked = FALSE]
                  ELSE d
    BY <1>1 DEF Reopen
  <2> QED
    BY <2>2, <2>3, <2>4
<1> QED
  BY <1>2, <1>3 DEF JobsOk

LEMMA NextOk == IInv /\ JobsOk /\ [Next]_vars => JobsOk'
<1> SUFFICES ASSUME IInv, JobsOk, [Next]_vars PROVE JobsOk'
  OBVIOUS
<1>1. ASSUME NEW w \in Workers, Worker(w) PROVE JobsOk'
  BY <1>1, EarlyOk, StartDecodeOk, DecodeSomeOk, FinishDecodeOk, StoreOk, EndOk DEF Worker
<1>2. ASSUME NEW w \in Workers, RaiseStop(w) PROVE JobsOk'
  BY <1>2 DEF RaiseStop, JobsOk, diskVars
<1>3. ASSUME NEW w \in Workers, Crash(w) \/ ClearTemp(w) PROVE JobsOk'
  BY <1>3, EndOk, ClearTempOk
<1>4. ASSUME NEW n \in Names, ClearEntry(n) PROVE JobsOk'
  BY <1>4 DEF ClearEntry, JobsOk
<1>5. ASSUME NEW w \in Workers, NEW job \in Jobs[w], Take(w, job) PROVE JobsOk'
  BY <1>5, TakeOk
<1>6. ASSUME NEW p \in Paths, Remove(p) \/ \E inPlace \in BOOLEAN : Replace(p, inPlace) PROVE JobsOk'
  BY <1>6, WorldOk
<1>7. CASE UNCHANGED vars
  BY <1>7 DEF vars, diskVars, JobsOk
<1> QED
  BY <1>1, <1>2, <1>3, <1>4, <1>5, <1>6, <1>7 DEF Next

LEMMA JobsAlwaysOk == Spec => []JobsOk
<1>1. Init => JobsOk
  BY NoDecodeHolds DEF Init, JobsOk, JobOk, BeforeDecode, Storing, NoWork
<1> QED
  BY <1>1, InitIInv, NextKeeps, NextOk, PTL DEF Spec

(* Every allocation that fails, every error of a library, every jump of    *)
(* libpng and libjpeg and every stop is cleaned up: a job that has         *)
(* returned holds the image it reports and nothing else.                   *)
THEOREM NothingIsLeaked == Spec => []NothingLeaks
<1>1. JobsOk => NothingLeaks
  <2> SUFFICES ASSUME JobsOk, NEW w \in Workers, work[w].at = "returned"
               PROVE  /\ temps[w] = NoEntry
                      /\ dec[w].held = IF result[w] = NoImage \/ result[w].hit THEN {}
                                       ELSE FreedImage(dec[w])
    BY DEF NothingLeaks
  <2>1. JobOk(dec[w], "returned", result[w], temps[w])
    BY DEF JobsOk
  <2>2. dec[w].held = TakenBy(dec[w].job) => FreedImage(dec[w]) = TakenBy(dec[w].job)
    BY DEF FreedImage, TakenBy
  <2> QED
    BY <2>1, <2>2 DEF JobOk
<1> QED
  BY <1>1, JobsAlwaysOk, PTL

\* No decode holds a large buffer that was not counted in its reservation.
LEMMA AllCounted ==
  ASSUME JobsOk, NEW w \in Workers, dec[w].at # "none"
  PROVE  BuffersCounted(dec[w])
<1> DEFINE d == dec[w]
<1>1. DecodeOk(d)
  BY DEF JobsOk, JobOk
<1>2. d.held = Holds(d) /\ Reserves(d) /\ ScansOk(d)
      /\ d.at \in {"open", "failed", "done"} \union WithFile
  BY <1>1 DEF DecodeOk
<1>3. TakenBy(d.job) \subseteq ImageMemory
  BY TakenIsImage
<1> HIDE DEF d
<1> SUFFICES d.held \intersect Large \subseteq d.granted \union
               (IF d.at = "webp_reserve" THEN {"data"} ELSE {})
  BY DEF BuffersCounted, d
<1>4. CASE d.at \in {"open", "failed", "png", "jpeg", "webp", "png_info", "png_reserve", "jpeg_header"}
  BY <1>2, <1>4 DEF Holds, Large, ImageMemory
<1>5. CASE d.at \in {"png_alloc", "png_rows"}
  BY <1>2, <1>3, <1>5 DEF Holds, Reserves, Large, ImageMemory
<1>6. CASE d.at \in {"jpeg_start", "jpeg_scans", "jpeg_output", "jpeg_alloc"}
  BY <1>2, <1>6 DEF Holds, Reserves, ScansOk, Large, JpegPeak, ImageMemory
<1>7. CASE d.at = "jpeg_rows"
  BY <1>2, <1>3, <1>7 DEF Holds, Reserves, Large, JpegPeak, ImageMemory
<1>8. CASE d.at \in {"webp_reserve", "webp_alloc", "webp_decode", "done"}
  BY <1>2, <1>3, <1>8 DEF Holds, Reserves, Large, ImageMemory
<1> QED
  BY <1>2, <1>4, <1>5, <1>6, <1>7, <1>8 DEF WithFile

(* A JPEG is drawn from every scan it has, or from all that its DC takes:  *)
(* the scans that were left unread would not have changed the picture.     *)
THEOREM DcIsComplete == Spec => []DcComplete
<1>1. JobsOk => DcComplete
  <2> SUFFICES ASSUME JobsOk, NEW w \in Workers,
                      dec[w].at \in {"jpeg_output", "jpeg_rows"}, MultiScan(dec[w])
               PROVE  \/ dec[w].scan = Len(dec[w].file.scans) /\ ~dec[w].inside
                      \/ /\ DcOnly(dec[w])
                         /\ \A c \in Components :
                              \E k \in 1 .. (IF dec[w].inside THEN dec[w].scan - 1 ELSE dec[w].scan) :
                                c \in dec[w].file.scans[k].dc /\ dec[w].file.scans[k].last
    BY DEF DcComplete
  <2>1. ScansOk(dec[w])
    BY DEF JobsOk, JobOk, DecodeOk
  <2> QED
    BY <2>1 DEF ScansOk, DcExact, Announced
<1> QED
  BY <1>1, JobsAlwaysOk, PTL

-----------------------------------------------------------------------------
(* The rows of a scaler.  An output row is the average of a box of source  *)
(* rows; boxes begin where the row before them ends, and overlap only      *)
(* where the picture is enlarged.  A scaler that is given the rows in      *)
(* order has, at every row, the sums of the part of its next box so far.   *)

\* Division of naturals, without the quotient under a product.
LEMMA Quotient ==
  ASSUME NEW n \in Nat, NEW d \in Nat \ {0}
  PROVE  /\ n \div d \in Nat /\ d * (n \div d) \in Nat
         /\ d * (n \div d) <= n /\ n < d * (n \div d) + d
<1>1. n \div d \in Nat /\ d * (n \div d) <= n /\ n < d * (n \div d) + d
  OBVIOUS
<1>2. \A q \in Nat : d * q \in Nat
  OBVIOUS
<1> QED
  BY <1>1, <1>2

\* A larger factor gives a product that is larger by the other one.
LEMMA Larger ==
  ASSUME NEW a \in Nat, NEW b \in Nat, a < b, NEW d \in Nat
  PROVE  d * a + d <= d * b
<1>1. PICK k \in Nat : b = a + 1 + k
  <2>1. b - a - 1 \in Nat /\ b = a + 1 + (b - a - 1)
    OBVIOUS
  <2> QED
    BY <2>1
<1>2. d * b = d * a + d + d * k /\ d * k \in Nat
  BY <1>1
<1> QED
  BY <1>2

\* A size that matuwall_image_dimensions_ok accepts.
IsSize(s) == s \in [w : Nat \ {0}, h : Nat \ {0}]
IsCrop(c) == c \in [y : Nat, h : Nat \ {0}]

\* Where box i of D begins, and box i - 1 ends.
Bound(c, D, i) == c.y + (i * c.h) \div D

\* The boxes begin at the top of the crop, go down, and end at its bottom.
LEMMA Bounds ==
  ASSUME NEW c, IsCrop(c), NEW D \in Nat \ {0}
  PROVE  /\ Bound(c, D, 0) = c.y
         /\ Bound(c, D, D) = c.y + c.h
         /\ \A i \in 0 .. D - 1 :
              /\ Bound(c, D, i) \in Nat /\ Bound(c, D, i + 1) \in Nat
              /\ Bound(c, D, i) <= Bound(c, D, i + 1)
              /\ Bound(c, D, i) < c.y + c.h
              /\ Bound(c, D, i + 1) <= c.y + c.h
<1>0. c.y \in Nat /\ c.h \in Nat \ {0}
  BY DEF IsCrop
<1> DEFINE E == c.h
           q(i) == (i * E) \div D
<1>1. q(0) = 0
  <2>1. 0 * E = 0 /\ 0 \div D = 0
    BY <1>0
  <2> QED
    BY <2>1
<1>2. q(D) = E
  <2>1. D * E \in Nat
    BY <1>0
  <2>2. D * q(D) <= D * E /\ D * E < D * q(D) + D /\ q(D) \in Nat
    BY <2>1, Quotient
  <2>3. ~(q(D) < E)
    BY <1>0, <2>1, <2>2, Larger
  <2>4. ~(E < q(D))
    <3> HIDE DEF q
    <3>1. SUFFICES ASSUME E < q(D) PROVE FALSE
      OBVIOUS
    <3>2. D * E + D <= D * q(D)
      BY <1>0, <2>2, <3>1, Larger
    <3>3. D * q(D) \in Nat
      BY <2>2
    <3> QED
      BY <2>1, <2>2, <3>2, <3>3
  <2> QED
    BY <1>0, <2>2, <2>3, <2>4
<1>3. ASSUME NEW i \in 0 .. D - 1
      PROVE  /\ q(i) \in Nat /\ q(i + 1) \in Nat
             /\ q(i) <= q(i + 1) /\ q(i) < E /\ q(i + 1) <= E
  <2> DEFINE p == i * E
             r == (i + 1) * E
  <2>1. p \in Nat /\ r \in Nat /\ r = p + E /\ D * E \in Nat
    BY <1>0
  <2>2. r <= D * E
    <3>1. CASE i + 1 < D
      <4>1. E * (i + 1) + E <= E * D
        BY <1>0, <3>1, Larger
      <4> QED
        BY <1>0, <2>1, <4>1
    <3>2. CASE i + 1 = D
      BY <1>0, <2>1, <3>2
    <3> QED
      BY <3>1, <3>2
  <2> HIDE DEF p, r
  <2> DEFINE a == p \div D
             b == r \div D
  <2>3. a \in Nat /\ D * a <= p /\ p < D * a + D /\ D * a \in Nat
    BY <2>1, Quotient
  <2>4. b \in Nat /\ D * b <= r /\ r < D * b + D /\ D * b \in Nat
    BY <2>1, Quotient
  <2> HIDE DEF a, b
  <2>5. ~(b < a)
    <3>1. b < a => D * b + D <= D * a
      BY <2>3, <2>4, Larger
    <3> QED
      BY <1>0, <2>1, <2>3, <2>4, <3>1
  <2>6. ~(E <= a)
    <3>1. E < a => D * E + D <= D * a
      BY <1>0, <2>3, Larger
    <3>2. E = a => D * E = D * a
      OBVIOUS
    <3> QED
      BY <1>0, <2>1, <2>2, <2>3, <3>1, <3>2
  <2>7. ~(E < b)
    <3>1. E < b => D * E + D <= D * b
      BY <1>0, <2>4, Larger
    <3> QED
      BY <1>0, <2>1, <2>2, <2>4, <3>1
  <2>8. a = q(i) /\ b = q(i + 1)
    BY DEF a, b, p, r
  <2> HIDE DEF q
  <2> QED
    BY <1>0, <2>3, <2>4, <2>5, <2>6, <2>7, <2>8
<1> HIDE DEF q
<1>4. \A i : Bound(c, D, i) = c.y + q(i)
  BY DEF Bound, q
<1> QED
  BY <1>0, <1>1, <1>2, <1>3, <1>4

\* Where a box ends: it has at least the row it begins in.
End(c, D, i) == IF Bound(c, D, i + 1) > Bound(c, D, i) THEN Bound(c, D, i + 1) ELSE Bound(c, D, i) + 1

\* axis_span gives these bounds.
LEMMA SpanIs ==
  ASSUME NEW c, IsCrop(c), NEW D \in Nat \ {0}, NEW i \in 0 .. D - 1
  PROVE  /\ AxisSpan(c.y, c.h, D, i)
              = [start |-> Bound(c, D, i), count |-> End(c, D, i) - Bound(c, D, i)]
         /\ End(c, D, i) \in Nat /\ Bound(c, D, i) < End(c, D, i) /\ End(c, D, i) <= c.y + c.h
<1> DEFINE a == Bound(c, D, i)
           b == Bound(c, D, i + 1)
           z == c.y + c.h
<1>1. a \in Nat /\ b \in Nat /\ a <= b /\ a < z /\ b <= z /\ z \in Nat
  BY Bounds DEF IsCrop
<1>2. AxisSpan(c.y, c.h, D, i) =
        LET some == IF b <= a THEN a + 1 ELSE b
            last == IF some > z THEN z ELSE some
        IN  [start |-> a, count |-> last - a]
  BY DEF AxisSpan, Bound
<1>3. End(c, D, i) = IF b > a THEN b ELSE a + 1
  BY DEF End
<1> HIDE DEF a, b, z
<1>4. (IF b <= a THEN a + 1 ELSE b) = End(c, D, i) /\ End(c, D, i) \in Nat /\ a < End(c, D, i) /\ End(c, D, i) <= z
  BY <1>1, <1>3
<1>5. AxisSpan(c.y, c.h, D, i) = [start |-> a, count |-> End(c, D, i) - a]
  BY <1>1, <1>2, <1>4
<1> QED
  BY <1>4, <1>5 DEF a, z

\* And so does the box of the reference.
LEMMA BoxIs ==
  ASSUME NEW c, IsCrop(c), NEW D \in Nat \ {0}, NEW i \in 0 .. D - 1
  PROVE  Box(c, D, i) = Bound(c, D, i) .. End(c, D, i) - 1
<1>0. c.y \in Nat /\ c.h \in Nat \ {0}
  BY DEF IsCrop
<1> DEFINE E == c.h
           p == i * E
           a == p \div D
           b == ((i + 1) * E) \div D
<1>1. p \in Nat /\ a \in Nat /\ D * a <= p /\ p < D * a + D /\ D * a \in Nat
  <2>1. p \in Nat
    BY <1>0
  <2> HIDE DEF p
  <2> QED
    BY <2>1, Quotient
<1>2. b \in Nat /\ a <= b /\ a < E /\ b <= E
  <2>1. /\ Bound(c, D, i) = c.y + a /\ Bound(c, D, i + 1) = c.y + b
        /\ Bound(c, D, i) <= Bound(c, D, i + 1) /\ Bound(c, D, i + 1) \in Nat
        /\ Bound(c, D, i) < c.y + E /\ Bound(c, D, i + 1) <= c.y + E
    BY Bounds DEF Bound
  <2>2. (i + 1) * E \in Nat
    BY <1>0
  <2>3. b \in Nat
    BY <2>2, Quotient
  <2> HIDE DEF a, b
  <2> QED
    BY <1>0, <1>1, <2>1, <2>3
<1> HIDE DEF p, a, b
<1>3. ASSUME NEW n \in 0 .. E - 1
      PROVE  n * D <= p /\ p < (n + 1) * D <=> n = a
  <2>1. n \in Nat /\ n * D = D * n /\ (n + 1) * D = D * n + D /\ D * n \in Nat
    BY <1>0
  <2>2. n < a => D * n + D <= D * a
    BY <1>1, <2>1, Larger
  <2>3. a < n => D * a + D <= D * n
    BY <1>1, <2>1, Larger
  <2>4. n = a => D * n = D * a
    OBVIOUS
  <2> QED
    BY <1>1, <2>1, <2>2, <2>3, <2>4
<1>4. Box(c, D, i) = {c.y + k : k \in {n \in 0 .. E - 1 : n = a \/ (n >= a /\ n < b)}}
  <2>1. Box(c, D, i) = {c.y + k : k \in {n \in 0 .. E - 1 :
          (n * D <= p /\ p < (n + 1) * D) \/ (n >= a /\ n < b)}}
    BY DEF Box, p, a, b
  <2> QED
    BY <1>3, <2>1
<1>5. Bound(c, D, i) = c.y + a /\ Bound(c, D, i + 1) = c.y + b
  BY DEF Bound, a, b, p
<1>6. End(c, D, i) = c.y + (IF b > a THEN b ELSE a + 1)
  BY <1>0, <1>1, <1>2, <1>5 DEF End
<1>7. ASSUME NEW x PROVE x \in Box(c, D, i) <=> x \in Bound(c, D, i) .. End(c, D, i) - 1
  <2>1. ASSUME NEW k \in 0 .. E - 1, x = c.y + k, k = a \/ (k >= a /\ k < b)
        PROVE  x \in Bound(c, D, i) .. End(c, D, i) - 1
    BY <1>0, <1>1, <1>2, <1>5, <1>6, <2>1
  <2>2. ASSUME x \in Bound(c, D, i) .. End(c, D, i) - 1 PROVE x \in Box(c, D, i)
    <3> DEFINE k == x - c.y
    <3>1. k \in 0 .. E - 1 /\ x = c.y + k /\ (k = a \/ (k >= a /\ k < b))
      BY <1>0, <1>1, <1>2, <1>5, <1>6, <2>2
    <3> HIDE DEF k
    <3> QED
      BY <1>4, <3>1
  <2> QED
    BY <1>4, <2>1, <2>2
<1> QED
  BY <1>7

Scalers(c, D) ==
  [crop : {c}, out_h : {D}, next : 0 .. D, rows : [start : Int, count : Int],
   sums : SUBSET Int, written : Seq(SUBSET Int)]

\* The rows written so far are right, and the span is that of the next one.
ScalerOk(s, c, D) ==
  /\ s \in Scalers(c, D)
  /\ s.next < D => s.rows = AxisSpan(c.y, c.h, D, s.next)
  /\ Len(s.written) = s.next /\ \A i \in 1 .. s.next : s.written[i] = Box(c, D, i - 1)

(* The rows before y have been pushed: the next box begins at y or later,  *)
(* or the sums are those of its rows before y.                             *)
Fed(s, c, D, y) ==
  /\ ScalerOk(s, c, D)
  /\ s.next < D =>
       \/ y <= Bound(c, D, s.next)
       \/ /\ Bound(c, D, s.next) < y /\ y < End(c, D, s.next)
          /\ s.sums = Bound(c, D, s.next) .. y - 1

\* Row y is being pushed and belongs to the next box.
Open(s, c, D, y) ==
  /\ ScalerOk(s, c, D) /\ s.next < D
  /\ Bound(c, D, s.next) <= y /\ y < End(c, D, s.next)
  /\ Bound(c, D, s.next) < y => s.sums = Bound(c, D, s.next) .. y - 1

\* What is known of the box that is being filled.
LEMMA SpanOfNext ==
  ASSUME NEW c, IsCrop(c), NEW D \in Nat \ {0}, NEW s, ScalerOk(s, c, D), s.next < D
  PROVE  /\ s.next \in 0 .. D - 1
         /\ s.rows.start = Bound(c, D, s.next) /\ s.rows.start \in Nat
         /\ s.rows.start + s.rows.count = End(c, D, s.next) /\ s.rows.count \in Int
         /\ End(c, D, s.next) \in Nat /\ s.rows.start < End(c, D, s.next)
         /\ End(c, D, s.next) <= c.y + c.h
         /\ s.crop = c /\ s.out_h = D /\ ~ScalerDone(s)
<1>1. s.next \in 0 .. D - 1 /\ s.crop = c /\ s.out_h = D
  BY DEF ScalerOk, Scalers
<1>2. /\ s.rows = [start |-> Bound(c, D, s.next), count |-> End(c, D, s.next) - Bound(c, D, s.next)]
      /\ Bound(c, D, s.next) \in Nat /\ End(c, D, s.next) \in Nat
      /\ Bound(c, D, s.next) < End(c, D, s.next) /\ End(c, D, s.next) <= c.y + c.h
  BY <1>1, SpanIs, Bounds DEF ScalerOk
<1>3. /\ s.rows.start = Bound(c, D, s.next)
      /\ s.rows.count = End(c, D, s.next) - Bound(c, D, s.next)
  BY <1>2
<1>4. s.rows.start + s.rows.count = End(c, D, s.next) /\ s.rows.count \in Int
  BY <1>2, <1>3
<1> QED
  BY <1>1, <1>2, <1>3, <1>4 DEF ScalerDone

\* A row written with its box leaves the scaler at the next one.
LEMMA FinishRowOk ==
  ASSUME NEW c, IsCrop(c), NEW D \in Nat \ {0}, NEW s, ScalerOk(s, c, D), s.next < D,
         NEW rows, rows = Box(c, D, s.next)
  PROVE  ScalerOk(FinishRow(s, rows), c, D) /\ FinishRow(s, rows).next = s.next + 1
<1> DEFINE next == s.next + 1
           w == Append(s.written, rows)
           span == IF next < s.out_h THEN AxisSpan(s.crop.y, s.crop.h, s.out_h, next) ELSE s.rows
           f == FinishRow(s, rows)
<1>1. s \in Scalers(c, D) /\ s.next \in 0 .. D - 1 /\ s.crop = c /\ s.out_h = D /\ next \in 1 .. D
      /\ s.written \in Seq(SUBSET Int) /\ Len(s.written) = s.next /\ s.sums \in SUBSET Int
      /\ s.rows \in [start : Int, count : Int]
  BY DEF ScalerOk, Scalers
<1>2. rows \in SUBSET Int
  <2>1. Box(c, D, s.next) = Bound(c, D, s.next) .. End(c, D, s.next) - 1
    BY <1>1, BoxIs
  <2>2. \A a, b : a .. b \in SUBSET Int
    OBVIOUS
  <2> QED
    BY <2>1, <2>2
<1>3. w \in Seq(SUBSET Int) /\ Len(w) = next /\ \A i \in 1 .. next : w[i] = Box(c, D, i - 1)
  <2>1. w \in Seq(SUBSET Int) /\ Len(w) = next /\ w[next] = rows
        /\ \A i \in 1 .. s.next : w[i] = s.written[i]
    BY <1>1, <1>2, AppendProperties
  <2>2. ASSUME NEW i \in 1 .. next PROVE w[i] = Box(c, D, i - 1)
    <3>1. CASE i = next
      <4>1. i - 1 = s.next
        BY <1>1, <3>1
      <4> QED
        BY <2>1, <3>1, <4>1
    <3>2. CASE i # next
      <4>1. i \in 1 .. s.next
        BY <1>1, <3>2
      <4> QED
        BY <2>1, <4>1 DEF ScalerOk
    <3> QED
      BY <3>1, <3>2
  <2> QED
    BY <2>1, <2>2
<1>4. span \in [start : Int, count : Int] /\ (next < D => span = AxisSpan(c.y, c.h, D, next))
  <2>1. CASE next < D
    <3>1. next \in 0 .. D - 1
      BY <1>1, <2>1
    <3>2. AxisSpan(c.y, c.h, D, next)
            = [start |-> Bound(c, D, next), count |-> End(c, D, next) - Bound(c, D, next)]
          /\ Bound(c, D, next) \in Nat /\ End(c, D, next) \in Nat
      BY <3>1, SpanIs, Bounds
    <3> HIDE DEF next
    <3> QED
      BY <1>1, <2>1, <3>2
  <2>2. CASE ~(next < D)
    BY <1>1, <2>2
  <2> QED
    BY <2>1, <2>2
<1>5. f = [s EXCEPT !.written = w, !.next = next, !.rows = span]
  BY DEF FinishRow
<1>9. next \in 0 .. D
  BY <1>1
<1> HIDE DEF f, w, span, next
<1>6. f \in Scalers(c, D) /\ f.written = w /\ f.next = next /\ f.rows = span
  BY <1>1, <1>3, <1>4, <1>5, <1>9 DEF Scalers
<1>7. f.next < D => f.rows = AxisSpan(c.y, c.h, D, f.next)
  BY <1>4, <1>6
<1>8. ScalerOk(f, c, D) /\ f.next = s.next + 1
  BY <1>3, <1>6, <1>7 DEF ScalerOk, next
<1> QED
  BY <1>8 DEF f

\* One more row of the box joins the sums.
LEMMA SumsOk ==
  ASSUME NEW c, NEW D, NEW s, ScalerOk(s, c, D), NEW sums \in SUBSET Int
  PROVE  LET t == [s EXCEPT !.sums = sums] IN ScalerOk(t, c, D) /\ t.next = s.next /\ t.sums = sums
<1> DEFINE t == [s EXCEPT !.sums = sums]
<1>1. t \in Scalers(c, D) /\ t.next = s.next /\ t.sums = sums /\ t.rows = s.rows /\ t.written = s.written
  BY DEF ScalerOk, Scalers
<1> HIDE DEF t
<1>2. ScalerOk(t, c, D)
  BY <1>1 DEF ScalerOk
<1> QED
  BY <1>1, <1>2 DEF t

\* The box that ends with row y is finished; the next may begin with it again.
LEMMA BoxFinished ==
  ASSUME NEW c, IsCrop(c), NEW D \in Nat \ {0}, NEW y \in Nat,
         NEW s, ScalerOk(s, c, D), s.next < D, y + 1 = End(c, D, s.next),
         NEW t, ScalerOk(t, c, D), t.next = s.next + 1
  PROVE  Fed(t, c, D, y + 1) \/ Open(t, c, D, y)
<1>1. CASE ~(t.next < D)
  BY <1>1 DEF Fed
<1>2. CASE t.next < D
  <2> DEFINE a == Bound(c, D, s.next)
             b == Bound(c, D, t.next)
  <2>1. s.next \in 0 .. D - 1 /\ t.next \in 0 .. D - 1
    BY <1>2, SpanOfNext
  <2>2. a \in Nat /\ b \in Nat /\ a <= b
    BY <2>1, Bounds
  <2>3. y + 1 = IF b > a THEN b ELSE a + 1
    BY DEF End
  <2>4. End(c, D, t.next) \in Nat /\ b < End(c, D, t.next)
    BY <2>1, SpanIs
  <2> HIDE DEF a, b
  <2>5. CASE b > a
    <3>1. y + 1 <= b
      BY <2>2, <2>3, <2>5
    <3> QED
      BY <3>1 DEF Fed, b
  <2>6. CASE ~(b > a)
    <3>1. b = y
      BY <2>2, <2>3, <2>6
    <3>2. b <= y /\ y < End(c, D, t.next) /\ ~(b < y)
      BY <2>2, <2>4, <3>1
    <3> QED
      BY <1>2, <3>2 DEF Open, b
  <2> QED
    BY <2>5, <2>6
<1> QED
  BY <1>1, <1>2

\* A turn with a row of the next box: kept in the sums, or written with the box.
LEMMA PushOnceOpen ==
  ASSUME NEW c, IsCrop(c), NEW D \in Nat \ {0}, NEW y \in Nat, NEW s, Open(s, c, D, y)
  PROVE  LET t == PushOnce(s, y)
         IN  Fed(t, c, D, y + 1) \/ (Open(t, c, D, y) /\ t.next = s.next + 1)
<1> DEFINE a == Bound(c, D, s.next)
           e == End(c, D, s.next)
<1>1. /\ ScalerOk(s, c, D) /\ s.next < D /\ s.next \in 0 .. D - 1
      /\ s.rows.start = a /\ a \in Nat /\ s.rows.start + s.rows.count = e /\ s.rows.count \in Int
      /\ e \in Nat /\ ~ScalerDone(s)
      /\ a <= y /\ y < e /\ (a < y => s.sums = a .. y - 1)
  BY SpanOfNext DEF Open
<1>2. Box(c, D, s.next) = a .. e - 1
  BY <1>1, BoxIs
<1> HIDE DEF a, e
<1>3. CASE s.rows.count = 1
  <2>1. a = y /\ e = y + 1
    BY <1>1, <1>3
  <2>2. {y} = Box(c, D, s.next)
    BY <1>1, <1>2, <2>1
  <2> DEFINE row == {y}
  <2>3. PushOnce(s, y) = FinishRow(s, row)
    BY <1>1, <1>3 DEF PushOnce
  <2>4. row = Box(c, D, s.next)
    BY <2>2
  <2> HIDE DEF row
  <2>5. ScalerOk(FinishRow(s, row), c, D) /\ FinishRow(s, row).next = s.next + 1
    BY <1>1, <2>4, FinishRowOk
  <2>6. Fed(FinishRow(s, row), c, D, y + 1) \/ Open(FinishRow(s, row), c, D, y)
    BY <1>1, <2>1, <2>5, BoxFinished DEF e
  <2> QED
    BY <2>3, <2>5, <2>6
<1>4. CASE s.rows.count # 1
  <2> DEFINE sums == Accumulate(s, y)
             t == [s EXCEPT !.sums = sums]
  <2>1. sums = a .. y
    <3>1. CASE y = a
      <4>1. sums = {y} /\ a .. y = {y}
        BY <1>1, <3>1 DEF Accumulate
      <4> QED
        BY <4>1
    <3>2. CASE y # a
      <4>1. sums = (a .. y - 1) \union {y}
        BY <1>1, <3>2 DEF Accumulate
      <4>2. (a .. y - 1) \union {y} = a .. y
        BY <1>1
      <4> QED
        BY <4>1, <4>2
    <3> QED
      BY <3>1, <3>2
  <2>2. sums \in SUBSET Int
    BY <1>1, <2>1
  <2>3. PushOnce(s, y) = IF y + 1 < s.rows.start + s.rows.count THEN t ELSE FinishRow(t, sums)
    BY <1>1, <1>4 DEF PushOnce
  <2> HIDE DEF sums
  <2>4. ScalerOk(t, c, D) /\ t.next = s.next /\ t.sums = sums
    BY <1>1, <2>2, SumsOk
  <2> HIDE DEF t
  <2>5. CASE y + 1 < e
    <3>1. PushOnce(s, y) = t
      BY <1>1, <2>3, <2>5
    <3>2. a < y + 1 /\ y + 1 - 1 = y
      BY <1>1
    <3>3. Fed(t, c, D, y + 1)
      BY <1>1, <2>1, <2>4, <2>5, <3>2 DEF Fed, a, e
    <3> QED
      BY <3>1, <3>3
  <2>6. CASE ~(y + 1 < e)
    <3>1. e = y + 1 /\ e - 1 = y
      BY <1>1, <2>6
    <3>2. PushOnce(s, y) = FinishRow(t, sums)
      BY <1>1, <2>3, <2>6
    <3>3. sums = Box(c, D, t.next) /\ t.next < D
      BY <1>1, <1>2, <2>1, <2>4, <3>1
    <3>4. ScalerOk(FinishRow(t, sums), c, D) /\ FinishRow(t, sums).next = s.next + 1
      BY <2>4, <3>3, FinishRowOk
    <3>5. Fed(FinishRow(t, sums), c, D, y + 1) \/ Open(FinishRow(t, sums), c, D, y)
      BY <1>1, <3>1, <3>4, BoxFinished DEF e
    <3> QED
      BY <3>2, <3>4, <3>5
  <2> QED
    BY <2>5, <2>6
<1> QED
  BY <1>3, <1>4

\* A turn that waits for the next row repeats itself.
LEMMA PushOnceFed ==
  ASSUME NEW c, IsCrop(c), NEW D \in Nat \ {0}, NEW y \in Nat, NEW s, Fed(s, c, D, y + 1)
  PROVE  Fed(PushOnce(s, y), c, D, y + 1)
<1>1. CASE ~(s.next < D)
  <2>1. ScalerDone(s)
    BY <1>1 DEF Fed, ScalerOk, Scalers, ScalerDone
  <2> QED
    BY <2>1 DEF PushOnce
<1>2. CASE s.next < D
  <2> DEFINE a == Bound(c, D, s.next)
             e == End(c, D, s.next)
  <2>1. /\ ScalerOk(s, c, D) /\ s.next \in 0 .. D - 1
        /\ s.rows.start = a /\ a \in Nat /\ s.rows.start + s.rows.count = e /\ s.rows.count \in Int
        /\ e \in Nat /\ ~ScalerDone(s)
        /\ (y + 1 <= a \/ (a < y + 1 /\ y + 1 < e /\ s.sums = a .. y + 1 - 1))
    BY <1>2, SpanOfNext DEF Fed
  <2> HIDE DEF a, e
  <2>2. CASE y + 1 <= a
    <3>1. y < s.rows.start
      BY <2>1, <2>2
    <3> QED
      BY <3>1 DEF PushOnce
  <2>3. CASE a < y + 1 /\ y + 1 < e /\ s.sums = a .. y + 1 - 1
    <3> DEFINE sums == Accumulate(s, y)
               t == [s EXCEPT !.sums = sums]
    <3>1. y + 1 - 1 = y /\ ~(y < s.rows.start) /\ s.rows.count # 1
      BY <2>1, <2>3
    <3>2. sums = a .. y
      <4>1. s.sums = a .. y /\ y \in a .. y /\ (y = a => {y} = a .. y)
        BY <2>1, <2>3, <3>1
      <4> QED
        BY <2>1, <4>1 DEF Accumulate
    <3>3. sums \in SUBSET Int
      BY <2>1, <3>2
    <3>4. PushOnce(s, y) = t
      BY <2>1, <2>3, <3>1 DEF PushOnce
    <3> HIDE DEF sums
    <3>5. ScalerOk(t, c, D) /\ t.next = s.next /\ t.sums = sums
      BY <2>1, <3>3, SumsOk
    <3> HIDE DEF t
    <3>6. Fed(t, c, D, y + 1)
      BY <2>3, <3>1, <3>2, <3>5 DEF Fed, a, e
    <3> QED
      BY <3>4, <3>6
  <2> QED
    BY <2>1, <2>2, <2>3
<1> QED
  BY <1>1, <1>2

\* A set of naturals has a least element.
LEMMA Least ==
  ASSUME NEW T, T \subseteq Nat, T # {}
  PROVE  \E m \in T : \A k \in T : m <= k
<1> DEFINE R == OpToRel(<, Nat)
<1>1. IsWellFoundedOn(R, Nat)
  BY NatLessThanWellFounded
<1>2. \A x, y \in Nat : x < y => <<x, y>> \in R
  BY DEF OpToRel
<1> HIDE DEF R
<1>3. PICK m \in T : \A y \in T : ~(<<y, m>> \in R)
  BY <1>1, WFMin
<1>4. ASSUME NEW k \in T PROVE m <= k
  <2>1. ~(k < m) /\ k \in Nat /\ m \in Nat
    BY <1>2, <1>3
  <2> QED
    BY <2>1
<1> QED
  BY <1>4

\* Induction over the turns of a loop, for the set of turns something holds after.
LEMMA Upwards ==
  ASSUME NEW n \in Nat, NEW T, 0 \in T, \A k \in 1 .. n : k - 1 \in T => k \in T
  PROVE  0 .. n \subseteq T
<1> DEFINE missed == (0 .. n) \ T
<1>1. SUFFICES ASSUME missed # {} PROVE FALSE
  OBVIOUS
<1>2. PICK m \in missed : \A k \in missed : m <= k
  <2>1. missed \subseteq Nat
    OBVIOUS
  <2> HIDE DEF missed
  <2> QED
    BY <1>1, <2>1, Least
<1>3. m \in 1 .. n /\ m - 1 \notin missed /\ m - 1 \in 0 .. n
  BY <1>2
<1> QED
  BY <1>2, <1>3

\* n turns of the loop for row y, begun with base.
IsPush(f, n, base, y) == f = [k \in 0 .. n |-> IF k = 0 THEN base ELSE PushOnce(f[k - 1], y)]

\* After each turn the row is dealt with, or one more box is finished.
Turned(s, c, D, y, n) == Fed(s, c, D, y + 1) \/ (Open(s, c, D, y) /\ n <= s.next)

\* One turn.
LEMMA TurnKeeps ==
  ASSUME NEW c, IsCrop(c), NEW D \in Nat \ {0}, NEW y \in Nat, NEW n \in Nat,
         NEW s, Turned(s, c, D, y, n)
  PROVE  Turned(PushOnce(s, y), c, D, y, n + 1)
<1>1. CASE Fed(s, c, D, y + 1)
  BY <1>1, PushOnceFed DEF Turned
<1>2. CASE Open(s, c, D, y) /\ n <= s.next
  <2> DEFINE t == PushOnce(s, y)
  <2>1. Fed(t, c, D, y + 1) \/ (Open(t, c, D, y) /\ t.next = s.next + 1)
    BY <1>2, PushOnceOpen
  <2>2. s.next \in Nat
    BY <1>2 DEF Open, ScalerOk, Scalers
  <2> HIDE DEF t
  <2>3. Turned(t, c, D, y, n + 1)
    BY <1>2, <2>1, <2>2 DEF Turned
  <2> QED
    BY <2>3 DEF t
<1> QED
  BY <1>1, <1>2 DEF Turned

\* The loop of a row is a function.
LEMMA PushLoop ==
  ASSUME NEW D \in Nat, NEW y, NEW s
  PROVE  \E f : IsPush(f, D, s, y)
<1> DEFINE Is(f, m) == IsPush(f, m, s, y)
           T == {m \in 0 .. D : \E f : Is(f, m)}
<1>1. 0 \in T
  <2> DEFINE f == [k \in 0 .. 0 |-> s]
  <2>1. 0 .. 0 = {0}
    OBVIOUS
  <2>2. f[0] = s /\ f = [k \in 0 .. 0 |-> IF k = 0 THEN s ELSE PushOnce(f[k - 1], y)]
    BY <2>1
  <2> HIDE DEF f
  <2>3. Is(f, 0)
    BY <2>2 DEF IsPush
  <2> HIDE DEF Is
  <2> QED
    BY <2>3
<1>2. ASSUME NEW m \in 1 .. D, m - 1 \in T PROVE m \in T
  <2>1. PICK f : Is(f, m - 1)
    BY <1>2
  <2> DEFINE last == PushOnce(f[m - 1], y)
             g == [k \in 0 .. m |-> IF k <= m - 1 THEN f[k] ELSE last]
  <2>2. ASSUME NEW k \in 0 .. m PROVE g[k] = IF k = 0 THEN s ELSE PushOnce(g[k - 1], y)
    <3>1. CASE k = 0
      <4>1. f[k] = s
        BY <2>1, <3>1 DEF IsPush
      <4>2. g[k] = f[k]
        BY <3>1
      <4> QED
        BY <3>1, <4>1, <4>2
    <3>2. CASE k \in 1 .. m - 1
      <4>1. k \in 0 .. m - 1 /\ k - 1 \in 0 .. m - 1 /\ k # 0
        BY <3>2
      <4>2. f[k] = PushOnce(f[k - 1], y)
        BY <2>1, <4>1 DEF IsPush
      <4>3. g[k] = f[k] /\ g[k - 1] = f[k - 1]
        BY <4>1
      <4> HIDE DEF g
      <4> QED
        BY <4>1, <4>2, <4>3
    <3>3. CASE k = m
      <4>1. k # 0 /\ ~(k <= m - 1) /\ k - 1 = m - 1 /\ m - 1 \in 0 .. m /\ m - 1 <= m - 1
        BY <3>3
      <4>2. g[k] = last /\ g[k - 1] = f[m - 1]
        BY <4>1
      <4> QED
        BY <4>1, <4>2
    <3> QED
      BY <3>1, <3>2, <3>3
  <2>5. g = [k \in 0 .. m |-> g[k]]
    OBVIOUS
  <2> HIDE DEF g, last
  <2>6. g = [k \in 0 .. m |-> IF k = 0 THEN s ELSE PushOnce(g[k - 1], y)]
    BY <2>2, <2>5
  <2>7. Is(g, m)
    BY <2>6 DEF IsPush
  <2> HIDE DEF Is
  <2> QED
    BY <2>7
<1>3. D \in T
  <2> HIDE DEF T
  <2>1. 0 .. D \subseteq T
    BY <1>1, <1>2, Upwards
  <2> QED
    BY <2>1
<1> QED
  BY <1>3

\* Every turn of it does what it should.
LEMMA PushTurns ==
  ASSUME NEW c, IsCrop(c), NEW D \in Nat \ {0}, NEW y \in Nat, NEW s, Turned(s, c, D, y, 0),
         NEW f, IsPush(f, D, s, y)
  PROVE  Turned(f[D], c, D, y, D)
<1> DEFINE T == {m \in 0 .. D : Turned(f[m], c, D, y, m)}
<1>1. 0 \in T
  <2>1. f[0] = s
    BY DEF IsPush
  <2> QED
    BY <2>1
<1>2. ASSUME NEW m \in 1 .. D, m - 1 \in T PROVE m \in T
  <2>1. f[m] = PushOnce(f[m - 1], y)
    BY DEF IsPush
  <2>2. m - 1 \in Nat /\ m - 1 + 1 = m
    OBVIOUS
  <2>3. Turned(PushOnce(f[m - 1], y), c, D, y, m - 1 + 1)
    BY <1>2, <2>2, TurnKeeps
  <2> QED
    BY <2>1, <2>2, <2>3
<1>3. 0 .. D \subseteq T
  <2> HIDE DEF T
  <2> QED
    BY <1>1, <1>2, Upwards
<1> QED
  BY <1>3

\* matuwall_row_scaler_push: one more row has been pushed.
LEMMA PushedOk ==
  ASSUME NEW c, IsCrop(c), NEW D \in Nat \ {0}, NEW y \in Nat, NEW s, Fed(s, c, D, y)
  PROVE  Fed(Pushed(s, y), c, D, y + 1)
<1>1. s.out_h = D /\ s.next \in 0 .. D /\ ScalerOk(s, c, D)
  BY DEF Fed, ScalerOk, Scalers
<1>2. Turned(s, c, D, y, 0)
  <2>1. CASE ~(s.next < D)
    BY <1>1, <2>1 DEF Turned, Fed
  <2>2. CASE s.next < D
    <3> DEFINE a == Bound(c, D, s.next)
               e == End(c, D, s.next)
    <3>1. a \in Nat /\ e \in Nat /\ a < e
      BY <1>1, <2>2, SpanOfNext
    <3>2. y <= a \/ (a < y /\ y < e /\ s.sums = a .. y - 1)
      BY <2>2 DEF Fed
    <3> HIDE DEF a, e
    <3>3. CASE y < a
      <4>1. y + 1 <= a
        BY <3>1, <3>3
      <4> QED
        BY <1>1, <4>1 DEF Turned, Fed, a
    <3>4. CASE y = a
      <4>1. a <= y /\ y < e /\ ~(a < y) /\ 0 <= s.next
        BY <1>1, <3>1, <3>4
      <4> QED
        BY <1>1, <2>2, <4>1 DEF Turned, Open, a, e
    <3>5. CASE a < y
      <4>1. a <= y /\ y < e /\ s.sums = a .. y - 1 /\ 0 <= s.next
        BY <1>1, <3>1, <3>2, <3>5
      <4> QED
        BY <1>1, <2>2, <4>1 DEF Turned, Open, a, e
    <3> QED
      BY <3>1, <3>3, <3>4, <3>5
  <2> QED
    BY <2>1, <2>2
<1> DEFINE turn == CHOOSE turn : turn = [n \in 0 .. D |-> IF n = 0 THEN s ELSE PushOnce(turn[n - 1], y)]
<1>3. Pushed(s, y) = turn[D]
  BY <1>1 DEF Pushed
<1>4. \E g : g = [n \in 0 .. D |-> IF n = 0 THEN s ELSE PushOnce(g[n - 1], y)]
  <2>1. \E g : IsPush(g, D, s, y)
    BY PushLoop
  <2> QED
    BY <2>1 DEF IsPush
<1>5. turn = [n \in 0 .. D |-> IF n = 0 THEN s ELSE PushOnce(turn[n - 1], y)]
  BY <1>4
<1> HIDE DEF turn
<1>6. IsPush(turn, D, s, y)
  BY <1>5 DEF IsPush
<1>7. Turned(turn[D], c, D, y, D)
  BY <1>2, <1>6, PushTurns
<1>8. Turned(Pushed(s, y), c, D, y, D)
  BY <1>3, <1>7
<1> QED
  BY <1>8 DEF Turned, Open, ScalerOk, Scalers

\* The crop lies in the picture, whatever the two sizes.
LEMMA CropFits ==
  ASSUME NEW src, IsSize(src), NEW out, IsSize(out)
  PROVE  LET c == CoverCrop(src, out) IN IsCrop(c) /\ c.y + c.h <= src.h
<1> DEFINE c == CoverCrop(src, out)
<1>1. src.w \in Nat /\ src.h \in Nat \ {0} /\ out.w \in Nat \ {0} /\ out.h \in Nat
  BY DEF IsSize
<1>2. CASE src.w * out.h > out.w * src.h
  <2>1. c = [y |-> 0, h |-> src.h]
    BY <1>1, <1>2 DEF CoverCrop, AtLeastOne
  <2> QED
    BY <1>1, <2>1 DEF IsCrop
<1>3. CASE ~(src.w * out.h > out.w * src.h)
  <2> DEFINE p == out.h * src.w
             h == p \div out.w
             y == (src.h - h) \div 2
  <2>1. p \in Nat /\ p = src.w * out.h /\ out.w * src.h \in Nat
    BY <1>1
  <2>2. p <= out.w * src.h
    BY <1>3, <2>1
  <2> HIDE DEF p
  <2>3. h \in Nat /\ out.w * h <= p /\ out.w * h \in Nat
    BY <1>1, <2>1, Quotient
  <2> HIDE DEF h
  <2>4. h <= src.h
    <3>1. src.h < h => out.w * src.h + out.w <= out.w * h
      BY <1>1, <2>3, Larger
    <3> QED
      BY <1>1, <2>1, <2>2, <2>3, <3>1
  <2>5. y \in Nat /\ 2 * y <= src.h - h
    <3>1. src.h - h \in Nat
      BY <1>1, <2>3, <2>4
    <3> QED
      BY <3>1
  <2>6. c = [y |-> y, h |-> AtLeastOne(h)]
    BY <1>3 DEF CoverCrop, h, p
  <2>7. AtLeastOne(h) \in Nat \ {0} /\ y + AtLeastOne(h) <= src.h
    <3> HIDE DEF y
    <3> QED
      BY <1>1, <2>3, <2>4, <2>5 DEF AtLeastOne
  <2> HIDE DEF y
  <2> QED
    BY <2>5, <2>6, <2>7 DEF IsCrop
<1> QED
  BY <1>2, <1>3

\* A scaler for pictures of size src that has been given y rows.
Streams(s, src, out, y) == Fed(s, CoverCrop(src, out), out.h, y)

\* matuwall_row_scaler_init.
LEMMA InitStreams ==
  ASSUME NEW src, IsSize(src), NEW out, IsSize(out)
  PROVE  LET s == ScalerInit(src, out)
         IN  Streams(s, src, out, 0) /\ s.next = 0 /\ s.sums = {}
<1> DEFINE c == CoverCrop(src, out)
           D == out.h
           s == ScalerInit(src, out)
<1>1. IsCrop(c) /\ D \in Nat \ {0}
  BY CropFits DEF IsSize
<1>2. s = [crop |-> c, out_h |-> D, next |-> 0, rows |-> AxisSpan(c.y, c.h, D, 0), sums |-> {},
           written |-> <<>>]
  BY DEF ScalerInit
<1> HIDE DEF c, D, s
<1>3. AxisSpan(c.y, c.h, D, 0) \in [start : Int, count : Int] /\ Bound(c, D, 0) \in Nat
  <2>1. 0 \in 0 .. D - 1
    BY <1>1
  <2>2. AxisSpan(c.y, c.h, D, 0) = [start |-> Bound(c, D, 0), count |-> End(c, D, 0) - Bound(c, D, 0)]
        /\ End(c, D, 0) \in Nat
    BY <1>1, <2>1, SpanIs
  <2>3. Bound(c, D, 0) \in Nat
    BY <1>1, <2>1, Bounds
  <2> QED
    BY <2>2, <2>3
<1>4. s \in Scalers(c, D) /\ s.written = <<>> /\ s.next = 0 /\ s.sums = {}
      /\ s.rows = AxisSpan(c.y, c.h, D, 0)
  BY <1>1, <1>2, <1>3 DEF Scalers
<1>5. Fed(s, c, D, 0)
  <2>1. Len(s.written) = s.next /\ 1 .. s.next = {}
    BY <1>4
  <2>2. 0 <= Bound(c, D, s.next)
    BY <1>3, <1>4
  <2> QED
    BY <1>4, <2>1, <2>2 DEF Fed, ScalerOk
<1> QED
  BY <1>4, <1>5 DEF Streams, c, D, s

\* And matuwall_row_scaler_push, for pictures.
LEMMA PushedStreams ==
  ASSUME NEW src, IsSize(src), NEW out, IsSize(out), NEW y \in Nat, NEW s, Streams(s, src, out, y)
  PROVE  Streams(Pushed(s, y), src, out, y + 1)
<1>1. IsCrop(CoverCrop(src, out)) /\ out.h \in Nat \ {0}
  BY CropFits DEF IsSize
<1> QED
  BY <1>1, PushedOk DEF Streams

\* The last row of a picture finishes the last box.
LEMMA AllStreamed ==
  ASSUME NEW src, IsSize(src), NEW out, IsSize(out), NEW s, Streams(s, src, out, src.h)
  PROVE  ScalerDone(s)
<1> DEFINE c == CoverCrop(src, out)
           D == out.h
           e == End(c, D, s.next)
<1>1. IsCrop(c) /\ D \in Nat \ {0} /\ c.y + c.h <= src.h /\ src.h \in Nat
  BY CropFits DEF IsSize
<1>2. s.next \in 0 .. D /\ s.out_h = D /\ ScalerOk(s, c, D)
  BY DEF Streams, Fed, ScalerOk, Scalers
<1>3. SUFFICES ASSUME s.next < D PROVE FALSE
  BY <1>1, <1>2 DEF ScalerDone
<1>4. e \in Nat /\ e <= c.y + c.h /\ Bound(c, D, s.next) \in Nat /\ Bound(c, D, s.next) < e
      /\ c.y + c.h \in Nat
  <2> HIDE DEF c, D
  <2> QED
    BY <1>1, <1>2, <1>3, SpanOfNext DEF IsCrop
<1>5. src.h <= Bound(c, D, s.next) \/ src.h < e
  BY <1>3 DEF Streams, Fed
<1> HIDE DEF c, D, e
<1> QED
  BY <1>1, <1>4, <1>5

\* What is written is written right.
WrittenOk(s) == \A i \in 1 .. s.next : s.written[i] = Box(s.crop, s.out_h, i - 1)

\* A scaler that is fed in order has written the right rows.
LEMMA StreamsAreExact ==
  ASSUME NEW src, NEW out, NEW y, NEW s, Streams(s, src, out, y)
  PROVE  WrittenOk(s)
BY DEF Streams, Fed, ScalerOk, Scalers, WrittenOk

-----------------------------------------------------------------------------
(* The sizes a JPEG may be decoded to. *)

\* No scale makes a picture of no pixels.
LEMMA ScaledIsSize ==
  ASSUME NEW s, IsSize(s), NEW num \in 1 .. 8
  PROVE  IsSize(ScaledSize(s, num))
<1>1. \A a \in Nat \ {0} : Ceiling(a * num, 8) \in Nat \ {0}
  <2>1. ASSUME NEW a \in Nat \ {0} PROVE Ceiling(a * num, 8) \in Nat \ {0}
    <3> DEFINE p == a * num
    <3>1. p \in Nat \ {0}
      OBVIOUS
    <3> HIDE DEF p
    <3>2. (p + 8 - 1) \div 8 \in Nat \ {0}
      BY <3>1
    <3> QED
      BY <3>2 DEF Ceiling, p
  <2> QED
    BY <2>1
<1>2. s.w \in Nat \ {0} /\ s.h \in Nat \ {0}
  BY DEF IsSize
<1>3. Ceiling(s.w * num, 8) \in Nat \ {0} /\ Ceiling(s.h * num, 8) \in Nat \ {0}
  BY <1>1, <1>2
<1> QED
  BY <1>3 DEF ScaledSize, IsSize

\* The scale is one that libjpeg has.
LEMMA ScaleInRange ==
  ASSUME NEW s, NEW target
  PROVE  ScaleForTarget(s, target) \in 1 .. 8
<1> DEFINE enough == {num \in {1, 2, 4} : Covers(ScaledSize(s, num), target)}
           least == CHOOSE n \in enough : \A m \in enough : n <= m
           num == IF enough = {} THEN 8 ELSE least
           exact == {n \in 1 .. 7 : ScaledSize(s, n) = target}
           most == CHOOSE n \in exact : \A m \in exact : n >= m
<1>1. enough \subseteq {1, 2, 4} /\ exact \subseteq 1 .. 7
  OBVIOUS
<1>2. ScaleForTarget(s, target) = IF ScaledSize(s, num) = target \/ exact = {} THEN num ELSE most
  BY DEF ScaleForTarget
<1> HIDE DEF enough, exact
<1>3. enough # {} => least \in enough
  <2>1. ASSUME enough # {} PROVE \E n \in enough : \A m \in enough : n <= m
    <3>1. \A n \in enough : n \in {1, 2, 4}
      BY <1>1
    <3> QED
      BY <2>1, <3>1
  <2> QED
    BY <2>1
<1>4. exact # {} => most \in exact
  <2>1. ASSUME exact # {} PROVE \E n \in exact : \A m \in exact : n >= m
    <3>1. \A n \in exact : n \in {1, 2, 3, 4, 5, 6, 7}
      BY <1>1
    <3> QED
      BY <2>1, <3>1
  <2> QED
    BY <2>1
<1> HIDE DEF least, most
<1>5. num \in 1 .. 8
  <2>1. enough # {} => least \in {1, 2, 4}
    BY <1>1, <1>3
  <2> QED
    BY <2>1
<1> HIDE DEF num
<1>6. exact # {} => most \in 1 .. 8
  <2>1. exact # {} => most \in 1 .. 7
    BY <1>1, <1>4
  <2> QED
    BY <2>1
<1> QED
  BY <1>2, <1>5, <1>6

-----------------------------------------------------------------------------
(* The rows of a decode.                                                   *)

PngPlaces == {"png", "png_info", "png_reserve", "png_alloc", "png_rows"}
JpegPlaces ==
  {"jpeg", "jpeg_header", "jpeg_start", "jpeg_scans", "jpeg_output", "jpeg_alloc", "jpeg_rows"}

\* Before the first row.
Early == ({"none", "open"} \union WithFile) \ {"png_rows", "jpeg_rows"}

Written(s) == s = <<>> \/ WrittenOk(s)

PngStreams(d) ==
  /\ d.pass \in 1 .. d.file.passes /\ d.y \in 0 .. d.file.size.h
  /\ Streams(d.scaler, d.file.size, d.job.target, IF d.pass = d.file.passes THEN d.y ELSE 0)
  /\ d.pass # d.file.passes => d.scaler.next = 0 /\ d.scaler.sums = {}

JpegStreams(d) ==
  IF Direct(d) THEN d.scaler = <<>>
  ELSE d.y \in 0 .. OutputSize(d).h /\ Streams(d.scaler, OutputSize(d), d.job.target, d.y)

RowsOk(d) ==
  /\ d.at # "none" => IsSize(d.job.target)
  /\ d.at \in PngPlaces => d.file \in Files /\ d.file.format = "png"
  /\ d.at \in JpegPlaces => d.file \in Files /\ d.file.format = "jpeg"
  /\ d.at \in Early => d.scaler = <<>> /\ d.y = 0 /\ d.pass = 1
  /\ d.at = "png_rows" => PngStreams(d)
  /\ d.at = "jpeg_rows" => JpegStreams(d)
  /\ d.at \in {"failed", "done"} => Written(d.scaler)
  /\ d.at = "done" => d.scaler = <<>> \/ ScalerDone(d.scaler)

\* Where w has come to, what it has written is right.
RowedTo(w) == \E c : Becomes(w, c) /\ RowsOk(c)

\* What both have in common when a step does nothing to rows.
Alike(c, d) ==
  /\ IsDecode(c) /\ IsDecode(d)
  /\ c.scaler = d.scaler /\ c.y = d.y /\ c.pass = d.pass /\ c.job = d.job /\ c.file = d.file

\* What is known of the sizes of a PNG.
LEMMA PngSizes ==
  ASSUME NEW d, RowsOk(d), d.at \in PngPlaces
  PROVE  IsSize(d.file.size) /\ d.file.passes \in Nat \ {0} /\ IsSize(d.job.target)
<1>1. d.at # "none" /\ d.file \in Files /\ d.file.format = "png"
  BY DEF RowsOk, PngPlaces
<1> QED
  BY <1>1, SizeAssumption DEF RowsOk, IsSize

\* And of a JPEG.
LEMMA JpegSizes ==
  ASSUME NEW d, RowsOk(d), d.at \in JpegPlaces
  PROVE  IsSize(OutputSize(d)) /\ IsSize(d.job.target)
<1>1. d.at # "none" /\ d.file \in Files /\ d.file.format = "jpeg"
  BY DEF RowsOk, JpegPlaces
<1>2. IsSize(d.file.size)
  BY <1>1, SizeAssumption DEF IsSize
<1>3. Scale(d) \in 1 .. 8
  BY ScaleInRange DEF Scale
<1>4. IsSize(OutputSize(d))
  BY <1>2, <1>3, ScaledIsSize DEF OutputSize
<1> QED
  BY <1>1, <1>4 DEF RowsOk

\* Wherever a decode is, what it has written is right.
LEMMA WrittenSoFar ==
  ASSUME NEW d, DecodeOk(d), RowsOk(d)
  PROVE  Written(d.scaler)
<1>1. d.at \in Early \union {"png_rows", "jpeg_rows", "failed", "done"}
  BY DEF DecodeOk, Early
<1>2. CASE d.at \in Early \union {"failed", "done"}
  BY <1>2 DEF RowsOk, Written
<1>3. CASE d.at = "png_rows"
  BY <1>3, StreamsAreExact DEF RowsOk, PngStreams, Written
<1>4. CASE d.at = "jpeg_rows"
  BY <1>4, StreamsAreExact DEF RowsOk, JpegStreams, Written
<1> QED
  BY <1>1, <1>2, <1>3, <1>4

\* Reading does nothing to the rows.
LEMMA AfterRead ==
  ASSUME NEW d, IsDecode(d)
  PROVE  Alike(Read(d), d) /\ Read(d).at = d.at
BY DEF IsDecode, NoDecode, Read, Alike

\* An end that leaves the rows as they are.
LEMMA FailedRows ==
  ASSUME NEW d, DecodeOk(d), RowsOk(d), d.at # "none", NEW c, Alike(c, d), NEW frees
  PROVE  RowsOk(Failed(c, frees))
<1> DEFINE f == Failed(c, frees)
<1>1. f.at = "failed" /\ f.scaler = d.scaler /\ f.job = d.job
  BY DEF Alike, IsDecode, NoDecode, Failed
<1> HIDE DEF f
<1>2. Written(f.scaler) /\ IsSize(f.job.target)
  BY <1>1, WrittenSoFar DEF RowsOk
<1>3. RowsOk(f)
  BY <1>1, <1>2 DEF RowsOk, PngPlaces, JpegPlaces, Early, WithFile
<1> QED
  BY <1>3 DEF f

\* A step before the first row, also one to the end of a decode without rows.
LEMMA EarlyRows ==
  ASSUME NEW d, RowsOk(d), d.at \in Early, d.at # "none", NEW c, Alike(c, d),
         c.at \in Early \union {"done"},
         c.at \in PngPlaces => d.at \in PngPlaces, c.at \in JpegPlaces => d.at \in JpegPlaces
  PROVE  RowsOk(c)
<1>1. d.scaler = <<>> /\ d.y = 0 /\ d.pass = 1 /\ IsSize(d.job.target)
  BY DEF RowsOk
<1>2. c.scaler = <<>> /\ c.y = 0 /\ c.pass = 1 /\ IsSize(c.job.target) /\ c.file = d.file
  BY <1>1 DEF Alike
<1>3. c.at \notin {"png_rows", "jpeg_rows", "failed"}
  BY DEF Early, WithFile
<1> QED
  BY <1>2, <1>3 DEF RowsOk, Written

LEMMA OpenRows ==
  ASSUME NEW w, DecodeOk(dec[w]), RowsOk(dec[w]), OpenRegular(w)
  PROVE  RowedTo(w)
<1> DEFINE d == dec[w]
<1>1. IsDecode(d) /\ d.at = "open" /\ Alike(d, d)
  BY DEF OpenRegular, DecodeOk, Alike
<1>2. d.scaler = <<>> /\ d.y = 0 /\ d.pass = 1 /\ IsSize(d.job.target)
  BY <1>1 DEF RowsOk, Early
<1>3. CASE Becomes(w, Failed(d, {}))
  BY <1>1, <1>3, FailedRows DEF RowedTo
<1>4. ASSUME NEW file \in Files,
             NEW opened, opened = [Read(d) EXCEPT !.held = {"fp"}, !.file = file],
             IF file.format = "other" THEN Becomes(w, Failed(opened, {}))
             ELSE Becomes(w, [opened EXCEPT !.at = file.format])
      PROVE  RowedTo(w)
  <2>1. IsDecode(opened) /\ opened.job = d.job /\ opened.scaler = <<>> /\ opened.y = 0
        /\ opened.pass = 1 /\ opened.file = file
    BY <1>1, <1>2, <1>4 DEF Read, IsDecode, NoDecode
  <2>2. CASE file.format = "other"
    <3> DEFINE f == Failed(opened, {})
    <3>1. f.at = "failed" /\ f.scaler = <<>> /\ f.job = d.job
      BY <2>1 DEF IsDecode, NoDecode, Failed
    <3> HIDE DEF f
    <3>2. RowsOk(f)
      BY <1>2, <3>1 DEF RowsOk, Written, PngPlaces, JpegPlaces, Early, WithFile
    <3> QED
      BY <1>4, <2>2, <3>2 DEF RowedTo, f
  <2>3. CASE file.format # "other"
    <3> DEFINE c == [opened EXCEPT !.at = file.format]
    <3>1. /\ c.at = file.format /\ c.job = d.job /\ c.file = file
          /\ c.scaler = <<>> /\ c.y = 0 /\ c.pass = 1
      BY <2>1 DEF IsDecode, NoDecode
    <3>2. c.at \in {"png", "jpeg", "webp"}
      BY <2>3, <3>1, FormatAssumption
    <3>3. Becomes(w, c)
      BY <1>4, <2>3
    <3> HIDE DEF c
    <3>4. RowsOk(c)
      BY <1>2, <3>1, <3>2 DEF RowsOk, PngPlaces, JpegPlaces
    <3> QED
      BY <3>3, <3>4 DEF RowedTo
  <2> QED
    BY <2>2, <2>3
<1> QED
  BY <1>3, <1>4 DEF OpenRegular

\* The steps of a PNG before its buffers.
LEMMA PngEarlyRows ==
  ASSUME NEW w, DecodeOk(dec[w]), RowsOk(dec[w]), PngCreate(w) \/ PngInfo(w) \/ PngReserve(w)
  PROVE  RowedTo(w)
<1> DEFINE d == dec[w]
           r == Read(dec[w])
<1>1. IsDecode(d) /\ IsDecode(r) /\ r.at = d.at /\ Alike(r, d) /\ Alike(d, d)
  BY AfterRead DEF DecodeOk, Alike
<1>2. d.at \in {"png", "png_info", "png_reserve"}
  BY <1>1 DEF PngCreate, PngInfo, PngReserve
<1>3. ASSUME NEW x, x \in {d, r}, NEW frees PROVE RowsOk(Failed(x, frees))
  <2> HIDE DEF d, r
  <2>1. DecodeOk(d) /\ RowsOk(d) /\ Alike(x, d) /\ d.at # "none"
    BY <1>1, <1>2, <1>3 DEF d
  <2> QED
    BY <2>1, FailedRows
<1>4. ASSUME NEW c, Alike(c, d), c.at \in {"png_info", "png_reserve", "png_alloc"} PROVE RowsOk(c)
  BY <1>2, <1>4, EarlyRows DEF Early, WithFile, PngPlaces, JpegPlaces
<1>5. CASE PngCreate(w)
  <2> DEFINE c == [d EXCEPT !.at = "png_info", !.held = @ \union {"png", "buffers"}]
  <2>1. Alike(c, d) /\ c.at = "png_info"
    BY <1>1 DEF Alike, IsDecode, NoDecode
  <2> HIDE DEF c
  <2>2. RowsOk(c)
    BY <1>4, <2>1
  <2> QED
    BY <1>3, <1>5, <2>2 DEF PngCreate, RowedTo, c
<1>6. CASE PngInfo(w)
  <2> DEFINE c == [r EXCEPT !.at = "png_reserve"]
  <2> HIDE DEF d, r
  <2>1. Alike(c, d) /\ c.at = "png_reserve"
    BY <1>1 DEF Alike, IsDecode, NoDecode
  <2> HIDE DEF c
  <2>2. RowsOk(c)
    BY <1>4, <2>1
  <2>3. RowsOk(PngJump(r)) /\ RowsOk(Failed(r, {"buffers", "png"}))
    BY <1>3 DEF PngJump
  <2> QED
    BY <1>6, <2>2, <2>3 DEF PngInfo, RowedTo, c, r
<1>7. CASE PngReserve(w)
  <2> DEFINE c == [d EXCEPT !.at = "png_alloc", !.granted = ImageMemory \union PngBuffers]
  <2>1. Alike(c, d) /\ c.at = "png_alloc"
    BY <1>1 DEF Alike, IsDecode, NoDecode
  <2> HIDE DEF c
  <2>2. RowsOk(c)
    BY <1>4, <2>1
  <2> QED
    BY <1>3, <1>7, <2>2 DEF PngReserve, RowedTo, c
<1> QED
  BY <1>5, <1>6, <1>7

\* The first row is awaited with a scaler for the whole picture.
LEMMA PngAllocRows ==
  ASSUME NEW w, DecodeOk(dec[w]), RowsOk(dec[w]), PngAlloc(w)
  PROVE  RowedTo(w)
<1> DEFINE d == dec[w]
<1>1. IsDecode(d) /\ d.at = "png_alloc"
  BY DEF PngAlloc, DecodeOk
<1>2. /\ d.y = 0 /\ d.pass = 1 /\ IsSize(d.file.size) /\ d.file.passes \in Nat \ {0}
      /\ IsSize(d.job.target) /\ d.file \in Files /\ d.file.format = "png"
  BY <1>1, PngSizes DEF RowsOk, Early, WithFile, PngPlaces
<1> DEFINE s == ScalerInit(d.file.size, d.job.target)
<1>3. Streams(s, d.file.size, d.job.target, 0) /\ s.next = 0 /\ s.sums = {}
  BY <1>2, InitStreams
<1> HIDE DEF s
<1>4. ASSUME NEW image \in AllocTarget(d), NEW rows \in {{"rows"}, {}}, NEW columns \in {{"columns"}, {}},
             NEW got, got = [d EXCEPT !.held = @ \union image \union rows \union columns],
             IF columns # {} THEN Becomes(w, [got EXCEPT !.at = "png_rows", !.scaler = s])
             ELSE Becomes(w, PngJump(got))
      PROVE  RowedTo(w)
  <2>1. Alike(got, d)
    BY <1>1, <1>4 DEF Alike, IsDecode, NoDecode
  <2>2. RowsOk(PngJump(got))
    BY <1>1, <2>1, FailedRows DEF PngJump
  <2> DEFINE c == [got EXCEPT !.at = "png_rows", !.scaler = s]
  <2>3. c.at = "png_rows" /\ c.scaler = s /\ c.y = 0 /\ c.pass = 1 /\ c.job = d.job /\ c.file = d.file
    BY <1>2, <2>1 DEF Alike, IsDecode, NoDecode
  <2> HIDE DEF c, d
  <2>4. PngStreams(c)
    <3>1. 1 \in 1 .. c.file.passes /\ 0 \in 0 .. c.file.size.h
      BY <1>2, <2>3 DEF IsSize
    <3> QED
      BY <1>3, <2>3, <3>1 DEF PngStreams
  <2>5. RowsOk(c)
    BY <1>2, <2>3, <2>4 DEF RowsOk, PngPlaces, JpegPlaces, Early, WithFile
  <2> QED
    BY <1>4, <2>2, <2>5 DEF RowedTo, c
<1> QED
  BY <1>4 DEF PngAlloc, s

\* Only the rows of the last pass are pushed.
LEMMA PngRowsRows ==
  ASSUME NEW w, DecodeOk(dec[w]), RowsOk(dec[w]), PngRows(w)
  PROVE  RowedTo(w)
<1> DEFINE d == dec[w]
           read == [Read(d) EXCEPT !.y = @ + 1]
<1>1. IsDecode(d) /\ Alike(d, d) /\ d.at = "png_rows"
  BY DEF PngRows, DecodeOk, Alike
<1>2. /\ PngStreams(d) /\ IsSize(d.file.size) /\ d.file.passes \in Nat \ {0}
      /\ IsSize(d.job.target) /\ d.file \in Files /\ d.file.format = "png"
  BY <1>1, PngSizes DEF RowsOk, PngPlaces
<1>3. d.pass \in 1 .. d.file.passes /\ d.y \in 0 .. d.file.size.h /\ d.file.size.h \in Nat
  BY <1>2 DEF PngStreams, IsSize
<1>4. RowsOk(PngJump(d))
  BY <1>1, FailedRows DEF PngJump
<1>5. ASSUME NEW c, c.at = "png_rows", c.file = d.file, c.job = d.job, PngStreams(c) PROVE RowsOk(c)
  <2> HIDE DEF d, read
  <2> QED
    BY <1>2, <1>5 DEF RowsOk, PngPlaces, JpegPlaces, Early, WithFile
<1>6. IsDecode(read) /\ read.at = "png_rows" /\ read.file = d.file /\ read.job = d.job
      /\ read.scaler = d.scaler /\ read.pass = d.pass /\ read.y = d.y + 1
  BY <1>1 DEF Read, IsDecode, NoDecode
<1> HIDE DEF read
<1>7. CASE d.y < d.file.size.h /\ Becomes(w, PngRow(d))
  <2>1. d.y \in Nat /\ d.y + 1 \in 0 .. d.file.size.h
    BY <1>3, <1>7
  <2>2. CASE d.pass = d.file.passes
    <3> DEFINE s == Pushed(d.scaler, d.y)
               c == [read EXCEPT !.scaler = s]
    <3>1. PngRow(d) = c
      BY <1>6, <2>2 DEF PngRow, read
    <3>2. Streams(d.scaler, d.file.size, d.job.target, d.y)
      BY <1>2, <2>2 DEF PngStreams
    <3>3. Streams(s, d.file.size, d.job.target, d.y + 1)
      BY <1>2, <2>1, <3>2, PushedStreams
    <3> HIDE DEF s
    <3>4. c.at = "png_rows" /\ c.file = d.file /\ c.job = d.job /\ c.scaler = s /\ c.pass = d.pass
          /\ c.y = d.y + 1
      BY <1>6 DEF IsDecode, NoDecode
    <3> HIDE DEF c, d
    <3>5. PngStreams(c)
      BY <1>3, <2>1, <2>2, <3>3, <3>4 DEF PngStreams
    <3>6. RowsOk(c)
      BY <1>5, <3>4, <3>5
    <3> QED
      BY <1>7, <3>1, <3>6 DEF RowedTo
  <2>3. CASE d.pass # d.file.passes
    <3>1. PngRow(d) = read
      BY <2>3 DEF PngRow, read
    <3> HIDE DEF d
    <3>2. PngStreams(read)
      BY <1>2, <1>3, <1>6, <2>1, <2>3 DEF PngStreams
    <3>3. RowsOk(read)
      BY <1>5, <1>6, <3>2
    <3> QED
      BY <1>7, <3>1, <3>3 DEF RowedTo
  <2> QED
    BY <2>2, <2>3
<1>8. CASE d.y = d.file.size.h /\ d.pass < d.file.passes /\ Becomes(w, [d EXCEPT !.pass = @ + 1, !.y = 0])
  <2> DEFINE c == [d EXCEPT !.pass = @ + 1, !.y = 0]
  <2>1. c.at = "png_rows" /\ c.file = d.file /\ c.job = d.job /\ c.scaler = d.scaler
        /\ c.pass = d.pass + 1 /\ c.y = 0
    BY <1>1 DEF IsDecode, NoDecode
  <2>2. Becomes(w, c)
    BY <1>8
  <2> HIDE DEF c, d
  <2>3. Streams(d.scaler, d.file.size, d.job.target, 0) /\ d.scaler.next = 0 /\ d.scaler.sums = {}
    BY <1>2, <1>3, <1>8 DEF PngStreams
  <2>4. d.pass + 1 \in 1 .. d.file.passes /\ 0 \in 0 .. d.file.size.h
    BY <1>2, <1>3, <1>8
  <2>5. (IF c.pass = c.file.passes THEN c.y ELSE 0) = 0
    BY <2>1
  <2>6. PngStreams(c)
    BY <2>1, <2>3, <2>4, <2>5 DEF PngStreams
  <2> QED
    BY <1>5, <2>1, <2>2, <2>6 DEF RowedTo
<1>9. CASE /\ d.y = d.file.size.h /\ d.pass = d.file.passes
           /\ Becomes(w, Done(d, PngBuffers \union {"buffers", "png"}))
  <2> DEFINE f == Done(d, PngBuffers \union {"buffers", "png"})
  <2>1. f.at = "done" /\ f.scaler = d.scaler /\ f.job = d.job
    BY <1>1 DEF IsDecode, NoDecode, Done
  <2>2. Streams(d.scaler, d.file.size, d.job.target, d.file.size.h)
    BY <1>2, <1>9 DEF PngStreams
  <2>3. ScalerDone(d.scaler) /\ Written(d.scaler)
    BY <1>2, <2>2, AllStreamed, StreamsAreExact DEF Written
  <2> HIDE DEF f, d
  <2>4. RowsOk(f)
    BY <1>2, <2>1, <2>3 DEF RowsOk, PngPlaces, JpegPlaces, Early, WithFile
  <2> QED
    BY <1>9, <2>4 DEF RowedTo, f
<1> QED
  BY <1>4, <1>7, <1>8, <1>9 DEF PngRows, RowedTo

\* The steps of a JPEG before its buffers.
LEMMA JpegEarlyRows ==
  ASSUME NEW w, DecodeOk(dec[w]), RowsOk(dec[w]),
         JpegCreate(w) \/ JpegReserve(w) \/ JpegStart(w) \/ ConsumeScans(w)
  PROVE  RowedTo(w)
<1> DEFINE d == dec[w]
           r == Read(dec[w])
<1>1. IsDecode(d) /\ IsDecode(r) /\ r.at = d.at /\ Alike(r, d) /\ Alike(d, d)
  BY AfterRead DEF DecodeOk, Alike
<1>2. d.at \in {"jpeg", "jpeg_header", "jpeg_start", "jpeg_scans"}
  BY <1>1 DEF JpegCreate, JpegReserve, JpegStart, ConsumeScans
<1>3. ASSUME NEW x, x \in {d, r}, NEW frees PROVE RowsOk(Failed(x, frees))
  <2> HIDE DEF d, r
  <2>1. DecodeOk(d) /\ RowsOk(d) /\ Alike(x, d) /\ d.at # "none"
    BY <1>1, <1>2, <1>3 DEF d
  <2> QED
    BY <2>1, FailedRows
<1>4. ASSUME NEW c, Alike(c, d), c.at \in JpegPlaces \ {"jpeg_rows"} PROVE RowsOk(c)
  <2> HIDE DEF d, r
  <2>1. RowsOk(d) /\ d.at \in Early /\ d.at # "none" /\ d.at \in JpegPlaces
    BY <1>2 DEF Early, WithFile, JpegPlaces, d
  <2>2. c.at \in Early /\ c.at \notin PngPlaces
    BY <1>4 DEF Early, WithFile, JpegPlaces, PngPlaces
  <2> QED
    BY <1>4, <2>1, <2>2, EarlyRows
<1>5. CASE JpegCreate(w)
  <2> DEFINE c == [d EXCEPT !.at = "jpeg_header", !.held = @ \union {"stream", "cinfo"}]
  <2>1. Alike(c, d) /\ c.at = "jpeg_header"
    BY <1>1 DEF Alike, IsDecode, NoDecode
  <2> HIDE DEF c
  <2>2. RowsOk(c)
    BY <1>4, <2>1 DEF JpegPlaces
  <2> QED
    BY <1>3, <1>5, <2>2 DEF JpegCreate, RowedTo, c
<1>6. CASE JpegReserve(w)
  <2> DEFINE c == [r EXCEPT !.at = "jpeg_start", !.granted = JpegPeak(r)]
  <2> HIDE DEF d, r
  <2>1. Alike(c, d) /\ c.at = "jpeg_start"
    BY <1>1 DEF Alike, IsDecode, NoDecode
  <2> HIDE DEF c
  <2>2. RowsOk(c)
    BY <1>4, <2>1 DEF JpegPlaces
  <2>3. RowsOk(JpegFails(r))
    BY <1>3 DEF JpegFails
  <2> QED
    BY <1>6, <2>2, <2>3 DEF JpegReserve, RowedTo, c, r
<1>7. CASE JpegStart(w)
  <2> DEFINE c == [r EXCEPT !.at = "jpeg_scans", !.scan = 1, !.inside = TRUE,
                             !.held = @ \union {"coefficients"}]
             s == [r EXCEPT !.at = "jpeg_alloc"]
  <2> HIDE DEF d, r
  <2>1. Alike(c, d) /\ c.at = "jpeg_scans" /\ Alike(s, d) /\ s.at = "jpeg_alloc"
    BY <1>1 DEF Alike, IsDecode, NoDecode
  <2> HIDE DEF c, s
  <2>2. RowsOk(c) /\ RowsOk(s)
    BY <1>4, <2>1 DEF JpegPlaces
  <2>3. RowsOk(JpegFails(r))
    BY <1>3 DEF JpegFails
  <2>4. Becomes(w, JpegFails(r)) \/ Becomes(w, IF MultiScan(r) THEN c ELSE s)
    BY <1>7 DEF JpegStart, c, s, r
  <2> QED
    BY <2>2, <2>3, <2>4 DEF RowedTo
<1>8. CASE ConsumeScans(w)
  <2> DEFINE c == Consumed(r)
  <2>1. Becomes(w, JpegFails(r)) \/ Becomes(w, c)
    BY <1>8 DEF ConsumeScans
  <2> HIDE DEF d, r
  <2>2. r.at = "jpeg_scans"
    BY <1>8 DEF ConsumeScans, r
  <2>3. Alike(c, d) /\ c.at \in {"jpeg_scans", "jpeg_output"}
    <3>1. CASE r.inside
      <4>1. c = [r EXCEPT !.inside = FALSE, !.at = IF DcOnly(r) /\ DcExact(r) THEN "jpeg_output" ELSE @]
        BY <3>1 DEF Consumed
      <4> HIDE DEF c
      <4> QED
        BY <1>1, <2>2, <4>1 DEF Alike, IsDecode, NoDecode
    <3>2. CASE ~r.inside
      <4>1. c = [r EXCEPT !.at = "jpeg_output"] \/ c = [r EXCEPT !.scan = @ + 1, !.inside = TRUE]
        BY <3>2 DEF Consumed
      <4> HIDE DEF c
      <4> QED
        BY <1>1, <2>2, <4>1 DEF Alike, IsDecode, NoDecode
    <3> QED
      BY <3>1, <3>2
  <2> HIDE DEF c
  <2>4. RowsOk(c)
    BY <1>4, <2>3 DEF JpegPlaces
  <2>5. RowsOk(JpegFails(r))
    BY <1>3 DEF JpegFails
  <2> QED
    BY <2>1, <2>4, <2>5 DEF RowedTo
<1> QED
  BY <1>5, <1>6, <1>7, <1>8

\* A JPEG that is not read directly gets a scaler for the scaled picture.
LEMMA JpegAllocRows ==
  ASSUME NEW w, DecodeOk(dec[w]), RowsOk(dec[w]), JpegAlloc(w)
  PROVE  RowedTo(w)
<1> DEFINE d == dec[w]
<1>1. IsDecode(d) /\ Alike(d, d) /\ d.at \in {"jpeg_output", "jpeg_alloc"}
  BY DEF JpegAlloc, DecodeOk, Alike
<1>2. /\ d.scaler = <<>> /\ d.y = 0 /\ IsSize(OutputSize(d)) /\ IsSize(d.job.target)
      /\ d.file \in Files /\ d.file.format = "jpeg"
  BY <1>1, JpegSizes DEF RowsOk, Early, WithFile, JpegPlaces
<1> DEFINE s == IF Direct(d) THEN <<>> ELSE ScalerInit(OutputSize(d), d.job.target)
<1>3. ~Direct(d) => Streams(s, OutputSize(d), d.job.target, 0)
  BY <1>2, InitStreams
<1>4. Direct(d) => s = <<>>
  OBVIOUS
<1>5. ASSUME NEW image \in AllocTarget(d), NEW row \in {{"row"}, {}}, NEW columns \in {{"columns"}, {}},
             NEW got, got = [d EXCEPT !.held = @ \union image \union row \union columns],
             IF HasImage(image) /\ (Direct(d) \/ columns # {})
             THEN Becomes(w, [got EXCEPT !.at = "jpeg_rows",
                    !.scaler = IF Direct(d) THEN @ ELSE ScalerInit(OutputSize(d), d.job.target)])
             ELSE Becomes(w, JpegFails(got))
      PROVE  RowedTo(w)
  <2>1. Alike(got, d)
    BY <1>1, <1>5 DEF Alike, IsDecode, NoDecode
  <2>2. RowsOk(JpegFails(got))
    BY <1>1, <2>1, FailedRows DEF JpegFails
  <2> DEFINE c == [got EXCEPT !.at = "jpeg_rows",
                    !.scaler = IF Direct(d) THEN @ ELSE ScalerInit(OutputSize(d), d.job.target)]
  <2>3. c.at = "jpeg_rows" /\ c.y = 0 /\ c.job = d.job /\ c.file = d.file
        /\ c.scaler = IF Direct(d) THEN got.scaler ELSE ScalerInit(OutputSize(d), d.job.target)
    <3> HIDE DEF d
    <3> QED
      BY <1>2, <2>1 DEF Alike, IsDecode, NoDecode
  <2>4. c.scaler = s
    BY <1>2, <2>1, <2>3 DEF Alike
  <2>5. Becomes(w, JpegFails(got)) \/ Becomes(w, c)
    BY <1>5
  <2> HIDE DEF c, d, s
  <2>6. Direct(c) = Direct(d) /\ OutputSize(c) = OutputSize(d)
    BY <2>3, SameFile
  <2>7. JpegStreams(c)
    <3>1. 0 \in 0 .. OutputSize(c).h
      BY <1>2, <2>6 DEF IsSize
    <3> QED
      BY <1>3, <1>4, <2>3, <2>4, <2>6, <3>1 DEF JpegStreams
  <2>8. RowsOk(c)
    BY <1>2, <2>3, <2>7 DEF RowsOk, PngPlaces, JpegPlaces, Early, WithFile
  <2> QED
    BY <2>2, <2>5, <2>8 DEF RowedTo
<1>6. CASE Becomes(w, JpegFails(d))
  <2>1. RowsOk(JpegFails(d))
    BY <1>1, FailedRows DEF JpegFails
  <2> QED
    BY <1>6, <2>1 DEF RowedTo
<1> QED
  BY <1>5, <1>6 DEF JpegAlloc

\* Each row that libjpeg gives is pushed once, until the last box is written.
LEMMA JpegRowsRows ==
  ASSUME NEW w, DecodeOk(dec[w]), RowsOk(dec[w]), JpegRows(w)
  PROVE  RowedTo(w)
<1> DEFINE d == dec[w]
           read == [Read(d) EXCEPT !.y = @ + 1]
<1>1. IsDecode(d) /\ Alike(d, d) /\ d.at = "jpeg_rows"
  BY DEF JpegRows, DecodeOk, Alike
<1>2. /\ JpegStreams(d) /\ IsSize(OutputSize(d)) /\ IsSize(d.job.target)
      /\ d.file \in Files /\ d.file.format = "jpeg"
  BY <1>1, JpegSizes DEF RowsOk, JpegPlaces
<1>3. RowsOk(JpegFails(d))
  BY <1>1, FailedRows DEF JpegFails
<1>4. ASSUME NEW c, c.at = "jpeg_rows", c.file = d.file, c.job = d.job, JpegStreams(c) PROVE RowsOk(c)
  <2> HIDE DEF d, read
  <2> QED
    BY <1>2, <1>4 DEF RowsOk, PngPlaces, JpegPlaces, Early, WithFile
<1>5. IsDecode(read) /\ read.at = "jpeg_rows" /\ read.file = d.file /\ read.job = d.job
      /\ read.scaler = d.scaler /\ read.y = d.y + 1
  BY <1>1 DEF Read, IsDecode, NoDecode
<1>6. CASE Direct(d) /\ Becomes(w, read)
  <2> HIDE DEF d, read
  <2>1. Direct(read) = Direct(d)
    BY <1>5, SameFile
  <2>2. JpegStreams(read)
    BY <1>2, <1>5, <1>6, <2>1 DEF JpegStreams
  <2> QED
    BY <1>4, <1>5, <1>6, <2>2 DEF RowedTo
<1>7. CASE ~Direct(d) /\ d.y < OutputSize(d).h /\ Becomes(w, [read EXCEPT !.scaler = Pushed(@, d.y)])
  <2> DEFINE s == Pushed(d.scaler, d.y)
             c == [read EXCEPT !.scaler = Pushed(@, d.y)]
  <2> HIDE DEF d, read
  <2>1. c.at = "jpeg_rows" /\ c.file = d.file /\ c.job = d.job /\ c.scaler = s /\ c.y = d.y + 1
    BY <1>5 DEF IsDecode, NoDecode
  <2>2. d.y \in 0 .. OutputSize(d).h /\ Streams(d.scaler, OutputSize(d), d.job.target, d.y)
    BY <1>2, <1>7 DEF JpegStreams
  <2>3. d.y \in Nat /\ d.y + 1 \in 0 .. OutputSize(d).h
    BY <1>2, <1>7, <2>2 DEF IsSize
  <2>4. Streams(s, OutputSize(d), d.job.target, d.y + 1)
    BY <1>2, <2>2, <2>3, PushedStreams
  <2>5. Becomes(w, c)
    BY <1>7
  <2> HIDE DEF c, s
  <2>6. Direct(c) = Direct(d) /\ OutputSize(c) = OutputSize(d)
    BY <2>1, SameFile
  <2>7. JpegStreams(c)
    BY <1>7, <2>1, <2>3, <2>4, <2>6 DEF JpegStreams
  <2> QED
    BY <1>4, <2>1, <2>5, <2>7 DEF RowedTo
<1>8. CASE /\ JpegRowsDone(d)
           /\ Becomes(w, Done(d, StreamBuffers \union {"cinfo", "coefficients", "stream"}))
  <2> DEFINE f == Done(d, StreamBuffers \union {"cinfo", "coefficients", "stream"})
  <2>1. f.at = "done" /\ f.scaler = d.scaler /\ f.job = d.job
    BY <1>1 DEF IsDecode, NoDecode, Done
  <2>2. Written(d.scaler)
    BY WrittenSoFar
  <2> HIDE DEF f, d, read
  <2>3. d.scaler = <<>> \/ ScalerDone(d.scaler)
    BY <1>2, <1>8 DEF JpegStreams, JpegRowsDone
  <2>4. RowsOk(f)
    BY <1>2, <2>1, <2>2, <2>3 DEF RowsOk, PngPlaces, JpegPlaces, Early, WithFile
  <2> QED
    BY <1>8, <2>4 DEF RowedTo, f
<1> HIDE DEF read
<1>9. \/ Becomes(w, JpegFails(d))
      \/ d.y < OutputSize(d).h
           /\ Becomes(w, IF Direct(d) THEN read ELSE [read EXCEPT !.scaler = Pushed(@, d.y)])
      \/ JpegRowsDone(d) /\ Becomes(w, Done(d, StreamBuffers \union {"cinfo", "coefficients", "stream"}))
  BY DEF JpegRows, read
<1> QED
  BY <1>3, <1>6, <1>7, <1>8, <1>9 DEF RowedTo

\* A WebP has no rows: it is decoded whole, to the size of the target.
LEMMA WebpRows ==
  ASSUME NEW w, DecodeOk(dec[w]), RowsOk(dec[w]),
         WebpRead(w) \/ WebpReserve(w) \/ WebpAlloc(w) \/ WebpDecode(w)
  PROVE  RowedTo(w)
<1> DEFINE d == dec[w]
           r == Read(dec[w])
<1>1. IsDecode(d) /\ IsDecode(r) /\ r.at = d.at /\ Alike(r, d) /\ Alike(d, d)
  BY AfterRead DEF DecodeOk, Alike
<1>2. d.at \in {"webp", "webp_reserve", "webp_alloc", "webp_decode"}
  BY <1>1 DEF WebpRead, WebpReserve, WebpAlloc, WebpDecode
<1>3. ASSUME NEW x, Alike(x, d), NEW frees PROVE RowsOk(Failed(x, frees))
  BY <1>2, <1>3, FailedRows
<1>4. ASSUME NEW c, Alike(c, d), c.at \in {"webp_reserve", "webp_alloc", "webp_decode", "done"} PROVE RowsOk(c)
  <2> HIDE DEF d, r
  <2>1. RowsOk(d) /\ d.at \in Early /\ d.at # "none"
    BY <1>2 DEF Early, WithFile, d
  <2>2. c.at \in Early \union {"done"} /\ c.at \notin PngPlaces /\ c.at \notin JpegPlaces
    BY <1>4 DEF Early, WithFile, JpegPlaces, PngPlaces
  <2> QED
    BY <1>4, <2>1, <2>2, EarlyRows
<1>5. CASE WebpRead(w)
  <2> DEFINE c == [r EXCEPT !.at = "webp_reserve", !.held = @ \union {"data"}]
  <2> HIDE DEF d, r
  <2>1. Alike(c, d) /\ c.at = "webp_reserve"
    BY <1>1 DEF Alike, IsDecode, NoDecode
  <2> HIDE DEF c
  <2>2. RowsOk(c) /\ RowsOk(Failed(d, {}))
    BY <1>1, <1>3, <1>4, <2>1
  <2>3. RowsOk(Failed(r, {}))
    BY <1>1, <1>3
  <2> QED
    BY <1>5, <2>2, <2>3 DEF WebpRead, RowedTo, c, r
<1>6. CASE WebpReserve(w)
  <2> DEFINE c == [d EXCEPT !.at = "webp_alloc", !.granted = {"data", "working"} \union ImageMemory]
  <2>1. Alike(c, d) /\ c.at = "webp_alloc"
    BY <1>1 DEF Alike, IsDecode, NoDecode
  <2> HIDE DEF c
  <2>2. RowsOk(c) /\ RowsOk(Failed(d, {"data"}))
    BY <1>1, <1>3, <1>4, <2>1
  <2> QED
    BY <1>6, <2>2 DEF WebpReserve, RowedTo, c
<1>7. CASE WebpAlloc(w)
  <2>1. PICK image \in AllocTarget(d) :
          LET got == [d EXCEPT !.held = @ \union image]
          IN  Becomes(w, IF HasImage(image) THEN [got EXCEPT !.at = "webp_decode"]
                         ELSE Failed(got, {"data"}))
    BY <1>7 DEF WebpAlloc
  <2> DEFINE got == [d EXCEPT !.held = @ \union image]
             c == [got EXCEPT !.at = "webp_decode"]
  <2>2. Alike(got, d)
    BY <1>1 DEF Alike, IsDecode, NoDecode
  <2>3. Becomes(w, c) \/ Becomes(w, Failed(got, {"data"}))
    BY <2>1
  <2> HIDE DEF got
  <2>4. Alike(c, d) /\ c.at = "webp_decode"
    BY <1>1, <2>2 DEF Alike, IsDecode, NoDecode
  <2> HIDE DEF c
  <2>5. RowsOk(c) /\ RowsOk(Failed(got, {"data"}))
    BY <1>3, <1>4, <2>2, <2>4
  <2> QED
    BY <2>3, <2>5 DEF RowedTo
<1>8. CASE WebpDecode(w)
  <2> DEFINE c == Done(d, {"data"})
  <2>1. Alike(c, d) /\ c.at = "done"
    BY <1>1 DEF Alike, IsDecode, NoDecode, Done
  <2> HIDE DEF c
  <2>2. RowsOk(c) /\ RowsOk(Failed(d, {"data"} \union FreedImage(d)))
    BY <1>1, <1>3, <1>4, <2>1
  <2> QED
    BY <1>8, <2>2 DEF WebpDecode, RowedTo, c
<1> QED
  BY <1>5, <1>6, <1>7, <1>8

LEMMA StepRows ==
  ASSUME NEW w, DecodeOk(dec[w]), RowsOk(dec[w]), DecodeStep(w)
  PROVE  RowedTo(w)
BY OpenRows, PngEarlyRows, PngAllocRows, PngRowsRows, JpegEarlyRows, JpegAllocRows, JpegRowsRows, WebpRows
   DEF DecodeStep

-----------------------------------------------------------------------------
(* The rows of all decodes.                                                *)

\* There is a decode only while its job decodes.
Rowed(d, at) == RowsOk(d) /\ (at # "decoding" => d.at = "none")

AllRowsOk == \A w \in Workers : Rowed(dec[w], work[w].at)

LEMMA NoneRows ==
  ASSUME NEW d, d.at = "none", d.scaler = <<>>, d.y = 0, d.pass = 1, NEW at
  PROVE  Rowed(d, at)
BY DEF Rowed, RowsOk, PngPlaces, JpegPlaces

LEMMA OneRows ==
  ASSUME AllRowsOk, NEW w \in Workers, Rowed(dec'[w], work'[w].at),
         \A v \in Workers : v # w => dec'[v] = dec[v] /\ work'[v] = work[v]
  PROVE  AllRowsOk'
<1>1. ASSUME NEW v \in Workers PROVE Rowed(dec'[v], work'[v].at)
  <2>1. CASE v = w
    BY <2>1
  <2>2. CASE v # w
    BY <2>2 DEF AllRowsOk
  <2> QED
    BY <2>1, <2>2
<1> QED
  BY <1>1 DEF AllRowsOk

\* A job that is not decoding goes on without a decode.
LEMMA OtherRows ==
  ASSUME IInv, AllRowsOk, NEW w \in Workers, work[w].at # "decoding", dec' = dec,
         \A v \in Workers : v # w => work'[v] = work[v]
  PROVE  AllRowsOk'
<1>1. Rowed(dec'[w], work'[w].at)
  BY DEF AllRowsOk, Rowed
<1> QED
  BY <1>1, OneRows

LEMMA StartRows ==
  ASSUME IInv, AllRowsOk, NEW w \in Workers, StartDecode(w)
  PROVE  AllRowsOk'
<1> DEFINE d == dec[w]
           at == source[d.job.path]
           opened == [d EXCEPT !.at = "open", !.ver = at, !.linked = TRUE]
           held == CHOOSE image \in AllocTarget(opened) : image # {}
           done == [opened EXCEPT !.at = "done", !.seen = {at}, !.granted = ImageMemory, !.held = held]
           failed == Failed(opened, {})
<1>1. IsDecode(d) /\ work[w].at = "decode" /\ IsSize(d.job.target)
  <2>1. d.job \in Jobs[w] /\ IsDecode(d) /\ work[w].at = "decode"
    BY Facts DEF StartDecode, WorkOk
  <2> QED
    BY <2>1, JobsAssumption DEF IsSize
<1>2. d.scaler = <<>> /\ d.y = 0 /\ d.pass = 1
  BY <1>1 DEF AllRowsOk, Rowed, RowsOk, Early, WithFile
<1>3. \E c : Becomes(w, c) /\ RowsOk(c)
  <2>1. ASSUME NEW c, c.at \in {"open", "failed", "done"}, c.scaler = <<>>, c.y = 0, c.pass = 1, c.job = d.job
        PROVE  RowsOk(c)
    BY <1>1, <2>1 DEF RowsOk, Written, PngPlaces, JpegPlaces, Early, WithFile
  <2>2. /\ opened.at = "open" /\ opened.scaler = <<>> /\ opened.y = 0 /\ opened.pass = 1
        /\ opened.job = d.job /\ IsDecode(opened)
    BY <1>1, <1>2 DEF IsDecode, NoDecode
  <2>3. Becomes(w, opened) \/ Becomes(w, failed) \/ Becomes(w, done)
    BY DEF StartDecode
  <2> HIDE DEF opened
  <2>4. failed.at = "failed" /\ failed.scaler = <<>> /\ failed.y = 0 /\ failed.pass = 1 /\ failed.job = d.job
    BY <2>2 DEF Failed, IsDecode, NoDecode
  <2>5. done.at = "done" /\ done.scaler = <<>> /\ done.y = 0 /\ done.pass = 1 /\ done.job = d.job
    <3> HIDE DEF held, at
    <3> QED
      BY <2>2 DEF IsDecode, NoDecode
  <2> HIDE DEF failed, done, d
  <2> QED
    BY <2>1, <2>2, <2>3, <2>4, <2>5
<1>4. PICK c : Becomes(w, c) /\ RowsOk(c)
  BY <1>3
<1>5. dec'[w] = c /\ \A v \in Workers : v # w => dec'[v] = dec[v]
  BY <1>4, BecomesOne
<1>6. work'[w].at = "decoding" /\ \A v \in Workers : v # w => work'[v] = work[v]
  BY GoesTo DEF StartDecode
<1> QED
  BY <1>4, <1>5, <1>6, OneRows DEF Rowed

LEMMA DecodeRows ==
  ASSUME IInv, JobsOk, AllRowsOk, NEW w \in Workers, DecodeSome(w)
  PROVE  AllRowsOk'
<1>1. DecodeOk(dec[w]) /\ RowsOk(dec[w]) /\ DecodeStep(w) /\ work[w].at = "decoding" /\ work' = work
  BY DEF JobsOk, JobOk, AllRowsOk, Rowed, DecodeSome
<1>2. PICK c : Becomes(w, c) /\ RowsOk(c)
  BY <1>1, StepRows DEF RowedTo
<1>3. dec'[w] = c /\ \A v \in Workers : v # w => dec'[v] = dec[v]
  BY <1>2, BecomesOne
<1> QED
  BY <1>1, <1>2, <1>3, OneRows DEF Rowed

\* Before a decode, and after it, there is none.
LEMMA NoRows ==
  ASSUME IInv, AllRowsOk, NEW w \in Workers,
         FinishDecode(w) \/ Deliver(w) \/ Crash(w) \/ \E job \in Jobs[w] : Take(w, job)
  PROVE  AllRowsOk'
<1>1. PICK job, held : Becomes(w, [NoDecode EXCEPT !.job = job, !.held = held])
  <2>1. CASE FinishDecode(w)
    BY <2>1 DEF FinishDecode
  <2>2. CASE Deliver(w) \/ Crash(w)
    <3>1. NoDecode = [NoDecode EXCEPT !.job = NoDecode.job, !.held = NoDecode.held]
      BY DEF NoDecode
    <3>2. Becomes(w, NoDecode)
      BY <2>2 DEF Deliver, Crash, Becomes
    <3>3. Becomes(w, [NoDecode EXCEPT !.job = NoDecode.job, !.held = NoDecode.held])
      BY <3>1, <3>2, Zenon
    <3> QED
      BY <3>3
  <2>3. ASSUME NEW job \in Jobs[w], Take(w, job)
        PROVE  \E held : Becomes(w, [NoDecode EXCEPT !.job = job, !.held = held])
    <3>1. [NoDecode EXCEPT !.job = job] = [NoDecode EXCEPT !.job = job, !.held = NoDecode.held]
      BY DEF NoDecode
    <3>2. Becomes(w, [NoDecode EXCEPT !.job = job])
      BY <2>3 DEF Take, Becomes
    <3>3. Becomes(w, [NoDecode EXCEPT !.job = job, !.held = NoDecode.held])
      BY <3>1, <3>2, Zenon
    <3> QED
      BY <3>3
  <2> QED
    BY <2>1, <2>2, <2>3
<1> DEFINE c == [NoDecode EXCEPT !.job = job, !.held = held]
<1>2. c.at = "none" /\ c.scaler = <<>> /\ c.y = 0 /\ c.pass = 1
  BY DEF NoDecode
<1> HIDE DEF c
<1>3. dec'[w] = c /\ \A v \in Workers : v # w => dec'[v] = dec[v]
  BY <1>1, BecomesOne DEF c
<1>4. \A v \in Workers : v # w => work'[v] = work[v]
  <2>1. CASE FinishDecode(w)
    <3>1. \E at : Goes(w, at)
      BY <2>1 DEF FinishDecode
    <3> QED
      BY <3>1, GoesTo
  <2>2. CASE ~FinishDecode(w)
    BY <2>2 DEF Deliver, Crash, Take, IInv
  <2> QED
    BY <2>1, <2>2
<1> QED
  BY <1>2, <1>3, <1>4, NoneRows, OneRows

LEMMA StoreRows ==
  ASSUME IInv, AllRowsOk, NEW w \in Workers,
         \/ Begin(w) \/ CacheKey(w) \/ CacheRead(w)
         \/ CacheCheck(w) \/ MakeTemp(w) \/ Fill(w) \/ Publish(w)
  PROVE  AllRowsOk'
<1>1. dec' = dec /\ work[w].at # "decoding"
  BY DEF Begin, CacheKey, CacheRead, CacheCheck, MakeTemp, Fill, Publish
<1>2. \A v \in Workers : v # w => work'[v] = work[v]
  <2>1. CASE \E at : Goes(w, at)
    BY <2>1, GoesTo
  <2>2. CASE \E k : work' = [work EXCEPT ![w] = k]
    BY <2>2 DEF IInv
  <2> QED
    BY <2>1, <2>2 DEF Begin, CacheKey, CacheRead, CacheCheck, MakeTemp, Fill, Publish
<1> QED
  BY <1>1, <1>2, OtherRows

LEMMA WorldRows ==
  ASSUME JobsOk, AllRowsOk, NEW p \in Paths, Remove(p) \/ \E inPlace \in BOOLEAN : Replace(p, inPlace)
  PROVE  AllRowsOk'
<1>1. PICK keep \in BOOLEAN : Reopen(p, keep)
  BY DEF Remove, Replace
<1>2. work' = work
  BY DEF Remove, Replace
<1>3. ASSUME NEW w \in Workers
      PROVE  Rowed(dec'[w], work[w].at)
  <2> DEFINE d == dec[w]
  <2>1. Rowed(d, work[w].at) /\ IsDecode(d)
    BY DEF JobsOk, JobOk, DecodeOk, AllRowsOk
  <2>2. ASSUME NEW v, NEW l, NEW c, c = [d EXCEPT !.ver = v] \/ c = [d EXCEPT !.linked = l]
        PROVE  Rowed(c, work[w].at)
    <3>1. /\ c.at = d.at /\ c.job = d.job /\ c.file = d.file
          /\ c.scaler = d.scaler /\ c.y = d.y /\ c.pass = d.pass
      BY <2>1, <2>2 DEF IsDecode, NoDecode
    <3> HIDE DEF d
    <3>2. Direct(c) = Direct(d) /\ OutputSize(c) = OutputSize(d)
      BY <3>1, SameFile
    <3>3. PngStreams(c) = PngStreams(d) /\ JpegStreams(c) = JpegStreams(d)
      BY <3>1, <3>2 DEF PngStreams, JpegStreams
    <3> QED
      BY <2>1, <3>1, <3>3 DEF Rowed, RowsOk
  <2>3. dec'[w] = IF d.job # <<>> /\ d.linked /\ d.job.path = p
                  THEN IF keep THEN [d EXCEPT !.ver = newest'] ELSE [d EXCEPT !.linked = FALSE]
                  ELSE d
    BY <1>1 DEF Reopen
  <2> QED
    BY <2>1, <2>2, <2>3
<1> QED
  BY <1>2, <1>3 DEF AllRowsOk

LEMMA NextRows == IInv /\ JobsOk /\ AllRowsOk /\ [Next]_vars => AllRowsOk'
<1> SUFFICES ASSUME IInv, JobsOk, AllRowsOk, [Next]_vars PROVE AllRowsOk'
  OBVIOUS
<1>1. ASSUME NEW w \in Workers, Worker(w) PROVE AllRowsOk'
  <2>1. CASE FinishDecode(w) \/ Deliver(w)
    BY <2>1, NoRows
  <2>2. CASE Begin(w) \/ CacheKey(w) \/ CacheRead(w) \/ CacheCheck(w) \/ MakeTemp(w) \/ Fill(w) \/ Publish(w)
    BY <2>2, StoreRows
  <2> QED
    BY <1>1, <2>1, <2>2, StartRows, DecodeRows DEF Worker
<1>2. ASSUME NEW w \in Workers, RaiseStop(w) \/ ClearTemp(w) PROVE AllRowsOk'
  BY <1>2 DEF RaiseStop, ClearTemp, AllRowsOk
<1>3. ASSUME NEW w \in Workers, Crash(w) \/ \E job \in Jobs[w] : Take(w, job) PROVE AllRowsOk'
  BY <1>3, NoRows
<1>4. ASSUME NEW n \in Names, ClearEntry(n) PROVE AllRowsOk'
  BY <1>4 DEF ClearEntry, AllRowsOk
<1>5. ASSUME NEW p \in Paths, Remove(p) \/ \E inPlace \in BOOLEAN : Replace(p, inPlace) PROVE AllRowsOk'
  BY <1>5, WorldRows
<1>6. CASE UNCHANGED vars
  BY <1>6 DEF vars, AllRowsOk
<1> QED
  BY <1>1, <1>2, <1>3, <1>4, <1>5, <1>6 DEF Next

LEMMA AllRowsAlwaysOk == Spec => []AllRowsOk
<1>1. Init => AllRowsOk
  <2> SUFFICES ASSUME Init, NEW w \in Workers PROVE Rowed(dec[w], work[w].at)
    BY DEF AllRowsOk
  <2>1. dec[w] = NoDecode
    BY DEF Init
  <2>2. dec[w].at = "none" /\ dec[w].scaler = <<>> /\ dec[w].y = 0 /\ dec[w].pass = 1
    BY <2>1 DEF NoDecode
  <2> QED
    BY <2>2, NoneRows
<1> QED
  BY <1>1, InitIInv, NextKeeps, JobsAlwaysOk, NextRows, PTL DEF Spec

\* The width at a larger scale, against the width at 1/8.
LEMMA CeilingScales ==
  ASSUME NEW a \in Nat \ {0}, NEW n \in 1 .. 8
  PROVE  Ceiling(a * n, 8) <= 8 * Ceiling(a * 1, 8)
<1> DEFINE p == a * n
           q == (a + 8 - 1) \div 8
           r == (p + 8 - 1) \div 8
<1>1. p \in Nat /\ p <= 8 * a
  <2>1. n \in {1, 2, 3, 4, 5, 6, 7, 8}
    OBVIOUS
  <2> QED
    BY <2>1
<1> HIDE DEF p
<1>2. q \in Nat /\ a <= 8 * q
  OBVIOUS
<1>3. r \in Nat /\ 8 * r <= p + 7
  BY <1>1
<1> HIDE DEF q, r
<1>4. r <= 8 * q
  BY <1>1, <1>2, <1>3
<1> QED
  BY <1>4 DEF Ceiling, p, q, r

\* The row of a JPEG, against the row that was counted for it.
LEMMA RowBounded ==
  ASSUME JobsOk, AllRowsOk, NEW w \in Workers, RowHeld(dec[w])
  PROVE  /\ Scale(dec[w]) = 1 => RowTaken(dec[w]) <= RowCounted(dec[w])
         /\ RowTaken(dec[w]) <= 8 * RowCounted(dec[w])
<1> DEFINE d == dec[w]
<1>1. DecodeOk(d) /\ RowsOk(d) /\ d.at # "none" /\ "row" \in d.held
  BY DEF JobsOk, JobOk, AllRowsOk, Rowed, RowHeld
<1>2. d.at = "jpeg_rows" /\ ~Direct(d)
  <2>1. d.at # "none" => d.held = Holds(d)
    BY <1>1 DEF DecodeOk
  <2>2. "row" \notin TakenBy(d.job)
    BY DEF TakenBy
  <2> QED
    BY <1>1, <2>1, <2>2 DEF Holds, PngBuffers
<1> HIDE DEF d
<1>3. TrialSize(d) = ScaledSize(d.file.size, 1)
  BY <1>2 DEF Direct, TrialSize
<1>4. Scale(d) \in 1 .. 8
  BY ScaleInRange DEF Scale
<1>5. d.file \in Files /\ d.file.format = "jpeg"
  BY <1>1, <1>2 DEF RowsOk, JpegPlaces
<1>6. d.file.size.w \in Nat \ {0}
  BY <1>5, SizeAssumption
<1>7. RowCounted(d) = Ceiling(d.file.size.w * 1, 8)
  BY <1>3 DEF RowCounted, ScaledSize
<1>8. RowTaken(d) = Ceiling(d.file.size.w * Scale(d), 8)
  BY DEF RowTaken, OutputSize, ScaledSize
<1>9. RowTaken(d) <= 8 * RowCounted(d)
  BY <1>4, <1>6, <1>7, <1>8, CeilingScales
<1>10. ASSUME Scale(d) = 1 PROVE RowTaken(d) <= RowCounted(d)
  <2>1. Ceiling(d.file.size.w * 1, 8) \in Nat
    BY <1>6 DEF Ceiling
  <2> QED
    BY <1>7, <1>8, <1>10, <2>1
<1> QED
  BY <1>9, <1>10 DEF d

(* No decode holds a large buffer that the budget was not asked for, and   *)
(* the row of a JPEG, the only one that may be larger than what was asked  *)
(* for, exceeds it by no more than a factor of eight, and not at 1/8.      *)
THEOREM ReservedFirst == Spec => []WithinReservation
<1>1. JobsOk /\ AllRowsOk => WithinReservation
  BY AllCounted, RowBounded DEF WithinReservation
<1> QED
  BY <1>1, JobsAlwaysOk, AllRowsAlwaysOk, PTL

LEMMA RowsAreExact == JobsOk /\ AllRowsOk => RowsExact
<1> SUFFICES ASSUME JobsOk, AllRowsOk, NEW w \in Workers, dec[w].scaler # <<>>
             PROVE  LET d == dec[w] IN
                    /\ \A i \in 1 .. d.scaler.next :
                         d.scaler.written[i] = Box(d.scaler.crop, d.scaler.out_h, i - 1)
                    /\ d.at = "png_rows" /\ (d.scaler.next > 0 \/ d.scaler.sums # {}) =>
                         d.pass = d.file.passes
                    /\ d.at = "done" => ScalerDone(d.scaler)
                    /\ d.at = "jpeg_rows" => ScalerDone(d.scaler) \/ d.y < OutputSize(d).h
  BY DEF RowsExact
<1> DEFINE d == dec[w]
<1>1. DecodeOk(d) /\ RowsOk(d) /\ d.scaler # <<>>
  BY DEF JobsOk, JobOk, AllRowsOk, Rowed
<1> HIDE DEF d
<1>2. WrittenOk(d.scaler)
  BY <1>1, WrittenSoFar DEF Written
<1>3. d.at = "png_rows" /\ (d.scaler.next > 0 \/ d.scaler.sums # {}) => d.pass = d.file.passes
  BY <1>1 DEF RowsOk, PngStreams
<1>4. d.at = "done" => ScalerDone(d.scaler)
  BY <1>1 DEF RowsOk
<1>5. ASSUME d.at = "jpeg_rows" PROVE ScalerDone(d.scaler) \/ d.y < OutputSize(d).h
  <2>1. /\ d.y \in 0 .. OutputSize(d).h
        /\ Streams(d.scaler, OutputSize(d), d.job.target, d.y)
    BY <1>1, <1>5 DEF RowsOk, JpegStreams
  <2>2. IsSize(OutputSize(d)) /\ IsSize(d.job.target)
    BY <1>1, <1>5, JpegSizes DEF JpegPlaces
  <2>3. d.y = OutputSize(d).h => ScalerDone(d.scaler)
    BY <2>1, <2>2, AllStreamed
  <2>4. OutputSize(d).h \in Nat
    BY <2>2 DEF IsSize
  <2> QED
    BY <2>1, <2>3, <2>4
<1> QED
  BY <1>2, <1>3, <1>4, <1>5 DEF WrittenOk, d

(* A picture that a worker reports is whole and each of its rows is right: *)
(* for every size of picture and target, every number of passes and every  *)
(* scale of a JPEG, it is the average of exactly the source rows its box   *)
(* covers, and no JPEG is drawn before its DC coefficients are complete.   *)
THEOREM PicturesAreExact == Spec => []PictureExact
BY RowsAreExact, AllRowsAlwaysOk, JobsAlwaysOk, DcIsComplete, PTL DEF PictureExact
=============================================================================
