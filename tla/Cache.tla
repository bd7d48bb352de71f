-------------------------------- MODULE Cache -------------------------------
(***************************************************************************)
(* What a worker does with a job (produce, src/src/thumb/worker.c) and the *)
(* thumbnail cache it uses (src/src/thumb/cache.c), while wallpapers are   *)
(* replaced, other workers and other launches use the same directory, one  *)
(* of them may die, and `matuwall --clear-cache` empties it.               *)
(*                                                                         *)
(* A wallpaper is a path and the number of its current version; 0 is no    *)
(* file.  A version stands for the modification time and size a stat       *)
(* reports: every change of a file gives it new ones.  Entries are whole   *)
(* inodes that are only ever renamed into place, so that reading one is    *)
(* one step.  The decodes of this launch's workers are followed step by    *)
(* step; those of other launches are one step.                             *)
(***************************************************************************)
EXTENDS Decode

CONSTANTS
  Watched,     \* the workers of this launch; the others are of one that may die
  Paths,       \* wallpapers
  Jobs,        \* Jobs[w]: the jobs w may get: path, target and purpose
  MaxVersion,  \* bound: changes of wallpapers, plus one
  Name(_)      \* the file name of a key: a hash, which keys may share

ASSUME JobsAssumption == \A w \in Workers : \A job \in Jobs[w] :
  job.path \in Paths /\ job.target \in [w : Nat \ {0}, h : Nat \ {0}]
ASSUME VersionAssumption == MaxVersion \in Nat \ {0}

VARIABLES
  source,  \* source[p]: the version of the file at path p, 0 when there is none
  newest,  \* the last version given to any file
  work,    \* work[w]: where w is in produce, its job and key
  result,  \* result[w]: the image produce returns
  entries, \* the cache directory: entry by name
  temps    \* temps[w]: the temporary file w has made, or has left when it died

diskVars == <<entries, temps>>
vars == <<dec, stop, source, newest, work, result, diskVars>>

NoKey == [path |-> "none", version |-> 0, target |-> <<>>]
NoImage == [path |-> "none", seen |-> {}, target |-> <<>>, hit |-> FALSE]
NoEntry == [key |-> NoKey, image |-> NoImage, whole |-> FALSE]
NoWork == [at |-> "idle", key |-> NoKey]

Keys == {[path |-> j.path, version |-> v, target |-> j.target] : j \in UNION {Jobs[w] : w \in Workers}, v \in 1 .. MaxVersion}
Names == {Name(key) : key \in Keys}

Init ==
  /\ dec = [w \in Workers |-> NoDecode]
  /\ stop = [w \in Workers |-> FALSE]
  /\ source = [p \in Paths |-> 1]
  /\ newest = 1
  /\ work = [w \in Workers |-> NoWork]
  /\ result = [w \in Workers |-> NoImage]
  /\ entries = [n \in Names |-> NoEntry]
  /\ temps = [w \in Workers |-> NoEntry]

Goes(w, at) == work' = [work EXCEPT ![w].at = at]

-----------------------------------------------------------------------------
\* A worker has taken a job.
Take(w, job) ==
  /\ work[w].at = "idle"
  /\ work' = [work EXCEPT ![w] = [at |-> "begin", key |-> NoKey]]
  /\ dec' = [dec EXCEPT ![w] = [NoDecode EXCEPT !.job = job]]
  /\ UNCHANGED <<stop, source, newest, result, diskVars>>

\* pool->stopping or job->cancelled, whichever the job looks at.
RaiseStop(w) ==
  /\ w \in Watched /\ work[w].at \notin {"idle", "returned"} /\ ~stop[w]
  /\ stop' = [stop EXCEPT ![w] = TRUE]
  /\ UNCHANGED <<dec, source, newest, work, result, diskVars>>

Begin(w) ==
  /\ work[w].at = "begin"
  /\ Goes(w, IF stop[w] THEN "returned" ELSE IF dec[w].job.purpose = "thumbnail" THEN "key" ELSE "decode")
  /\ UNCHANGED <<dec, stop, source, newest, result, diskVars>>

\* matuwall_cache_key; without a file, or without a cache, there is no key.
CacheKey(w) ==
  LET job == dec[w].job
      key == [path |-> job.path, version |-> source[job.path], target |-> job.target]
  IN  /\ work[w].at = "key"
      /\ \/ Goes(w, "decode")
         \/ /\ source[job.path] # 0
            /\ work' = [work EXCEPT ![w] = [at |-> "lookup", key |-> key]]
      /\ UNCHANGED <<dec, stop, source, newest, result, diskVars>>

\* header_ok, with the size of the file, and source_path_matches.
Readable(entry, key) == entry.whole /\ entry.key = key

\* matuwall_cache_read and the look at the flag after a hit.
CacheRead(w) ==
  LET entry == entries[Name(work[w].key)]
  IN  /\ work[w].at = "lookup"
      /\ \/ Goes(w, "decode") /\ UNCHANGED result
         \/ /\ Readable(entry, work[w].key)
            /\ Goes(w, "returned")
            /\ result' = IF stop[w] THEN result ELSE [result EXCEPT ![w] = [entry.image EXCEPT !.hit = TRUE]]
      /\ UNCHANGED <<dec, stop, source, newest, diskVars>>

\* decode_and_scale: the file is opened, whatever it is by now.
StartDecode(w) ==
  LET at == source[dec[w].job.path]
      opened == [dec[w] EXCEPT !.at = "open", !.ver = at, !.linked = TRUE]
  IN  /\ work[w].at = "decode"
      /\ Goes(w, "decoding")
      /\ IF w \in Watched
         THEN Becomes(w, opened)
         ELSE \/ Becomes(w, Failed(opened, {}))
              \/ /\ at # 0 /\ ~stop[w]
                 /\ Becomes(w, [opened EXCEPT !.at = "done", !.seen = {at}, !.granted = ImageMemory,
                      !.held = CHOOSE image \in AllocTarget(opened) : image # {}])
      /\ UNCHANGED <<stop, source, newest, result, diskVars>>

DecodeSome(w) ==
  /\ work[w].at = "decoding"
  /\ DecodeStep(w)
  /\ UNCHANGED <<stop, source, newest, work, result, diskVars>>

Decoded(d) == [path |-> d.job.path, seen |-> d.seen, target |-> d.job.target, hit |-> FALSE]

\* The outcome of the decode, the flag once more, and whether to store it.
FinishDecode(w) ==
  LET d == dec[w]
      ok == d.at = "done" /\ ~stop[w]
  IN  /\ work[w].at = "decoding" /\ d.at \in {"done", "failed"}
      /\ Goes(w, IF ~ok \/ work[w].key = NoKey THEN "returned" ELSE "check")
      /\ result' = IF ok THEN [result EXCEPT ![w] = Decoded(d)] ELSE result
      /\ Becomes(w, [NoDecode EXCEPT !.job = d.job,
           !.held = IF d.at = "done" /\ stop[w] THEN d.held \ FreedImage(d) ELSE d.held])
      /\ UNCHANGED <<stop, source, newest, diskVars>>

-----------------------------------------------------------------------------
\* The file that was decoded need not be the one the key was taken of.
BugUnchanged(w) == source[work[w].key.path] # 0

\* source_metadata_unchanged.
Unchanged(w) == source[work[w].key.path] = work[w].key.version

CacheCheck(w) ==
  /\ work[w].at = "check"
  /\ Goes(w, IF Unchanged(w) THEN "mkstemp" ELSE "returned")
  /\ UNCHANGED <<dec, stop, source, newest, result, diskVars>>

\* mkstemp: a name nobody else has, or none.
MakeTemp(w) ==
  /\ work[w].at = "mkstemp"
  /\ \/ Goes(w, "returned") /\ UNCHANGED temps
     \/ /\ Goes(w, "fill")
        /\ temps' = [temps EXCEPT ![w] = [key |-> work[w].key, image |-> result[w], whole |-> FALSE]]
  /\ UNCHANGED <<dec, stop, source, newest, result, entries>>

\* fdopen, the three fwrites and fclose: all of it, or some.
Fill(w) ==
  /\ work[w].at = "fill"
  /\ Goes(w, "publish")
  /\ \/ UNCHANGED temps
     \/ temps' = [temps EXCEPT ![w].whole = (temps[w] # NoEntry)]
  /\ UNCHANGED <<dec, stop, source, newest, result, entries>>

\* rename, which fails when the name is gone, or unlink.
Publish(w) ==
  /\ work[w].at = "publish"
  /\ Goes(w, "returned")
  /\ \/ /\ temps[w].whole
        /\ entries' = [entries EXCEPT ![Name(work[w].key)] = temps[w]]
     \/ UNCHANGED entries
  /\ temps' = [temps EXCEPT ![w] = NoEntry]
  /\ UNCHANGED <<dec, stop, source, newest, result>>

\* The result is taken over by the main thread, with the image.
Deliver(w) ==
  /\ work[w].at = "returned"
  /\ work' = [work EXCEPT ![w] = NoWork]
  /\ result' = [result EXCEPT ![w] = NoImage]
  /\ dec' = [dec EXCEPT ![w] = NoDecode]
  /\ stop' = [stop EXCEPT ![w] = FALSE]
  /\ UNCHANGED <<source, newest, diskVars>>

-----------------------------------------------------------------------------
(* The world around. *)
\* Decodes that have the file of path p open, or have lost it.
Reopen(p, keep) ==
  dec' = [w \in Workers |->
    IF dec[w].job # <<>> /\ dec[w].linked /\ dec[w].job.path = p
    THEN IF keep THEN [dec[w] EXCEPT !.ver = newest'] ELSE [dec[w] EXCEPT !.linked = FALSE]
    ELSE dec[w]]

\* Another file is renamed over the wallpaper, or it is written in place.
Replace(p, inPlace) ==
  /\ newest < MaxVersion
  /\ inPlace => source[p] # 0
  /\ newest' = newest + 1
  /\ source' = [source EXCEPT ![p] = newest']
  /\ Reopen(p, inPlace)
  /\ UNCHANGED <<stop, work, result, diskVars>>

Remove(p) ==
  /\ source[p] # 0
  /\ source' = [source EXCEPT ![p] = 0]
  /\ Reopen(p, FALSE)
  /\ UNCHANGED <<stop, newest, work, result, diskVars>>

\* The process of w dies and leaves what it has on the disk.
Crash(w) ==
  /\ w \notin Watched /\ work[w].at \notin {"idle", "dead"}
  /\ work' = [work EXCEPT ![w] = [NoWork EXCEPT !.at = "dead"]]
  /\ dec' = [dec EXCEPT ![w] = NoDecode]
  /\ result' = [result EXCEPT ![w] = NoImage]
  /\ stop' = [stop EXCEPT ![w] = FALSE]
  /\ UNCHANGED <<source, newest, diskVars>>

(* One turn of the loop of matuwall_cache_clear, in another process: it    *)
(* may have read any name of the directory, and unlinks it.  A name that   *)
(* is gone by then is passed over.                                         *)
ClearEntry(n) ==
  /\ entries[n] # NoEntry
  /\ entries' = [entries EXCEPT ![n] = NoEntry]
  /\ UNCHANGED <<dec, stop, source, newest, work, result, temps>>

ClearTemp(w) ==
  /\ temps[w] # NoEntry
  /\ temps' = [temps EXCEPT ![w] = NoEntry]
  /\ UNCHANGED <<dec, stop, source, newest, work, result, entries>>

Worker(w) ==
  \/ Begin(w) \/ CacheKey(w) \/ CacheRead(w) \/ StartDecode(w) \/ DecodeSome(w) \/ FinishDecode(w)
  \/ CacheCheck(w) \/ MakeTemp(w) \/ Fill(w) \/ Publish(w) \/ Deliver(w)

Next ==
  \/ \E w \in Workers : Worker(w) \/ RaiseStop(w) \/ Crash(w) \/ ClearTemp(w) \/ \E job \in Jobs[w] : Take(w, job)
  \/ \E p \in Paths : Remove(p) \/ \E inPlace \in BOOLEAN : Replace(p, inPlace)
  \/ \E n \in Names : ClearEntry(n)

Spec == Init /\ [][Next]_vars

-----------------------------------------------------------------------------
(* A file under an entry's name is a whole thumbnail, and the picture in   *)
(* it is the one version its header names: not one that replaced it during *)
(* the decode, and not a mixture of two ("A torn thumbnail must never be   *)
(* visible", cache.c:263).  What a hit shows is the wallpaper as it was    *)
(* when the job looked it up, also when the hash of another key gives the  *)
(* same file name.                                                         *)
EntrySound ==
  /\ \A n \in Names : LET e == entries[n] IN
       e # NoEntry =>
         /\ e.whole
         /\ e.image.path = e.key.path /\ e.image.target = e.key.target
         /\ e.image.seen = {e.key.version}
  /\ \A w \in Workers :
       result[w].hit =>
         /\ result[w].seen = {work[w].key.version}
         /\ result[w].path = dec[w].job.path /\ result[w].target = dec[w].job.target

(* Whatever failed, jumped, was stopped or went missing on the way: a job  *)
(* that has returned holds its image when it reports one and nothing else, *)
(* and has no temporary file of its own left on the disk.                  *)
NothingLeaks ==
  \A w \in Workers : work[w].at = "returned" =>
    /\ temps[w] = NoEntry
    /\ dec[w].held = IF result[w] = NoImage \/ result[w].hit THEN {} ELSE FreedImage(dec[w])
=============================================================================
