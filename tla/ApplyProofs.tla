---------------------------- MODULE ApplyProofs -----------------------------
(***************************************************************************)
(* Proofs about Apply, for any number of processes, wallpapers, hooks and  *)
(* runs.                                                                   *)
(***************************************************************************)
EXTENDS Apply, TLAPS

Labels ==
  {"ended", "open", "load", "picker", "apply", "wait", "inspect", "mkstemp", "write", "rename",
   "unlink", "hooks", "detach"}
Contents == Paths \union {None, Part}
RunRecords ==
  [at : Labels, path : Paths \union {None}, restored : Contents, file : Nat, hook : Nat]
Pipes == [reading : BOOLEAN, writers : SUBSET {"self", "child"}, said : BOOLEAN]
Children == {"none", "forked", "running", "succeeded", "failed"}

WithChild == {"wait", "inspect", "detach"}
Writing == {"write", "rename", "unlink"}
PastBackend == {"mkstemp", "write", "rename", "unlink", "hooks", "detach"}

\* What holds of a run r with child c and pipe i, on the files f, t of them temporary.
RunOk(r, c, i, f, t, done) ==
  /\ r \in RunRecords /\ c \in Children /\ i \in Pipes
  /\ r.at = "load" => r.file \in (1 .. Len(f)) \ t /\ f[r.file] \in done
  /\ r.at \in Writing => r.file \in t
  /\ r.at = "rename" => f[r.file] = r.path
  /\ r.at \in PastBackend => r.path \in done
  /\ r.at \in {"wait", "inspect"} /\ c = "succeeded" => r.path \in done
  /\ r.at = "inspect" => c \in {"succeeded", "failed"}
  /\ r.restored \in done \union {None}
  /\ r.at \notin WithChild => c = "none" /\ i = Closed

\* What holds of the files.
DiskOk(f, s, t, done) ==
  /\ f \in Seq(Contents) /\ s \in 0 .. Len(f) /\ t \subseteq 1 .. Len(f)
  /\ s # 0 => f[s] \in done
  /\ s \notin t

Owns(r, x) == r.at \in Writing /\ r.file = x

(* The inductive invariant.  Every run writes a file of its own, that no   *)
(* name but its temporary one leads to: a launch that reads last-selection *)
(* at any moment reads a file nobody writes any more.                      *)
IInv ==
  /\ run \in [Procs -> RunRecords] /\ child \in [Procs -> Children] /\ pipe \in [Procs -> Pipes]
  /\ \A p \in Procs : RunOk(run[p], child[p], pipe[p], files, tmps, applied)
  /\ DiskOk(files, state, tmps, applied)
  /\ \A p, q \in Procs : p # q /\ run[p].at \in Writing => ~Owns(run[q], run[p].file)
  /\ hooked \subseteq applied
  /\ died \in BOOLEAN
  /\ ~died => \A x \in tmps : \E p \in Procs : Owns(run[p], x)

-----------------------------------------------------------------------------
(* Every action changes one run, its child, its pipe and at most the files *)
(* that are its own.  Such a step keeps the invariant of the other runs.   *)
LEMMA StepKeeps ==
  ASSUME IInv, NEW p \in Procs, NEW r, NEW c, NEW i,
         run' = [run EXCEPT ![p] = r],
         child' = [child EXCEPT ![p] = c],
         pipe' = [pipe EXCEPT ![p] = i],
         RunOk(r, c, i, files', tmps', applied'),
         DiskOk(files', state', tmps', applied'),
         applied \subseteq applied', hooked' \subseteq applied', died' \in BOOLEAN,
         Len(files) <= Len(files'),
         \A x \in (1 .. Len(files)) \ tmps : files'[x] = files[x] /\ x \notin tmps',
         \A x \in tmps : ~Owns(run[p], x) => x \in tmps' /\ files'[x] = files[x],
         r.at \in Writing => r.file \notin tmps \/ Owns(run[p], r.file),
         ~died' => ~died,
         ~died' => \A x \in tmps' : (x \in tmps /\ ~Owns(run[p], x)) \/ Owns(r, x)
  PROVE  IInv'
<1>1. run'[p] = r /\ child'[p] = c /\ pipe'[p] = i
  BY DEF IInv
<1>2. \A q \in Procs \ {p} : run'[q] = run[q] /\ child'[q] = child[q] /\ pipe'[q] = pipe[q]
  BY DEF IInv
<1>3. run' \in [Procs -> RunRecords] /\ child' \in [Procs -> Children] /\ pipe' \in [Procs -> Pipes]
  BY DEF IInv, RunOk
<1>4. ASSUME NEW q \in Procs \ {p}
      PROVE  RunOk(run[q], child[q], pipe[q], files', tmps', applied')
  <2>1. RunOk(run[q], child[q], pipe[q], files, tmps, applied)
    BY DEF IInv
  <2>2. run[q].at \in Writing => ~Owns(run[p], run[q].file)
    BY DEF IInv
  <2>3. Len(files) \in Nat /\ Len(files') \in Nat
    BY DEF IInv, DiskOk
  <2>4. run[q].at = "load" =>
          run[q].file \in (1 .. Len(files')) \ tmps' /\ files'[run[q].file] \in applied'
    BY <2>1, <2>3 DEF RunOk
  <2>5. run[q].at \in Writing => run[q].file \in tmps'
    BY <2>1, <2>2 DEF RunOk
  <2>6. run[q].at = "rename" => files'[run[q].file] = run[q].path
    BY <2>1, <2>2 DEF RunOk, Writing
  <2>7. /\ run[q].at \in PastBackend => run[q].path \in applied'
        /\ run[q].at \in {"wait", "inspect"} /\ child[q] = "succeeded" => run[q].path \in applied'
        /\ run[q].restored \in applied' \union {None}
    BY <2>1 DEF RunOk
  <2> QED
    BY <2>1, <2>4, <2>5, <2>6, <2>7 DEF RunOk
<1>5. ASSUME NEW q \in Procs PROVE RunOk(run'[q], child'[q], pipe'[q], files', tmps', applied')
  BY <1>1, <1>2, <1>4
<1>6. ASSUME NEW q \in Procs, NEW w \in Procs, q # w, run'[q].at \in Writing
      PROVE  ~Owns(run'[w], run'[q].file)
  <2>1. CASE q # p /\ w # p
    BY <1>2, <1>6, <2>1 DEF IInv
  <2>2. CASE q = p
    <3>1. r.file \in tmps => ~Owns(run[w], r.file)
      BY <1>1, <1>6, <2>2 DEF IInv, Owns
    <3>2. Owns(run[w], r.file) => r.file \in tmps
      BY DEF IInv, RunOk, Owns
    <3> QED
      BY <1>1, <1>2, <1>6, <2>2, <3>1, <3>2
  <2>3. CASE w = p
    <3>1. r.file \in tmps /\ r.at \in Writing => ~Owns(run[q], r.file)
      BY <1>6, <2>3 DEF IInv, Owns
    <3>2. Owns(run[q], r.file) => r.file \in tmps
      BY DEF IInv, RunOk, Owns
    <3> QED
      BY <1>1, <1>2, <1>6, <2>3, <3>1, <3>2 DEF Owns
  <2> QED
    BY <2>1, <2>2, <2>3
<1>7. ASSUME ~died', NEW x \in tmps' PROVE \E q \in Procs : Owns(run'[q], x)
  <2>1. CASE Owns(r, x)
    BY <1>1, <2>1
  <2>2. CASE x \in tmps /\ ~Owns(run[p], x)
    <3>1. PICK q \in Procs : Owns(run[q], x)
      BY <1>7, <2>2 DEF IInv
    <3> QED
      BY <1>2, <2>2, <3>1
  <2> QED
    BY <1>7, <2>1, <2>2
<1> QED
  BY <1>3, <1>5, <1>6, <1>7 DEF IInv

\* Most steps leave the files alone.
LEMMA LocalKeeps ==
  ASSUME IInv, NEW p \in Procs, NEW r, NEW c, NEW i,
         run' = [run EXCEPT ![p] = r],
         child' = [child EXCEPT ![p] = c],
         pipe' = [pipe EXCEPT ![p] = i],
         RunOk(r, c, i, files, tmps, applied'),
         UNCHANGED disk, applied \subseteq applied', hooked' \subseteq applied',
         r.at \notin Writing, run[p].at \notin Writing,
         died' = died
  PROVE  IInv'
<1>1. DiskOk(files, state, tmps, applied) /\ died \in BOOLEAN /\ Len(files) \in Nat
  BY DEF IInv, DiskOk
<1>2. \A x \in tmps : ~Owns(run[p], x)
  BY DEF Owns
<1>3. files' = files /\ state' = state /\ tmps' = tmps
  BY DEF disk
<1>4. /\ RunOk(r, c, i, files', tmps', applied') /\ DiskOk(files', state', tmps', applied')
      /\ died' \in BOOLEAN /\ Len(files) <= Len(files')
  BY <1>1, <1>3 DEF DiskOk
<1>5. \A x \in (1 .. Len(files)) \ tmps : files'[x] = files[x] /\ x \notin tmps'
  BY <1>3
<1>6. \A x \in tmps : ~Owns(run[p], x) => x \in tmps' /\ files'[x] = files[x]
  BY <1>3
<1>7. ~died' => \A x \in tmps' : (x \in tmps /\ ~Owns(run[p], x)) \/ Owns(r, x)
  BY <1>2, <1>3
<1> QED
  BY <1>3, <1>4, <1>5, <1>6, <1>7, StepKeeps

\* What the invariant says of one run.
LEMMA RunFacts ==
  ASSUME IInv, NEW p \in Procs
  PROVE  /\ RunOk(run[p], child[p], pipe[p], files, tmps, applied)
         /\ run[p] \in RunRecords /\ child[p] \in Children /\ pipe[p] \in Pipes
         /\ child = [child EXCEPT ![p] = child[p]] /\ pipe = [pipe EXCEPT ![p] = pipe[p]]
         /\ run = [run EXCEPT ![p] = run[p]]
         /\ Ended \in RunRecords /\ Closed \in Pipes
         /\ DiskOk(files, state, tmps, applied) /\ Len(files) \in Nat
         /\ hooked \subseteq applied /\ died \in BOOLEAN
<1>1. Ended \in RunRecords /\ Closed \in Pipes
  BY DEF Ended, Closed, RunRecords, Contents, Pipes, Labels
<1>2. child = [child EXCEPT ![p] = child[p]] /\ pipe = [pipe EXCEPT ![p] = pipe[p]]
      /\ run = [run EXCEPT ![p] = run[p]]
  BY DEF IInv
<1> QED
  BY <1>1, <1>2 DEF IInv, RunOk, DiskOk

-----------------------------------------------------------------------------
(* The steps that leave the files alone.                                   *)

LEMMA RestoreKeeps ==
  ASSUME IInv, NEW p \in Procs, Start(p) \/ Open(p) \/ Load(p) \/ Pick(p)
  PROVE  IInv'
<1> USE RunFacts
<1>1. UNCHANGED <<disk, process, history>> /\ run[p].at \notin Writing /\ run[p].at \notin WithChild
  BY DEF Start, Open, Load, Pick, At, Writing, WithChild
<1>2. /\ child[p] = "none" /\ pipe[p] = Closed
      /\ child' = [child EXCEPT ![p] = "none"] /\ pipe' = [pipe EXCEPT ![p] = Closed]
  BY <1>1 DEF RunOk, process
<1>3. \E r : /\ run' = [run EXCEPT ![p] = r] /\ r.at \notin Writing
             /\ RunOk(r, "none", Closed, files, tmps, applied)
  <2>1. CASE Start(p)
    BY <2>1 DEF Start, RunOk, RunRecords, Ended, Labels, Writing, WithChild, PastBackend, Children
  <2>2. CASE Open(p)
    <3> DEFINE r == [run[p] EXCEPT !.at = "load", !.file = state]
               s == [run[p] EXCEPT !.at = "picker"]
    <3>1. ASSUME state # 0 PROVE RunOk(r, "none", Closed, files, tmps, applied)
      <4>1. /\ r \in RunRecords /\ r.at = "load" /\ r.file = state
            /\ r.restored = run[p].restored
        <5>1. state \in Nat /\ run[p] \in RunRecords
          BY DEF DiskOk
        <5> QED
          BY <5>1 DEF RunRecords, Labels
      <4>2. state \in (1 .. Len(files)) \ tmps /\ files[state] \in applied
        BY <3>1 DEF DiskOk
      <4>3. "none" \in Children /\ run[p].restored \in applied \union {None}
        BY DEF RunOk, Children
      <4> HIDE DEF r
      <4> QED
        BY <4>1, <4>2, <4>3 DEF RunOk, Writing, WithChild, PastBackend
    <3>2. RunOk(s, "none", Closed, files, tmps, applied)
      BY <1>2 DEF RunOk, RunRecords, Labels, Writing, WithChild, PastBackend
    <3>3. r.at \notin Writing /\ s.at \notin Writing
      BY DEF RunRecords, Writing
    <3>4. \/ run' = [run EXCEPT ![p] = r] /\ state # 0
          \/ run' = [run EXCEPT ![p] = s]
      BY <2>2 DEF Open, Goto
    <3> HIDE DEF r, s
    <3> QED
      BY <3>1, <3>2, <3>3, <3>4
  <2>3. CASE Load(p)
    <3>1. PICK got \in {files[run[p].file], None} :
            run' = [run EXCEPT ![p].at = "picker", ![p].file = 0, ![p].restored = got]
      BY <2>3 DEF Load
    <3> DEFINE r == [run[p] EXCEPT !.at = "picker", !.file = 0, !.restored = got]
    <3>2. run[p].file \in 1 .. Len(files) /\ files[run[p].file] \in applied
      BY <2>3 DEF Load, At, RunOk
    <3>3. files[run[p].file] \in Contents
      BY <3>2 DEF DiskOk
    <3>4. r \in RunRecords /\ r.at = "picker" /\ r.restored = got
      BY <3>1, <3>3 DEF RunRecords, Labels, Contents
    <3>5. run' = [run EXCEPT ![p] = r]
      BY <3>1
    <3> HIDE DEF r
    <3>6. RunOk(r, "none", Closed, files, tmps, applied)
      BY <1>2, <3>1, <3>2, <3>4 DEF RunOk, Writing, WithChild, PastBackend
    <3>7. r.at \notin Writing
      BY <3>4 DEF Writing
    <3> QED
      BY <3>5, <3>6, <3>7
  <2>4. CASE Pick(p)
    <3>1. CASE Ends(p)
      BY <3>1 DEF Ends, RunOk, RunRecords, Ended, Labels, Writing, WithChild, PastBackend, Children
    <3>2. ASSUME NEW path \in Paths, run' = [run EXCEPT ![p] = [Ended EXCEPT !.at = "apply", !.path = path]]
          PROVE  \E r : /\ run' = [run EXCEPT ![p] = r] /\ r.at \notin Writing
                        /\ RunOk(r, "none", Closed, files, tmps, applied)
      BY <3>2 DEF RunOk, RunRecords, Ended, Labels, Writing, WithChild, PastBackend, Children
    <3> QED
      BY <2>4, <3>1, <3>2 DEF Pick
  <2> QED
    BY <2>1, <2>2, <2>3, <2>4
<1>4. PICK r : /\ run' = [run EXCEPT ![p] = r] /\ r.at \notin Writing
               /\ RunOk(r, "none", Closed, files, tmps, applied)
  BY <1>3
<1>5. UNCHANGED disk /\ applied' = applied /\ hooked' = hooked /\ died' = died
  BY <1>1 DEF history
<1> QED
  BY <1>1, <1>2, <1>4, <1>5, LocalKeeps

LEMMA EndKeeps ==
  ASSUME IInv, NEW p \in Procs, Ends(p), run[p].at \notin Writing,
         child' = [child EXCEPT ![p] = "none"], pipe' = [pipe EXCEPT ![p] = Closed],
         UNCHANGED <<disk, history>>
  PROVE  IInv'
<1>1. /\ RunOk(Ended, "none", Closed, files, tmps, applied) /\ Ended.at \notin Writing
  BY RunFacts DEF RunOk, Ended, Writing, WithChild, PastBackend, Children
<1>2. /\ run' = [run EXCEPT ![p] = Ended] /\ UNCHANGED disk
      /\ applied' = applied /\ hooked' = hooked /\ died' = died /\ hooked \subseteq applied
  BY RunFacts DEF Ends, history
<1> HIDE DEF Ended, Closed
<1> QED
  BY <1>1, <1>2, LocalKeeps

\* A step from one label to another.
LEMMA MoveKeeps ==
  ASSUME IInv, NEW p \in Procs, NEW label \in Labels \ ({"load"} \union Writing), NEW hook \in Nat,
         NEW c \in Children, NEW i \in Pipes,
         run' = [run EXCEPT ![p] = [run[p] EXCEPT !.at = label, !.hook = hook]],
         child' = [child EXCEPT ![p] = c], pipe' = [pipe EXCEPT ![p] = i],
         UNCHANGED <<disk, applied, died>>, hooked' \subseteq applied,
         run[p].at \notin Writing,
         label \in PastBackend => run[p].path \in applied,
         label \in {"wait", "inspect"} /\ c = "succeeded" => run[p].path \in applied,
         label = "inspect" => c \in {"succeeded", "failed"},
         label \notin WithChild => c = "none" /\ i = Closed
  PROVE  IInv'
<1> DEFINE r == [run[p] EXCEPT !.at = label, !.hook = hook]
<1>1. run[p] \in RunRecords /\ run[p].restored \in applied \union {None}
  BY DEF IInv, RunOk
<1>2. /\ r \in RunRecords /\ r.at = label /\ r.path = run[p].path
      /\ r.restored = run[p].restored
  BY <1>1 DEF RunRecords
<1>3. run' = [run EXCEPT ![p] = r]
  OBVIOUS
<1> HIDE DEF r
<1>4. RunOk(r, c, i, files, tmps, applied')
  BY <1>1, <1>2 DEF RunOk, Writing
<1>5. r.at \notin Writing
  BY <1>2
<1> QED
  BY <1>3, <1>4, <1>5, LocalKeeps

LEMMA BackendKeeps ==
  ASSUME IInv, NEW p \in Procs, Refuse(p) \/ Fork(p) \/ Wait(p) \/ WaitFails(p) \/ Inspect(p)
  PROVE  IInv'
<1>1. /\ UNCHANGED <<disk, applied, died>> /\ hooked' \subseteq applied
      /\ run[p].at \in {"apply", "wait", "inspect"} /\ run[p].at \notin Writing
  BY RunFacts DEF Refuse, Fork, Wait, WaitFails, Inspect, At, Writing, history
<1>2. /\ RunOk(run[p], child[p], pipe[p], files, tmps, applied) /\ run[p] \in RunRecords
      /\ run[p].hook \in Nat /\ child[p] \in Children /\ pipe[p] \in Pipes
      /\ child = [child EXCEPT ![p] = child[p]] /\ pipe = [pipe EXCEPT ![p] = pipe[p]]
  BY RunFacts DEF RunRecords
<1>3. ASSUME NEW label \in Labels, run' = [run EXCEPT ![p].at = label]
      PROVE  run' = [run EXCEPT ![p] = [run[p] EXCEPT !.at = label, !.hook = run[p].hook]]
  BY <1>2, <1>3 DEF RunRecords
<1>4. CASE run[p].at = "apply" /\ Ends(p) /\ UNCHANGED <<process, disk, history>>
  BY <1>1, <1>2, <1>4, EndKeeps DEF RunOk, WithChild, process
<1>5. CASE Fork(p) /\ Forked(p) /\ Goto(p, "wait")
  <2> DEFINE i == [reading |-> TRUE, writers |-> {"child"}, said |-> FALSE]
  <2>1. i \in Pipes /\ "forked" \in Children /\ "wait" \in Labels \ ({"load"} \union Writing)
        /\ "wait" \notin PastBackend /\ "wait" \in WithChild
    BY DEF Pipes, Children, Labels, Writing, PastBackend, WithChild
  <2>2. pipe' = [pipe EXCEPT ![p] = i] /\ child' = [child EXCEPT ![p] = "forked"]
    BY <1>5 DEF Forked
  <2>3. run' = [run EXCEPT ![p] = [run[p] EXCEPT !.at = "wait", !.hook = run[p].hook]]
    BY <1>3, <1>5, <2>1 DEF Goto
  <2> HIDE DEF i
  <2> QED
    BY <1>1, <1>2, <2>1, <2>2, <2>3, MoveKeeps
<1>6. CASE Wait(p)
  <2>1. "inspect" \in Labels \ ({"load"} \union Writing) /\ "inspect" \notin PastBackend
        /\ "inspect" \in WithChild
    BY DEF Labels, Writing, PastBackend, WithChild
  <2>2. run' = [run EXCEPT ![p] = [run[p] EXCEPT !.at = "inspect", !.hook = run[p].hook]]
    BY <1>3, <1>6, <2>1 DEF Goto, Wait
  <2>3. /\ child' = [child EXCEPT ![p] = child[p]] /\ pipe' = [pipe EXCEPT ![p] = pipe[p]]
    BY <1>2, <1>6 DEF Wait, process
  <2>4. /\ child[p] = "succeeded" => run[p].path \in applied
        /\ child[p] \in {"succeeded", "failed"}
    BY <1>2, <1>6 DEF Wait, At, RunOk
  <2> QED
    BY <1>1, <1>2, <2>1, <2>2, <2>3, <2>4, MoveKeeps
<1>7. CASE (WaitFails(p) \/ Inspect(p)) /\ Ends(p)
  BY <1>1, <1>7, EndKeeps DEF WaitFails, Inspect, Reads
<1>8. CASE Inspect(p) /\ child[p] = "succeeded" /\ Goto(p, "mkstemp")
  <2>1. "mkstemp" \in Labels \ ({"load"} \union Writing) /\ "mkstemp" \notin {"wait", "inspect"}
        /\ "mkstemp" # "inspect"
        /\ "none" \in Children /\ Closed \in Pipes
    BY RunFacts DEF Labels, Writing, Children
  <2>2. run' = [run EXCEPT ![p] = [run[p] EXCEPT !.at = "mkstemp", !.hook = run[p].hook]]
    BY <1>3, <1>8, <2>1 DEF Goto
  <2>3. /\ child' = [child EXCEPT ![p] = "none"] /\ pipe' = [pipe EXCEPT ![p] = Closed]
    BY <1>8 DEF Inspect, Reads
  <2>4. run[p].path \in applied
    BY <1>2, <1>8 DEF Inspect, At, RunOk
  <2> QED
    BY <1>1, <1>2, <2>1, <2>2, <2>3, <2>4, MoveKeeps
<1> QED
  BY <1>4, <1>5, <1>6, <1>7, <1>8 DEF Refuse, Fork, WaitFails, Inspect, At

LEMMA HooksKeeps ==
  ASSUME IInv, NEW p \in Procs, Skip(p) \/ Spawn(p) \/ Detach(p) \/ Leave(p)
  PROVE  IInv'
<1>1. /\ UNCHANGED <<disk, applied, died>>
      /\ run[p].at \in {"hooks", "detach"} /\ run[p].at \notin Writing
  BY DEF Skip, Spawn, Detach, Leave, At, Writing, history
<1>2. /\ RunOk(run[p], child[p], pipe[p], files, tmps, applied) /\ run[p] \in RunRecords
      /\ run[p].hook \in Nat /\ hooked \subseteq applied
      /\ child = [child EXCEPT ![p] = child[p]] /\ pipe = [pipe EXCEPT ![p] = pipe[p]]
  BY RunFacts DEF RunRecords
<1>3. run[p].path \in applied /\ hooked' \subseteq applied
  BY <1>1, <1>2 DEF RunOk, PastBackend, Skip, Spawn, Detach, Leave, history
<1>4. run[p].at = "hooks" => child[p] = "none" /\ pipe[p] = Closed
  BY <1>2 DEF RunOk, WithChild
<1>5. /\ "hooks" \in Labels \ ({"load"} \union Writing) /\ "hooks" \notin {"wait", "inspect"}
      /\ "detach" \in Labels \ ({"load"} \union Writing) /\ "detach" \in WithChild
      /\ "detach" \notin {"wait", "inspect"}
      /\ "none" \in Children /\ "forked" \in Children /\ Closed \in Pipes
  BY RunFacts DEF Labels, Writing, Children, WithChild
<1>6. CASE Skip(p)
  <2>1. run' = [run EXCEPT ![p] = [run[p] EXCEPT !.at = "hooks", !.hook = run[p].hook + 1]]
    BY <1>2, <1>6 DEF Skip, At, RunRecords
  <2>2. child' = [child EXCEPT ![p] = "none"] /\ pipe' = [pipe EXCEPT ![p] = Closed]
    BY <1>2, <1>4, <1>6 DEF Skip, At, process
  <2>3. run[p].hook + 1 \in Nat
    BY <1>2
  <2> QED
    BY <1>1, <1>3, <1>5, <2>1, <2>2, <2>3, MoveKeeps
<1>7. CASE Spawn(p)
  <2> DEFINE i == [reading |-> TRUE, writers |-> {"child"}, said |-> FALSE]
  <2>1. run' = [run EXCEPT ![p] = [run[p] EXCEPT !.at = "detach", !.hook = run[p].hook + 1]]
    BY <1>2, <1>7 DEF Spawn, RunRecords
  <2>2. child' = [child EXCEPT ![p] = "forked"] /\ pipe' = [pipe EXCEPT ![p] = i]
    BY <1>7 DEF Spawn, Forked
  <2>3. run[p].hook + 1 \in Nat /\ i \in Pipes
    BY <1>2 DEF Pipes
  <2> HIDE DEF i
  <2> QED
    BY <1>1, <1>3, <1>5, <2>1, <2>2, <2>3, MoveKeeps
<1>8. CASE Detach(p)
  <2>1. run' = [run EXCEPT ![p] = [run[p] EXCEPT !.at = "hooks", !.hook = run[p].hook]]
    BY <1>2, <1>8 DEF Detach, Goto, RunRecords
  <2>2. child' = [child EXCEPT ![p] = "none"] /\ pipe' = [pipe EXCEPT ![p] = Closed]
    BY <1>8 DEF Detach, Reads
  <2> QED
    BY <1>1, <1>2, <1>3, <1>5, <2>1, <2>2, MoveKeeps
<1>9. CASE Leave(p)
  BY <1>1, <1>2, <1>4, <1>9, EndKeeps DEF Leave, At, process
<1> QED
  BY <1>6, <1>7, <1>8, <1>9

\* There is a child only while the run waits for it or for its pipe.
LEMMA ChildKeeps ==
  ASSUME IInv, NEW p \in Procs, Execs(p) \/ Exits(p)
  PROVE  IInv'
<1>1. /\ RunOk(run[p], child[p], pipe[p], files, tmps, applied) /\ run[p] \in RunRecords
      /\ pipe[p] \in Pipes /\ run = [run EXCEPT ![p] = run[p]]
      /\ hooked \subseteq applied
  BY RunFacts
<1>2. /\ child[p] \in {"forked", "running"}
      /\ UNCHANGED <<disk, runs, run>> /\ hooked' = hooked /\ died' = died
      /\ applied \subseteq applied'
  BY DEF Execs, Exec, ExecFails, Killed, Exits, history
<1>3. run[p].at \in WithChild /\ run[p].at \notin Writing
  BY <1>1, <1>2 DEF RunOk, WithChild, Writing
<1>4. \E c \in Children : \E i \in Pipes :
        /\ child' = [child EXCEPT ![p] = c] /\ pipe' = [pipe EXCEPT ![p] = i]
        /\ c = "succeeded" /\ run[p].at \in {"wait", "inspect"} => run[p].path \in applied'
  <2> DEFINE i == [pipe[p] EXCEPT !.writers = @ \ {"child"}]
             j(said) == [pipe[p] EXCEPT !.writers = @ \ {"child"}, !.said = said]
  <2>1. i \in Pipes /\ \A said \in BOOLEAN : j(said) \in Pipes
    BY <1>1 DEF Pipes
  <2>2. CASE Exec(p) \/ Killed(p) \/ (Exits(p) /\ child' = [child EXCEPT ![p] = "failed"])
    <3>1. pipe' = [pipe EXCEPT ![p] = i]
      BY <2>2 DEF Exec, Killed, Exits
    <3> QED
      BY <2>1, <2>2, <3>1 DEF Exec, Killed, Children
  <2>3. CASE ExecFails(p)
    <3>1. PICK said \in BOOLEAN : pipe' = [pipe EXCEPT ![p] = j(said)]
      BY <2>3 DEF ExecFails
    <3> QED
      BY <2>1, <2>3, <3>1 DEF ExecFails, Children
  <2>4. CASE Exits(p) /\ child' = [child EXCEPT ![p] = "succeeded"]
             /\ applied' = (IF At(p, "wait") THEN applied \union {run[p].path} ELSE applied)
    <3>1. pipe' = [pipe EXCEPT ![p] = i]
      BY <2>4 DEF Exits
    <3>2. run[p].at = "wait" => run[p].path \in applied'
      BY <2>4 DEF At
    <3>3. run[p].at # "inspect"
      BY <1>1, <1>2 DEF RunOk
    <3> QED
      BY <2>1, <2>4, <3>1, <3>2, <3>3 DEF Children
  <2> QED
    BY <2>2, <2>3, <2>4 DEF Execs, Exits
<1>5. PICK c \in Children : \E i \in Pipes :
        /\ child' = [child EXCEPT ![p] = c] /\ pipe' = [pipe EXCEPT ![p] = i]
        /\ c = "succeeded" /\ run[p].at \in {"wait", "inspect"} => run[p].path \in applied'
  BY <1>4
<1>6. PICK i \in Pipes :
        /\ child' = [child EXCEPT ![p] = c] /\ pipe' = [pipe EXCEPT ![p] = i]
        /\ c = "succeeded" /\ run[p].at \in {"wait", "inspect"} => run[p].path \in applied'
  BY <1>5
<1>7. RunOk(run[p], c, i, files, tmps, applied')
  BY <1>1, <1>2, <1>3, <1>6 DEF RunOk, WithChild, Writing
<1>8. run' = [run EXCEPT ![p] = run[p]] /\ hooked' \subseteq applied'
  BY <1>1, <1>2
<1> QED
  BY <1>2, <1>3, <1>6, <1>7, <1>8, LocalKeeps

-----------------------------------------------------------------------------
(* The steps on the files.                                                 *)

LEMMA CreateKeeps ==
  ASSUME IInv, NEW p \in Procs, Create(p)
  PROVE  IInv'
<1>1. /\ RunOk(run[p], child[p], pipe[p], files, tmps, applied) /\ run[p] \in RunRecords
      /\ child[p] = "none" /\ pipe[p] = Closed /\ run[p].path \in applied
      /\ run[p].hook \in Nat /\ DiskOk(files, state, tmps, applied) /\ Len(files) \in Nat
      /\ hooked \subseteq applied /\ died \in BOOLEAN
      /\ child = [child EXCEPT ![p] = "none"] /\ pipe = [pipe EXCEPT ![p] = Closed]
      /\ "none" \in Children /\ Closed \in Pipes
  BY RunFacts DEF Create, At, RunOk, RunRecords, WithChild, PastBackend, Children
<1>2. /\ run[p].at = "mkstemp" /\ child' = child /\ pipe' = pipe /\ state' = state
      /\ applied' = applied /\ hooked' = hooked /\ died' = died
  BY DEF Create, At, process, history
<1>3. CASE Goto(p, "hooks") /\ UNCHANGED <<files, tmps>>
  <2>1. "hooks" \in Labels \ ({"load"} \union Writing) /\ "hooks" \notin {"wait", "inspect"}
        /\ run[p].at \notin Writing
    BY <1>2 DEF Labels, Writing
  <2>2. run' = [run EXCEPT ![p] = [run[p] EXCEPT !.at = "hooks", !.hook = run[p].hook]]
    BY <1>1, <1>3 DEF Goto, RunRecords
  <2>3. UNCHANGED <<disk, applied, died>> /\ hooked' \subseteq applied
    BY <1>1, <1>2, <1>3 DEF disk
  <2>4. child' = [child EXCEPT ![p] = "none"] /\ pipe' = [pipe EXCEPT ![p] = Closed]
    BY <1>1, <1>2
  <2> QED
    BY <1>1, <2>1, <2>2, <2>3, <2>4, MoveKeeps
<1>4. CASE /\ files' = Append(files, Part) /\ tmps' = tmps \union {Len(files')}
           /\ run' = [run EXCEPT ![p].at = "write", ![p].file = Len(files')]
  <2> DEFINE new == Len(files) + 1
             r == [run[p] EXCEPT !.at = "write", !.file = new]
  <2>1. /\ files \in Seq(Contents) /\ files' \in Seq(Contents) /\ Len(files') = new
        /\ \A x \in 1 .. Len(files) : files'[x] = files[x]
    BY <1>1, <1>4 DEF DiskOk, Contents
  <2>2. new \notin tmps /\ new # state /\ new \in Nat /\ tmps' = tmps \union {new}
    BY <1>1, <1>4, <2>1 DEF DiskOk
  <2>3. DiskOk(files', state', tmps', applied')
    <3>1. state' \in 0 .. Len(files') /\ tmps' \subseteq 1 .. Len(files')
      <4>1. state \in 0 .. Len(files) /\ tmps \subseteq 1 .. Len(files) /\ Len(files) \in Nat
        BY <1>1 DEF DiskOk
      <4>2. 0 .. Len(files) \subseteq 0 .. Len(files') /\ 1 .. Len(files) \subseteq 1 .. Len(files')
        BY <2>1, <4>1
      <4>3. new \in 1 .. Len(files')
        BY <2>1, <4>1
      <4> HIDE DEF new
      <4> QED
        BY <1>2, <2>2, <4>1, <4>2, <4>3
    <3>2. state' # 0 => state \in 1 .. Len(files) /\ files[state] \in applied
      BY <1>1, <1>2 DEF DiskOk
    <3>3. state' # 0 => files'[state'] \in applied'
      BY <1>2, <2>1, <3>2
    <3>4. state' \notin tmps'
      BY <1>1, <1>2, <2>2 DEF DiskOk
    <3> QED
      BY <2>1, <3>1, <3>3, <3>4 DEF DiskOk
  <2>4. /\ r \in RunRecords /\ r.at = "write" /\ r.file = new /\ r.path = run[p].path
        /\ r.restored = run[p].restored
    BY <1>1, <2>2 DEF RunRecords, Labels
  <2>5. run' = [run EXCEPT ![p] = r]
    BY <1>4, <2>1
  <2> HIDE DEF r, new
  <2>6. RunOk(r, "none", Closed, files', tmps', applied')
    BY <1>1, <1>2, <2>2, <2>4 DEF RunOk
  <2>7. \A x \in tmps : ~Owns(run[p], x)
    BY <1>2 DEF Owns, Writing
  <2>8. \A x \in (1 .. Len(files)) \ tmps : files'[x] = files[x] /\ x \notin tmps'
    BY <1>1, <2>1, <2>2 DEF new
  <2>9. \A x \in tmps : x \in tmps' /\ files'[x] = files[x]
    BY <1>1, <2>1, <2>2 DEF DiskOk
  <2>10. \A x \in tmps' : x \in tmps \/ Owns(r, x)
    BY <2>2, <2>4 DEF Owns, Writing
  <2>11. Len(files) <= Len(files')
    BY <1>1, <2>1 DEF new
  <2>12. /\ child' = [child EXCEPT ![p] = "none"] /\ pipe' = [pipe EXCEPT ![p] = Closed]
         /\ r.file \notin tmps /\ died' \in BOOLEAN /\ (~died' => ~died)
         /\ applied \subseteq applied' /\ hooked' \subseteq applied'
    BY <1>1, <1>2, <2>2, <2>4
  <2> QED
    BY <2>3, <2>5, <2>6, <2>7, <2>8, <2>9, <2>10, <2>11, <2>12, StepKeeps
<1> QED
  BY <1>3, <1>4 DEF Create

LEMMA WriteKeeps ==
  ASSUME IInv, NEW p \in Procs, Write(p)
  PROVE  IInv'
<1> DEFINE own == run[p].file
<1>1. /\ run[p] \in RunRecords /\ own \in tmps /\ own \in 1 .. Len(files)
      /\ child[p] = "none" /\ pipe[p] = Closed /\ run[p].path \in applied
      /\ run[p].restored \in applied \union {None} /\ Len(files) \in Nat
      /\ DiskOk(files, state, tmps, applied) /\ hooked \subseteq applied /\ died \in BOOLEAN
      /\ child = [child EXCEPT ![p] = "none"] /\ pipe = [pipe EXCEPT ![p] = Closed]
      /\ "none" \in Children /\ Closed \in Pipes
  BY RunFacts DEF Write, At, RunOk, WithChild, PastBackend, Children, Writing, DiskOk
<1>2. /\ run[p].at = "write" /\ child' = child /\ pipe' = pipe /\ state' = state /\ tmps' = tmps
      /\ applied' = applied /\ hooked' = hooked /\ died' = died
  BY DEF Write, At, process, history
<1>3. PICK label \in {"rename", "unlink"} :
        /\ run' = [run EXCEPT ![p] = [run[p] EXCEPT !.at = label]]
        /\ files' = [files EXCEPT ![own] = IF label = "rename" THEN run[p].path ELSE Part]
  BY DEF Write, Goto
<1> DEFINE r == [run[p] EXCEPT !.at = label]
           content == IF label = "rename" THEN run[p].path ELSE Part
<1>4. /\ r \in RunRecords /\ r.at = label /\ r.file = own /\ r.path = run[p].path
      /\ r.restored = run[p].restored
  BY <1>1 DEF RunRecords, Labels
<1>5. /\ content \in Contents /\ content = (IF label = "rename" THEN run[p].path ELSE Part)
      /\ files' = [files EXCEPT ![own] = content] /\ run' = [run EXCEPT ![p] = r]
      /\ r.at \in Writing
  BY <1>1, <1>3, <1>4 DEF RunRecords, Contents, Writing
<1> HIDE DEF r, content
<1>6. /\ files' \in Seq(Contents) /\ Len(files') = Len(files) /\ files'[own] = content
      /\ \A x \in 1 .. Len(files) : x # own => files'[x] = files[x]
  BY <1>1, <1>5 DEF DiskOk
<1>7. DiskOk(files', state', tmps', applied')
  BY <1>1, <1>2, <1>6 DEF DiskOk
<1>8. RunOk(r, "none", Closed, files', tmps', applied')
  BY <1>1, <1>2, <1>3, <1>4, <1>5, <1>6 DEF RunOk, Writing
<1>9. \A x \in tmps : Owns(run[p], x) <=> x = own
  BY <1>2 DEF Owns, Writing
<1>10. \A x \in (1 .. Len(files)) \ tmps : files'[x] = files[x] /\ x \notin tmps'
  BY <1>1, <1>2, <1>6
<1>11. \A x \in tmps : ~Owns(run[p], x) => x \in tmps' /\ files'[x] = files[x]
  BY <1>1, <1>2, <1>6, <1>9 DEF DiskOk
<1>12. \A x \in tmps' : (x \in tmps /\ ~Owns(run[p], x)) \/ Owns(r, x)
  BY <1>2, <1>4, <1>5, <1>9 DEF Owns
<1>13. Owns(run[p], r.file)
  BY <1>2, <1>4 DEF Owns, Writing
<1>14. /\ child' = [child EXCEPT ![p] = "none"] /\ pipe' = [pipe EXCEPT ![p] = Closed]
       /\ died' \in BOOLEAN /\ (~died' => ~died) /\ Len(files) <= Len(files')
       /\ applied \subseteq applied' /\ hooked' \subseteq applied'
  BY <1>1, <1>2, <1>6
<1> HIDE DEF own
<1> QED
  BY <1>5, <1>7, <1>8, <1>10, <1>11, <1>12, <1>13, <1>14, StepKeeps

LEMMA PublishKeeps ==
  ASSUME IInv, NEW p \in Procs, Rename(p) \/ Unlink(p)
  PROVE  IInv'
<1> DEFINE own == run[p].file
<1>1. /\ run[p] \in RunRecords /\ own \in tmps /\ own \in 1 .. Len(files)
      /\ child[p] = "none" /\ pipe[p] = Closed /\ run[p].path \in applied
      /\ run[p].restored \in applied \union {None} /\ Len(files) \in Nat
      /\ DiskOk(files, state, tmps, applied) /\ hooked \subseteq applied /\ died \in BOOLEAN
      /\ child = [child EXCEPT ![p] = "none"] /\ pipe = [pipe EXCEPT ![p] = Closed]
      /\ "none" \in Children /\ Closed \in Pipes
      /\ run[p].at = "rename" => files[own] \in applied
  BY RunFacts DEF Rename, Unlink, At, RunOk, WithChild, PastBackend, Children, Writing, DiskOk
<1>2. /\ run[p].at \in Writing /\ child' = child /\ pipe' = pipe /\ files' = files
      /\ applied' = applied /\ hooked' = hooked /\ died' = died
  BY DEF Rename, Unlink, At, Writing, process, history
<1>3. \A x \in tmps : Owns(run[p], x) <=> x = own
  BY <1>2 DEF Owns
<1>4. CASE Saved(p) /\ tmps' = tmps \ {own} /\ (state' = state \/ (state' = own /\ run[p].at = "rename"))
  <2> DEFINE r == [run[p] EXCEPT !.at = "hooks", !.file = 0]
  <2>1. /\ r \in RunRecords /\ r.at = "hooks" /\ r.path = run[p].path
        /\ r.restored = run[p].restored
    BY <1>1 DEF RunRecords, Labels
  <2>2. run' = [run EXCEPT ![p] = r]
    BY <1>4 DEF Saved
  <2> HIDE DEF r
  <2>3. RunOk(r, "none", Closed, files', tmps', applied')
    <3>1. applied' = applied /\ r.path \in applied' /\ r.restored \in applied' \union {None}
      BY <1>1, <1>2, <2>1
    <3>2. r.at \notin Writing
      BY <2>1 DEF Writing
    <3> QED
      BY <1>1, <2>1, <3>1, <3>2 DEF RunOk
  <2>4. DiskOk(files', state', tmps', applied')
    <3>1. state' \in 0 .. Len(files) /\ state' \notin tmps' /\ (state' # 0 => files[state'] \in applied)
      <4>1. CASE state' = state
        BY <1>1, <1>4, <4>1 DEF DiskOk
      <4>2. CASE state' = own /\ run[p].at = "rename"
        BY <1>1, <1>4, <4>2
      <4> QED
        BY <1>4, <4>1, <4>2
    <3>2. tmps' \subseteq 1 .. Len(files) /\ files \in Seq(Contents)
      BY <1>1, <1>4 DEF DiskOk
    <3> QED
      BY <1>2, <3>1, <3>2 DEF DiskOk
  <2>5. \A x \in (1 .. Len(files)) \ tmps : files'[x] = files[x] /\ x \notin tmps'
    BY <1>2, <1>4
  <2>6. \A x \in tmps : ~Owns(run[p], x) => x \in tmps' /\ files'[x] = files[x]
    BY <1>2, <1>3, <1>4
  <2>7. \A x \in tmps' : x \in tmps /\ ~Owns(run[p], x)
    BY <1>3, <1>4
  <2>8. /\ child' = [child EXCEPT ![p] = "none"] /\ pipe' = [pipe EXCEPT ![p] = Closed]
        /\ died' \in BOOLEAN /\ (~died' => ~died) /\ Len(files) <= Len(files')
        /\ applied \subseteq applied' /\ hooked' \subseteq applied' /\ r.at \notin Writing
    BY <1>1, <1>2, <2>1 DEF Writing
  <2> QED
    BY <2>2, <2>3, <2>4, <2>5, <2>6, <2>7, <2>8, StepKeeps
<1>5. CASE Goto(p, "unlink") /\ UNCHANGED <<state, tmps>>
  <2> DEFINE r == [run[p] EXCEPT !.at = "unlink"]
  <2>1. /\ r \in RunRecords /\ r.at = "unlink" /\ r.path = run[p].path /\ r.file = own
        /\ r.restored = run[p].restored
    BY <1>1 DEF RunRecords, Labels
  <2>2. run' = [run EXCEPT ![p] = r]
    BY <1>5 DEF Goto
  <2> HIDE DEF r
  <2>3. RunOk(r, "none", Closed, files', tmps', applied')
    BY <1>1, <1>2, <1>5, <2>1 DEF RunOk, Writing, WithChild
  <2>4. DiskOk(files', state', tmps', applied') /\ Owns(run[p], r.file)
    BY <1>1, <1>2, <1>5, <2>1 DEF Owns
  <2>5. \A x \in (1 .. Len(files)) \ tmps : files'[x] = files[x] /\ x \notin tmps'
    BY <1>2, <1>5
  <2>6. \A x \in tmps : ~Owns(run[p], x) => x \in tmps' /\ files'[x] = files[x]
    BY <1>2, <1>5
  <2>7. \A x \in tmps' : (x \in tmps /\ ~Owns(run[p], x)) \/ Owns(r, x)
    BY <1>3, <1>5, <2>1 DEF Owns, Writing
  <2>8. /\ child' = [child EXCEPT ![p] = "none"] /\ pipe' = [pipe EXCEPT ![p] = Closed]
        /\ died' \in BOOLEAN /\ (~died' => ~died) /\ Len(files) <= Len(files')
        /\ applied \subseteq applied' /\ hooked' \subseteq applied'
    BY <1>1, <1>2
  <2> QED
    BY <2>2, <2>3, <2>4, <2>5, <2>6, <2>7, <2>8, StepKeeps
<1> QED
  BY <1>4, <1>5 DEF Rename, Unlink, At

\* The files a run leaves behind are owned by nobody.
LEMMA CrashKeeps ==
  ASSUME IInv, NEW p \in Procs, Crash(p)
  PROVE  IInv'
<1>1. /\ RunOk(Ended, "none", Closed, files, tmps, applied) /\ Ended.at \notin Writing
  BY RunFacts DEF RunOk, Ended, Writing, WithChild, PastBackend, Children
<1>2. /\ run' = [run EXCEPT ![p] = Ended]
      /\ child' = [child EXCEPT ![p] = "none"] /\ pipe' = [pipe EXCEPT ![p] = Closed]
      /\ files' = files /\ state' = state /\ tmps' = tmps /\ applied' = applied /\ hooked' = hooked
      /\ died' = (died \/ run[p].file \in tmps)
  BY DEF Crash, Ends, disk
<1>3. /\ DiskOk(files', state', tmps', applied') /\ Len(files) \in Nat
      /\ hooked' \subseteq applied' /\ died' \in BOOLEAN
  BY <1>2, RunFacts
<1>4. ~died' => ~died /\ \A x \in tmps : ~Owns(run[p], x)
  BY <1>2, RunFacts DEF Owns
<1>5. /\ RunOk(Ended, "none", Closed, files', tmps', applied')
      /\ applied \subseteq applied' /\ Len(files) <= Len(files')
      /\ \A x \in (1 .. Len(files)) \ tmps : files'[x] = files[x] /\ x \notin tmps'
      /\ \A x \in tmps : ~Owns(run[p], x) => x \in tmps' /\ files'[x] = files[x]
      /\ ~died' => ~died
      /\ ~died' => \A x \in tmps' : (x \in tmps /\ ~Owns(run[p], x)) \/ Owns(Ended, x)
  BY <1>1, <1>2, <1>3, <1>4
<1> HIDE DEF Ended, Closed
<1> QED
  BY <1>1, <1>2, <1>3, <1>5, StepKeeps

-----------------------------------------------------------------------------
LEMMA InitIInv == Init => IInv
<1> SUFFICES ASSUME Init PROVE IInv
  OBVIOUS
<1>1. Ended \in RunRecords /\ Closed \in Pipes /\ "none" \in Children
  BY DEF Ended, Closed, RunRecords, Contents, Pipes, Labels, Children
<1>2. \A p \in Procs : RunOk(Ended, "none", Closed, files, tmps, applied)
  BY <1>1 DEF RunOk, Ended, Writing, WithChild, PastBackend
<1>3. Ended.at \notin Writing
  BY DEF Ended, Writing
<1>4. DiskOk(files, state, tmps, applied)
  BY DEF Init, DiskOk
<1> QED
  BY <1>1, <1>2, <1>3, <1>4 DEF Init, IInv

LEMMA NextKeeps == IInv /\ [Next]_vars => IInv'
<1> SUFFICES ASSUME IInv, [Next]_vars PROVE IInv'
  OBVIOUS
<1>1. ASSUME NEW p \in Procs, Start(p) \/ Open(p) \/ Load(p) \/ Pick(p) PROVE IInv'
  BY <1>1, RestoreKeeps
<1>2. ASSUME NEW p \in Procs, Step(p) \/ WaitFails(p) PROVE IInv'
  BY <1>2, BackendKeeps, HooksKeeps, CreateKeeps, WriteKeeps, PublishKeeps DEF Step
<1>3. ASSUME NEW p \in Procs, Execs(p) \/ Exits(p) PROVE IInv'
  BY <1>3, ChildKeeps
<1>4. ASSUME NEW p \in Procs, Crash(p) PROVE IInv'
  BY <1>4, CrashKeeps
<1>5. CASE UNCHANGED vars
  BY <1>5 DEF vars, IInv
<1> QED
  BY <1>1, <1>2, <1>3, <1>4, <1>5 DEF Next, AllEnded

(* What is remembered, restored and given to the hooks is the whole path   *)
(* of a wallpaper a backend has set: for any number of runs at a time, any *)
(* failures, and runs that die anywhere in between.                        *)
THEOREM RemembersApplied == Spec => []OnlyApplied
<1>1. IInv => OnlyApplied
  BY DEF IInv, DiskOk, RunOk, OnlyApplied
<1> QED
  BY <1>1, InitIInv, NextKeeps, PTL DEF Spec

(* When no run is under way, no end of a pipe is open, and no temporary    *)
(* file is there that a run did not die with.                              *)
THEOREM LeavesNothing == Spec => []NothingLeft
<1>1. IInv => NothingLeft
  <2> SUFFICES ASSUME IInv, \A p \in Procs : At(p, "ended") PROVE (~died => tmps = {}) /\ \A p \in Procs : pipe[p] = Closed
    BY DEF NothingLeft
  <2>1. \A p \in Procs : pipe[p] = Closed
    BY DEF IInv, RunOk, WithChild, At
  <2>2. \A p \in Procs : \A x \in tmps : ~Owns(run[p], x)
    BY DEF Owns, Writing, At
  <2> QED
    BY <2>1, <2>2 DEF IInv
<1> QED
  BY <1>1, InitIInv, NextKeeps, PTL DEF Spec
=============================================================================
