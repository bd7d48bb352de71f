-------------------------- MODULE WorkerPoolProofs --------------------------
(***************************************************************************)
(* Proofs about WorkerPool, for one to four threads and any number of      *)
(* cells.                                                                  *)
(***************************************************************************)
EXTENDS WorkerPool, FiniteSetTheorems, SequenceTheorems, TLAPS

-----------------------------------------------------------------------------
(* Sequences.  The queues are edited by concatenation, Only, Head and Tail;*)
(* what the proofs need of each is its elements, its length and that it    *)
(* repeats nothing that its operands do not.                               *)

(* Counting the places up to one of them numbers them from 1.              *)
LEMMA RankIsOnto ==
  ASSUME NEW n \in Nat, NEW at \in SUBSET (1 .. n)
  PROVE  /\ IsFiniteSet(at) /\ Cardinality(at) \in Nat /\ Cardinality(at) <= n
         /\ \A k \in 1 .. Cardinality(at) : \E i \in at : Cardinality({j \in at : j <= i}) = k
<1> DEFINE c == Cardinality(at)
           below(i) == {j \in at : j <= i}
           rank == [i \in at |-> Cardinality(below(i))]
<1>1. IsFiniteSet(at) /\ c \in Nat /\ c <= n
  <2>1. IsFiniteSet(1 .. n) /\ Cardinality(1 .. n) = n
    BY FS_Interval
  <2> QED
    BY <2>1, FS_Subset, FS_CardinalityType
<1>2. ASSUME NEW i \in at
      PROVE  IsFiniteSet(below(i)) /\ Cardinality(below(i)) \in 1 .. c
  <2>1. below(i) \in SUBSET at /\ i \in below(i)
    OBVIOUS
  <2>2. IsFiniteSet(below(i)) /\ Cardinality(below(i)) <= c
    BY <1>1, <2>1, FS_Subset
  <2>3. Cardinality(below(i)) \in Nat /\ Cardinality(below(i)) # 0
    BY <2>1, <2>2, FS_EmptySet, FS_CardinalityType
  <2> QED
    BY <1>1, <2>2, <2>3
<1>3. ASSUME NEW i \in at, NEW k \in at, i < k
      PROVE  Cardinality(below(i)) # Cardinality(below(k))
  <2>0. i \in Int /\ k \in Int /\ \A j \in at : j \in Int
    OBVIOUS
  <2>1. below(i) \in SUBSET below(k)
    <3>1. ASSUME NEW j \in below(i) PROVE j \in below(k)
      <4>1. j \in at /\ j <= i /\ j \in Int
        BY <2>0
      <4> QED
        BY <1>3, <2>0, <4>1
    <3> QED
      BY <3>1
  <2>3. k \in below(k) /\ k \notin below(i)
    BY <1>3, <2>0
  <2>2. IsFiniteSet(below(k))
    BY <1>2
  <2> HIDE DEF below
  <2> QED
    BY <2>1, <2>2, <2>3, FS_Subset
<1>4. rank \in Injection(at, 1 .. c)
  <2>1. rank \in [at -> 1 .. c]
    BY <1>2
  <2>2. ASSUME NEW i \in at, NEW k \in at, rank[i] = rank[k] PROVE i = k
    <3>1. i \in Int /\ k \in Int
      OBVIOUS
    <3> HIDE DEF below
    <3> QED
      BY <1>3, <2>2, <3>1
  <2> QED
    BY <2>1, <2>2 DEF Injection, IsInjective
<1>5. IsFiniteSet(1 .. c) /\ Cardinality(1 .. c) = c
  BY <1>1, FS_Interval
<1>6. rank \in Surjection(at, 1 .. c)
  <2> HIDE DEF rank
  <2> QED
    BY <1>4, <1>5, FS_Injection
<1> QED
  BY <1>1, <1>6 DEF Surjection

LEMMA OnlyFacts ==
  ASSUME NEW X, NEW s \in Seq(X), NEW T
  PROVE  /\ Only(s, T) \in Seq(X)
         /\ ToSet(Only(s, T)) = ToSet(s) \intersect T
         /\ (\A i, j \in DOMAIN s : s[i] = s[j] /\ s[i] \in T => i = j) => IsInjective(Only(s, T))
         /\ Len(Only(s, T)) <= Len(s)
<1> DEFINE at == {i \in DOMAIN s : s[i] \in T}
           c == Cardinality(at)
           place(k) == CHOOSE i \in at : Cardinality({j \in at : j <= i}) = k
           q == [k \in 1 .. c |-> s[place(k)]]
<1>1. Len(s) \in Nat /\ DOMAIN s = 1 .. Len(s) /\ s \in [1 .. Len(s) -> X]
  BY LenProperties
<1>2. at \in SUBSET (1 .. Len(s))
  BY <1>1
<1>3. /\ IsFiniteSet(at) /\ c \in Nat /\ c <= Len(s)
      /\ \A k \in 1 .. c : \E i \in at : Cardinality({j \in at : j <= i}) = k
  <2> HIDE DEF at
  <2> QED
    BY <1>1, <1>2, RankIsOnto
<1>4. ASSUME NEW k \in 1 .. c
      PROVE  place(k) \in at /\ Cardinality({j \in at : j <= place(k)}) = k
  BY <1>3
<1>5. ASSUME NEW i \in at
      PROVE  LET k == Cardinality({j \in at : j <= i}) IN k \in 1 .. c /\ place(k) = i
  <2> DEFINE below(m) == {j \in at : j <= m}
             k == Cardinality(below(i))
  <2>1. below(i) \in SUBSET at /\ i \in below(i)
    BY <1>2
  <2>2. IsFiniteSet(below(i)) /\ k <= c /\ k \in Nat /\ k # 0
    <3> HIDE DEF at, below
    <3> QED
      BY <1>3, <2>1, FS_Subset, FS_EmptySet, FS_CardinalityType
  <2>3. k \in 1 .. c
    BY <1>3, <2>2
  <2>4. place(k) \in at /\ Cardinality(below(place(k))) = k
    BY <1>4, <2>3
  <2>5. ASSUME NEW m \in at, NEW p \in at, m < p PROVE Cardinality(below(m)) # Cardinality(below(p))
    <3>1. below(m) \in SUBSET below(p) /\ p \in below(p) /\ p \notin below(m) /\ below(p) \in SUBSET at
      BY <1>2, <2>5
    <3> HIDE DEF below, at
    <3> QED
      BY <1>3, <3>1, FS_Subset
  <2>6. place(k) \in Int /\ i \in Int
    BY <1>2, <2>4
  <2>7. place(k) = i
    <3> HIDE DEF place, below, at
    <3> QED
      BY <2>4, <2>5, <2>6
  <2> QED
    BY <2>3, <2>7
<1>6. Only(s, T) = q
  BY DEF Only
<1> HIDE DEF place
<1>7. q \in Seq(X) /\ Len(q) = c /\ DOMAIN q = 1 .. c
  <2>1. q \in [1 .. c -> X]
    BY <1>1, <1>4
  <2> QED
    BY <1>3, <2>1
<1>8. ToSet(q) = ToSet(s) \intersect T
  <2>1. ASSUME NEW e \in ToSet(q) PROVE e \in ToSet(s) \intersect T
    <3>1. PICK k \in 1 .. c : e = q[k]
      BY <1>7 DEF ToSet
    <3>2. e = s[place(k)] /\ place(k) \in at
      BY <1>4, <3>1
    <3> QED
      BY <3>2 DEF ToSet
  <2>2. ASSUME NEW e \in ToSet(s) \intersect T PROVE e \in ToSet(q)
    <3>1. PICK i \in DOMAIN s : e = s[i]
      BY DEF ToSet
    <3>2. i \in at
      BY <3>1
    <3>3. PICK k \in 1 .. c : place(k) = i
      BY <1>5, <3>2
    <3>4. q[k] = e
      BY <3>1, <3>3
    <3> QED
      BY <1>7, <3>4 DEF ToSet
  <2> QED
    BY <2>1, <2>2
<1>9. ASSUME \A i, j \in DOMAIN s : s[i] = s[j] /\ s[i] \in T => i = j PROVE IsInjective(q)
  <2>1. ASSUME NEW k \in 1 .. c, NEW m \in 1 .. c, q[k] = q[m] PROVE k = m
    <3>1. s[place(k)] = s[place(m)] /\ place(k) \in at /\ place(m) \in at
      BY <1>4, <2>1
    <3>2. place(k) = place(m)
      BY <1>9, <3>1
    <3> QED
      BY <1>4, <3>2
  <2> QED
    BY <1>7, <2>1 DEF IsInjective
<1> QED
  BY <1>3, <1>6, <1>7, <1>8, <1>9

LEMMA ConcatFacts ==
  ASSUME NEW X, NEW s \in Seq(X), NEW t \in Seq(X)
  PROVE  /\ s \o t \in Seq(X)
         /\ Len(s \o t) = Len(s) + Len(t)
         /\ ToSet(s \o t) = ToSet(s) \union ToSet(t)
         /\ IsInjective(s) /\ IsInjective(t) /\ ToSet(s) \intersect ToSet(t) = {} => IsInjective(s \o t)
<1> DEFINE u == s \o t
<1>1. /\ u \in Seq(X) /\ Len(u) = Len(s) + Len(t) /\ Len(s) \in Nat /\ Len(t) \in Nat
      /\ DOMAIN s = 1 .. Len(s) /\ DOMAIN t = 1 .. Len(t) /\ DOMAIN u = 1 .. Len(s) + Len(t)
      /\ \A i \in 1 .. Len(s) + Len(t) : u[i] = IF i <= Len(s) THEN s[i] ELSE t[i - Len(s)]
  BY ConcatProperties, LenProperties
<1> HIDE DEF u
<1>2. ASSUME NEW e PROVE e \in ToSet(u) <=> e \in ToSet(s) \union ToSet(t)
  <2>1. ASSUME e \in ToSet(u) PROVE e \in ToSet(s) \union ToSet(t)
    <3>1. PICK i \in 1 .. Len(s) + Len(t) : e = u[i]
      BY <1>1, <2>1 DEF ToSet
    <3>2. CASE i <= Len(s)
      <4>1. i \in 1 .. Len(s) /\ e = s[i]
        BY <1>1, <3>1, <3>2
      <4> QED
        BY <1>1, <4>1 DEF ToSet
    <3>3. CASE ~(i <= Len(s))
      <4>1. i - Len(s) \in 1 .. Len(t) /\ e = t[i - Len(s)]
        BY <1>1, <3>1, <3>3
      <4> QED
        BY <1>1, <4>1 DEF ToSet
    <3> QED
      BY <3>2, <3>3
  <2>2. ASSUME e \in ToSet(s) PROVE e \in ToSet(u)
    <3>1. PICK i \in 1 .. Len(s) : e = s[i]
      BY <1>1, <2>2 DEF ToSet
    <3>2. i \in 1 .. Len(s) + Len(t) /\ u[i] = e
      BY <1>1, <3>1
    <3> QED
      BY <1>1, <3>2 DEF ToSet
  <2>3. ASSUME e \in ToSet(t) PROVE e \in ToSet(u)
    <3>1. PICK i \in 1 .. Len(t) : e = t[i]
      BY <1>1, <2>3 DEF ToSet
    <3>2. i + Len(s) \in 1 .. Len(s) + Len(t) /\ ~(i + Len(s) <= Len(s)) /\ i + Len(s) - Len(s) = i
      BY <1>1
    <3>3. u[i + Len(s)] = e
      BY <1>1, <3>1, <3>2
    <3> QED
      BY <1>1, <3>2, <3>3 DEF ToSet
  <2> QED
    BY <2>1, <2>2, <2>3
<1>3. ASSUME IsInjective(s), IsInjective(t), ToSet(s) \intersect ToSet(t) = {}
      PROVE  IsInjective(u)
  <2>1. ASSUME NEW i \in 1 .. Len(s) + Len(t), NEW j \in 1 .. Len(s) + Len(t), u[i] = u[j]
        PROVE  i = j
    <3>1. CASE i <= Len(s) /\ j <= Len(s)
      <4>1. i \in 1 .. Len(s) /\ j \in 1 .. Len(s) /\ s[i] = s[j]
        BY <1>1, <2>1, <3>1
      <4> QED
        BY <1>1, <1>3, <4>1 DEF IsInjective
    <3>2. CASE i > Len(s) /\ j > Len(s)
      <4>1. i - Len(s) \in 1 .. Len(t) /\ j - Len(s) \in 1 .. Len(t) /\ t[i - Len(s)] = t[j - Len(s)]
        BY <1>1, <2>1, <3>2
      <4>2. i - Len(s) = j - Len(s)
        BY <1>1, <1>3, <4>1 DEF IsInjective
      <4> QED
        BY <1>1, <4>2
    <3>3. ASSUME NEW k \in 1 .. Len(s) + Len(t), NEW m \in 1 .. Len(s) + Len(t),
                 k <= Len(s), m > Len(s), u[k] = u[m]
          PROVE  FALSE
      <4>1. k \in 1 .. Len(s) /\ m - Len(s) \in 1 .. Len(t) /\ s[k] = t[m - Len(s)]
        BY <1>1, <3>3
      <4>2. s[k] \in ToSet(s) /\ t[m - Len(s)] \in ToSet(t)
        BY <1>1, <4>1 DEF ToSet
      <4> QED
        BY <1>3, <4>1, <4>2
    <3> QED
      BY <1>1, <2>1, <3>1, <3>2, <3>3
  <2> QED
    BY <1>1, <2>1 DEF IsInjective
<1> QED
  BY <1>1, <1>2, <1>3 DEF u

LEMMA SingleFacts ==
  ASSUME NEW X, NEW e \in X
  PROVE  <<e>> \in Seq(X) /\ Len(<<e>>) = 1 /\ ToSet(<<e>>) = {e} /\ IsInjective(<<e>>)
<1>1. <<e>> \in Seq(X) /\ Len(<<e>>) = 1 /\ DOMAIN <<e>> = 1 .. 1 /\ <<e>>[1] = e
  OBVIOUS
<1>2. \A i \in 1 .. 1 : i = 1
  OBVIOUS
<1> QED
  BY <1>1, <1>2 DEF ToSet, IsInjective

LEMMA AppendFacts ==
  ASSUME NEW X, NEW s \in Seq(X), NEW e \in X
  PROVE  /\ Append(s, e) \in Seq(X) /\ Len(Append(s, e)) = Len(s) + 1
         /\ ToSet(Append(s, e)) = ToSet(s) \union {e}
         /\ IsInjective(s) /\ e \notin ToSet(s) => IsInjective(Append(s, e))
<1>1. Append(s, e) = s \o <<e>>
  BY AppendIsConcat
<1> DEFINE t == <<e>>
<1>2. t \in Seq(X) /\ Len(t) = 1 /\ ToSet(t) = {e} /\ IsInjective(t)
  BY SingleFacts
<1> HIDE DEF t
<1>3. /\ s \o t \in Seq(X) /\ Len(s \o t) = Len(s) + Len(t)
      /\ ToSet(s \o t) = ToSet(s) \union ToSet(t)
      /\ IsInjective(s) /\ IsInjective(t) /\ ToSet(s) \intersect ToSet(t) = {} => IsInjective(s \o t)
  BY <1>2, ConcatFacts
<1>4. Append(s, e) = s \o t
  BY <1>1 DEF t
<1> QED
  BY <1>2, <1>3, <1>4

LEMMA HeadFacts ==
  ASSUME NEW X, NEW s \in Seq(X), s # <<>>
  PROVE  /\ Head(s) \in ToSet(s) /\ Tail(s) \in Seq(X) /\ Len(Tail(s)) = Len(s) - 1
         /\ IsInjective(s) => IsInjective(Tail(s)) /\ ToSet(Tail(s)) = ToSet(s) \ {Head(s)}
<1> DEFINE t == Tail(s)
<1>1. /\ Head(s) = s[1] /\ t \in Seq(X) /\ Len(s) \in Nat /\ Len(s) > 0 /\ Len(t) = Len(s) - 1
      /\ \A i \in 1 .. Len(t) : t[i] = s[i + 1]
      /\ DOMAIN s = 1 .. Len(s) /\ DOMAIN t = 1 .. Len(s) - 1
  BY HeadTailProperties, LenProperties, EmptySeq
<1> HIDE DEF t
<1>2. Head(s) \in ToSet(s)
  BY <1>1 DEF ToSet
<1>3. ASSUME IsInjective(s)
      PROVE  IsInjective(t) /\ ToSet(t) = ToSet(s) \ {Head(s)}
  <2>1. \A i, j \in 1 .. Len(s) : s[i] = s[j] => i = j
    BY <1>1, <1>3 DEF IsInjective
  <2>2. IsInjective(t)
    <3>1. ASSUME NEW i \in 1 .. Len(s) - 1, NEW j \in 1 .. Len(s) - 1, t[i] = t[j] PROVE i = j
      <4>1. i + 1 \in 1 .. Len(s) /\ j + 1 \in 1 .. Len(s) /\ s[i + 1] = s[j + 1]
        BY <1>1, <3>1
      <4>2. i + 1 = j + 1
        BY <2>1, <4>1
      <4> QED
        BY <4>2
    <3> QED
      BY <1>1, <3>1 DEF IsInjective
  <2>3. ASSUME NEW e \in ToSet(t) PROVE e \in ToSet(s) /\ e # Head(s)
    <3>1. PICK i \in 1 .. Len(s) - 1 : e = t[i]
      BY <1>1 DEF ToSet
    <3>2. i + 1 \in 1 .. Len(s) /\ 1 \in 1 .. Len(s) /\ i + 1 # 1 /\ e = s[i + 1]
      BY <1>1, <3>1
    <3> QED
      BY <1>1, <2>1, <3>2 DEF ToSet
  <2>4. ASSUME NEW e \in ToSet(s), e # Head(s) PROVE e \in ToSet(t)
    <3>1. PICK i \in 1 .. Len(s) : e = s[i]
      BY <1>1 DEF ToSet
    <3>2. i - 1 \in 1 .. Len(s) - 1 /\ (i - 1) + 1 = i
      BY <1>1, <2>4, <3>1
    <3>3. t[i - 1] = e
      BY <1>1, <3>1, <3>2
    <3> QED
      BY <1>1, <3>2, <3>3 DEF ToSet
  <2> QED
    BY <2>2, <2>3, <2>4
<1> QED
  BY <1>1, <1>2, <1>3 DEF t

LEMMA ReverseFacts ==
  ASSUME NEW X, NEW s \in Seq(X)
  PROVE  /\ Reverse(s) \in Seq(X) /\ ToSet(Reverse(s)) = ToSet(s)
         /\ IsInjective(s) => IsInjective(Reverse(s))
<1> DEFINE n == Len(s)
           r == [i \in 1 .. n |-> s[(n - i) + 1]]
<1>1. Reverse(s) = r
  BY DEF Reverse
<1>2. n \in Nat /\ DOMAIN s = 1 .. n /\ s \in [1 .. n -> X]
  BY LenProperties
<1> HIDE DEF n
<1>3. \A i \in 1 .. n : (n - i) + 1 \in 1 .. n /\ (n - ((n - i) + 1)) + 1 = i
  BY <1>2
<1>4. r \in Seq(X) /\ DOMAIN r = 1 .. n
  BY <1>2, <1>3
<1>5. ToSet(r) = ToSet(s)
  BY <1>2, <1>3, <1>4 DEF ToSet
<1>6. ASSUME IsInjective(s) PROVE IsInjective(r)
  <2>1. ASSUME NEW i \in 1 .. n, NEW j \in 1 .. n, r[i] = r[j] PROVE i = j
    <3>1. (n - i) + 1 = (n - j) + 1
      BY <1>2, <1>3, <1>6, <2>1 DEF IsInjective
    <3> QED
      BY <1>2, <3>1
  <2> QED
    BY <1>4, <2>1 DEF IsInjective
<1> QED
  BY <1>1, <1>4, <1>5, <1>6

LEMMA LenIsSize ==
  ASSUME NEW X, NEW s \in Seq(X)
  PROVE  /\ IsFiniteSet(ToSet(s)) /\ Cardinality(ToSet(s)) \in Nat /\ Cardinality(ToSet(s)) <= Len(s)
         /\ IsInjective(s) => Cardinality(ToSet(s)) = Len(s)
<1>1. Len(s) \in Nat /\ DOMAIN s = 1 .. Len(s) /\ s \in [1 .. Len(s) -> X]
  BY LenProperties
<1>2. s \in Surjection(1 .. Len(s), ToSet(s))
  BY <1>1 DEF Surjection, ToSet
<1>3. IsFiniteSet(1 .. Len(s)) /\ Cardinality(1 .. Len(s)) = Len(s)
  BY <1>1, FS_Interval
<1>4. IsInjective(s) => s \in Injection(1 .. Len(s), ToSet(s))
  BY <1>1 DEF Injection, ToSet
<1> QED
  BY <1>2, <1>3, <1>4, FS_Surjection, FS_CardinalityType

-----------------------------------------------------------------------------
(* The inductive invariant.                                                *)

JobRecords == [kind : {"free", "thumb", "preview"}, cancelled : BOOLEAN]

Typed ==
  /\ job \in [Cells -> JobRecords]
  /\ jobs \in Seq(Cells) /\ results \in Seq(Cells) /\ draining \in Seq(Cells)
  /\ running_preview \in Cells \cup {NoCell}
  /\ stopping \in BOOLEAN
  /\ pc \in [Threads -> PCs]
  /\ cur \in [Threads -> Cells \cup {NoCell}]

InHand == {cur[w] : w \in Threads} \ {NoCell}
Linked == ToSet(jobs) \cup ToSet(results) \cup ToSet(draining)

\* Nothing is linked twice or held twice.
Apart ==
  /\ IsInjective(jobs) /\ IsInjective(results) /\ IsInjective(draining)
  /\ \A v, w \in Threads : cur[v] = cur[w] /\ cur[v] # NoCell => v = w
  /\ ToSet(jobs) \cap ToSet(results) = {}
  /\ ToSet(jobs) \cap ToSet(draining) = {}
  /\ ToSet(results) \cap ToSet(draining) = {}
  /\ InHand \cap Linked = {}

Accounted ==
  /\ \A c \in Cells : job[c] = Free <=> c \notin InHand \cup Linked
  /\ \A c \in Cells : job[c].kind = "free" => job[c] = Free

\* The preview that cancel_running_preview reaches is the newest one.
Newest ==
  /\ running_preview # NoCell => running_preview \in InHand /\ IsPreview(running_preview)
  /\ \A c \in InHand : IsPreview(c) /\ ~job[c].cancelled => c = running_preview /\ QueuedPreviews = {}
  /\ \A a, b \in QueuedPreviews : a = b

\* Where a worker is, what it has in hand and where its ticket stands.
Staged ==
  /\ \A w \in Threads : cur[w] # NoCell <=> pc[w] \in {"produce", "decode", "publish"}
  /\ stage \in [1 .. 4 -> Budget!Stages]
  /\ \A w \in 1 .. 4 : stage[w] # "off" <=> w \in Threads /\ pc[w] = "decode"
  /\ main # "deliver" => draining = <<>>

IInv == Typed /\ Apart /\ Accounted /\ Newest /\ Staged

-----------------------------------------------------------------------------
(* The heap.                                                               *)

LEMMA Basics ==
  ASSUME Typed
  PROVE  /\ NoCell \notin Cells /\ InHand \in SUBSET Cells /\ Linked \in SUBSET Cells
         /\ ToSet(jobs) \in SUBSET Cells /\ ToSet(results) \in SUBSET Cells
         /\ ToSet(draining) \in SUBSET Cells
         /\ \A w \in Threads : cur[w] # NoCell <=> cur[w] \in InHand
         /\ Threads \in SUBSET (1 .. 4)
<1>1. NoCell \notin Cells
  BY CellAssumption DEF NoCell, Cells
<1>2. \A w \in Threads : cur[w] \in Cells \cup {NoCell}
  BY DEF Typed
<1>3. ASSUME NEW s \in Seq(Cells) PROVE ToSet(s) \in SUBSET Cells
  BY DEF ToSet
<1>4. Threads \in SUBSET (1 .. 4)
  BY ThreadAssumption DEF Threads
<1> QED
  BY <1>1, <1>2, <1>3, <1>4 DEF Typed, InHand, Linked

LEMMA MallocIsFree ==
  ASSUME FreeCells # {}
  PROVE  Malloc \in FreeCells
<1> DEFINE F == FreeCells
<1>1. F \in SUBSET (1 .. CellCount) /\ CellCount \in Nat
  BY CellAssumption DEF FreeCells, Cells
<1>2. F # {}
  OBVIOUS
<1> HIDE DEF F
<1>3. /\ IsFiniteSet(F) /\ Cardinality(F) \in Nat
      /\ \A k \in 1 .. Cardinality(F) : \E i \in F : Cardinality({j \in F : j <= i}) = k
  BY <1>1, RankIsOnto
<1>4. Cardinality(F) # 0
  BY <1>2, <1>3, FS_EmptySet
<1>5. PICK i \in F : Cardinality({j \in F : j <= i}) = 1
  BY <1>3, <1>4
<1>6. IsFiniteSet({j \in F : j <= i})
  BY <1>3, FS_Subset
<1>7. PICK m : {j \in F : j <= i} = {m}
  BY <1>5, <1>6, FS_Singleton
<1>8. i \in Int /\ \A d \in F : d \in Int
  BY <1>1
<1>9. i \in {j \in F : j <= i}
  BY <1>8
<1>10. ASSUME NEW d \in F PROVE i <= d
  <2>1. CASE d <= i
    <3>1. d \in {j \in F : j <= i}
      BY <2>1
    <3> QED
      BY <1>7, <1>8, <1>9, <3>1
  <2>2. CASE ~(d <= i)
    BY <1>8, <2>2
  <2> QED
    BY <2>1, <2>2
<1> QED
  BY <1>10 DEF Malloc, F

LEMMA CancelFacts ==
  ASSUME NEW heap \in [Cells -> JobRecords], running_preview \in Cells \cup {NoCell}
  PROVE  /\ CancelRunning(heap) \in [Cells -> JobRecords]
         /\ \A c \in Cells : /\ CancelRunning(heap)[c].kind = heap[c].kind
                             /\ c # running_preview => CancelRunning(heap)[c] = heap[c]
                             /\ c = running_preview => CancelRunning(heap)[c].cancelled
         /\ running_preview = NoCell => CancelRunning(heap) = heap
<1>1. NoCell \notin Cells
  BY CellAssumption DEF NoCell, Cells
<1>2. CASE running_preview = NoCell
  BY <1>1, <1>2 DEF CancelRunning
<1>3. CASE running_preview # NoCell
  <2>1. running_preview \in Cells
    BY <1>3
  <2>2. CancelRunning(heap) = [heap EXCEPT ![running_preview].cancelled = TRUE]
    BY <1>3 DEF CancelRunning
  <2> QED
    BY <1>3, <2>1, <2>2 DEF JobRecords
<1> QED
  BY <1>2, <1>3

LEMMA FreeAllFacts ==
  ASSUME NEW heap \in [Cells -> JobRecords], NEW S
  PROVE  /\ FreeAll(heap, S) \in [Cells -> JobRecords]
         /\ \A c \in Cells : FreeAll(heap, S)[c] = IF c \in S THEN Free ELSE heap[c]
BY DEF FreeAll, Free, JobRecords

-----------------------------------------------------------------------------
(* What each step does to the heap and the lists.                          *)

Heap == Typed /\ Apart /\ Accounted /\ Newest

LEMMA HeapUntouched ==
  ASSUME Heap, UNCHANGED <<job, jobs, results, draining, running_preview, cur>>,
         pc' \in [Threads -> PCs], stopping' \in BOOLEAN
  PROVE  Heap'
BY DEF Heap, Typed, Apart, Accounted, Newest, InHand, Linked, IsPreview, QueuedPreviews

(* An edit of the queue by the main thread.                                *)
LEMMA QueueEdited ==
  ASSUME Heap, NEW q \in Seq(Cells), IsInjective(q), jobs' = q,
         UNCHANGED <<results, draining, cur, running_preview>>,
         pc' \in [Threads -> PCs], stopping' \in BOOLEAN,
         job' \in [Cells -> JobRecords],
         ToSet(q) \cap (InHand \cup ToSet(results) \cup ToSet(draining)) = {},
         \A c \in Cells : job'[c] = Free <=> c \notin InHand \cup ToSet(q) \cup ToSet(results) \cup ToSet(draining),
         \A c \in Cells : job'[c].kind = "free" => job'[c] = Free
  PROVE  Typed' /\ Apart' /\ Accounted'
<1>1. Typed'
  BY DEF Heap, Typed
<1>2. InHand' = InHand /\ Linked' = ToSet(q) \cup ToSet(results) \cup ToSet(draining)
  BY DEF InHand, Linked
<1>3. Apart'
  <2>1. IsInjective(jobs') /\ IsInjective(results') /\ IsInjective(draining')
    BY DEF Heap, Apart
  <2>2. \A v, w \in Threads : cur'[v] = cur'[w] /\ cur'[v] # NoCell => v = w
    BY DEF Heap, Apart
  <2>3. ToSet(results') \cap ToSet(draining') = {} /\ InHand \cap (ToSet(results) \cup ToSet(draining)) = {}
    BY DEF Heap, Apart, Linked
  <2> QED
    BY <1>2, <2>1, <2>2, <2>3 DEF Apart
<1>4. Accounted'
  BY <1>2 DEF Accounted
<1> QED
  BY <1>1, <1>3, <1>4

LEMMA TakeHeap == ASSUME IInv, NEW w \in Threads, Take(w) PROVE Heap'
<1> DEFINE h == Head(jobs)
           J == ToSet(jobs)
<1>1. Typed /\ Apart /\ Accounted /\ Newest
  BY DEF IInv
<1>2. /\ h \in J /\ Tail(jobs) \in Seq(Cells) /\ IsInjective(Tail(jobs)) /\ ToSet(Tail(jobs)) = J \ {h}
      /\ J \in SUBSET Cells
  BY <1>1, HeadFacts, Basics DEF Take, Typed, Apart
<1>3. cur[w] = NoCell
  BY DEF IInv, Staged, Take
<1>4. /\ jobs' = Tail(jobs) /\ cur' = [cur EXCEPT ![w] = h]
      /\ running_preview' = (IF IsPreview(h) THEN h ELSE running_preview)
      /\ UNCHANGED <<job, results, draining, stopping>>
  BY DEF Take
<1>5. InHand' = InHand \cup {h}
  BY <1>1, <1>2, <1>3, <1>4, Basics DEF InHand, Typed
<1>6. Linked' = Linked \ {h}
  BY <1>1, <1>2, <1>4 DEF Linked, Apart
<1>7. Typed'
  <2>1. pc' \in [Threads -> PCs]
    BY <1>1 DEF Typed, Take, PCs
  <2>2. cur' \in [Threads -> Cells \cup {NoCell}] /\ running_preview' \in Cells \cup {NoCell}
    BY <1>1, <1>2, <1>4 DEF Typed
  <2> QED
    BY <1>1, <1>2, <1>4, <2>1, <2>2 DEF Typed
<1>8. Apart'
  <2>1. \A v \in Threads : cur[v] # h
    BY <1>1, <1>2, Basics DEF Apart, Linked
  <2>2. \A u, v \in Threads : cur'[u] = cur'[v] /\ cur'[u] # NoCell => u = v
    BY <1>1, <1>4, <2>1 DEF Apart, Typed
  <2>3. InHand' \cap Linked' = {}
    BY <1>1, <1>5, <1>6 DEF Apart
  <2> QED
    BY <1>1, <1>2, <1>4, <2>2, <2>3 DEF Apart
<1>9. Accounted'
  <2>1. h \in Linked
    BY <1>2 DEF Linked
  <2> QED
    BY <1>1, <1>4, <1>5, <1>6, <2>1 DEF Accounted
<1>10. Newest'
  <2>1. QueuedPreviews' = QueuedPreviews \ {h}
    BY <1>2, <1>4 DEF QueuedPreviews, IsPreview
  <2>2. CASE IsPreview(h)
    <3>1. h \in QueuedPreviews
      BY <1>2, <2>2 DEF QueuedPreviews
    <3>2. QueuedPreviews' = {}
      BY <1>1, <2>1, <3>1 DEF Newest
    <3>3. \A c \in InHand : ~(IsPreview(c) /\ ~job[c].cancelled)
      BY <1>1, <3>1 DEF Newest
    <3> QED
      BY <1>4, <1>5, <2>2, <3>2, <3>3 DEF Newest, IsPreview
  <2>3. CASE ~IsPreview(h)
    <3>1. QueuedPreviews' = QueuedPreviews /\ running_preview' = running_preview
      BY <1>4, <2>1, <2>3 DEF QueuedPreviews
    <3> QED
      BY <1>1, <1>4, <1>5, <2>3, <3>1 DEF Newest, IsPreview
  <2> QED
    BY <2>2, <2>3
<1> QED
  BY <1>7, <1>8, <1>9, <1>10 DEF Heap

LEMMA PublishHeap == ASSUME IInv, NEW w \in Threads, Publish(w) PROVE Heap'
<1> DEFINE h == cur[w]
           R == ToSet(results)
<1>1. Typed /\ Apart /\ Accounted /\ Newest
  BY DEF IInv
<1>2. h \in InHand /\ h \in Cells /\ h # NoCell
  <2>1. cur[w] # NoCell
    BY DEF IInv, Staged, Publish
  <2> QED
    BY <1>1, <2>1, Basics
<1>3. /\ results' = <<h>> \o results /\ cur' = [cur EXCEPT ![w] = NoCell]
      /\ running_preview' = (IF running_preview = h THEN NoCell ELSE running_preview)
      /\ UNCHANGED <<job, jobs, draining, stopping>>
  BY DEF Publish
<1>4. /\ results' \in Seq(Cells) /\ ToSet(results') = R \cup {h} /\ IsInjective(results')
  <2> DEFINE t == <<h>>
  <2>1. t \in Seq(Cells) /\ ToSet(t) = {h} /\ IsInjective(t)
    BY <1>2, SingleFacts
  <2>2. results' = t \o results
    BY <1>3
  <2>3. ToSet(t) \cap R = {} /\ results \in Seq(Cells) /\ IsInjective(results)
    BY <1>1, <1>2, <2>1 DEF Apart, Linked, Typed
  <2> HIDE DEF t
  <2> QED
    BY <2>1, <2>2, <2>3, ConcatFacts
<1>5. InHand' = InHand \ {h}
  BY <1>1, <1>2, <1>3 DEF InHand, Typed, Apart
<1>6. Linked' = Linked \cup {h}
  BY <1>3, <1>4 DEF Linked
<1>7. Typed'
  <2>1. pc' \in [Threads -> PCs]
    BY <1>1 DEF Typed, Publish, PCs
  <2>2. cur' \in [Threads -> Cells \cup {NoCell}] /\ running_preview' \in Cells \cup {NoCell}
    BY <1>1, <1>3 DEF Typed
  <2> QED
    BY <1>1, <1>3, <1>4, <2>1, <2>2 DEF Typed
<1>8. Apart'
  <2>1. \A u, v \in Threads : cur'[u] = cur'[v] /\ cur'[u] # NoCell => u = v
    BY <1>1, <1>3 DEF Apart, Typed
  <2>2. InHand' \cap Linked' = {}
    BY <1>1, <1>5, <1>6 DEF Apart
  <2>3. h \notin ToSet(jobs) /\ h \notin ToSet(draining)
    BY <1>1, <1>2 DEF Apart, Linked
  <2> QED
    BY <1>1, <1>3, <1>4, <2>1, <2>2, <2>3 DEF Apart
<1>9. Accounted'
  BY <1>1, <1>2, <1>3, <1>5, <1>6 DEF Accounted
<1>10. Newest'
  <2>1. QueuedPreviews' = QueuedPreviews
    BY <1>3 DEF QueuedPreviews, IsPreview
  <2> QED
    BY <1>1, <1>3, <1>5, <2>1 DEF Newest, IsPreview
<1> QED
  BY <1>7, <1>8, <1>9, <1>10 DEF Heap

LEMMA SignalTypes ==
  ASSUME pc \in [Threads -> PCs], SignalWakeup \/ UNCHANGED pc
  PROVE  pc' \in [Threads -> PCs]
BY DEF SignalWakeup, PCs

LEMMA SubmitHeap == ASSUME IInv, Submit PROVE Heap'
<1> DEFINE m == Malloc
           q == Append(jobs, m)
<1>1. Typed /\ Apart /\ Accounted /\ Newest /\ Heap
  BY DEF IInv, Heap
<1>2. m \in Cells /\ m \notin InHand \cup Linked
  <2>1. m \in FreeCells
    BY MallocIsFree DEF Submit
  <2> QED
    BY <1>1, <2>1 DEF FreeCells, Accounted
<1>3. /\ job' = [job EXCEPT ![m] = NewJob("thumb")] /\ jobs' = q
      /\ UNCHANGED <<results, draining, cur, running_preview, stopping>>
  BY DEF Submit
<1>4. pc' \in [Threads -> PCs]
  BY <1>1, SignalTypes DEF Submit, Typed
<1> HIDE DEF m
<1>5. q \in Seq(Cells) /\ ToSet(q) = ToSet(jobs) \cup {m} /\ IsInjective(q)
  BY <1>1, <1>2, AppendFacts DEF Apart, Linked, Typed
<1> HIDE DEF q
<1>6. /\ job' \in [Cells -> JobRecords] /\ job'[m].kind = "thumb" /\ job'[m] # Free
      /\ \A c \in Cells \ {m} : job'[c] = job[c]
  BY <1>1, <1>2, <1>3 DEF Typed, JobRecords, NewJob, Free
<1>7. \A c \in Cells : job'[c] = Free <=> c \notin InHand \cup ToSet(q) \cup ToSet(results) \cup ToSet(draining)
  BY <1>1, <1>2, <1>5, <1>6 DEF Accounted, Linked
<1>8. \A c \in Cells : job'[c].kind = "free" => job'[c] = Free
  BY <1>1, <1>6 DEF Accounted
<1>9. ToSet(q) \cap (InHand \cup ToSet(results) \cup ToSet(draining)) = {}
  BY <1>1, <1>2, <1>5 DEF Apart, Linked
<1>10. stopping' \in BOOLEAN
  BY <1>1, <1>3 DEF Typed
<1>11. Typed' /\ Apart' /\ Accounted'
  BY <1>1, <1>3, <1>4, <1>5, <1>6, <1>7, <1>8, <1>9, <1>10, QueueEdited
<1>12. Newest'
  <2>1. InHand' = InHand
    BY <1>3 DEF InHand
  <2>2. \A c \in Cells \ {m} : IsPreview(c)' = IsPreview(c)
    BY <1>6 DEF IsPreview
  <2>3. QueuedPreviews' = QueuedPreviews
    BY <1>1, <1>2, <1>3, <1>5, <1>6, <2>2, Basics DEF QueuedPreviews, IsPreview, Linked
  <2>4. \A c \in InHand : IsPreview(c)' = IsPreview(c) /\ job'[c] = job[c]
    BY <1>1, <1>2, <1>6, <2>2, Basics
  <2> QED
    BY <1>1, <1>3, <2>1, <2>3, <2>4 DEF Newest
<1> QED
  BY <1>11, <1>12 DEF Heap

(* Freeing the queued previews and cancelling the one a worker has.        *)
LEMMA PreviewsDropped ==
  ASSUME IInv, NEW heap, heap = CancelRunning(FreeAll(job, QueuedPreviews))
  PROVE  /\ heap \in [Cells -> JobRecords]
         /\ \A c \in Cells : /\ heap[c] = Free <=> c \notin InHand \cup (Linked \ QueuedPreviews)
                             /\ heap[c].kind = "free" => heap[c] = Free
                             /\ c \notin QueuedPreviews => heap[c].kind = job[c].kind
         /\ \A c \in InHand : heap[c].kind = "preview" => heap[c].cancelled
         /\ QueuedPreviews \in SUBSET ToSet(jobs)
<1> DEFINE freed == FreeAll(job, QueuedPreviews)
<1>1. Typed /\ Apart /\ Accounted /\ Newest
  BY DEF IInv
<1>2. job \in [Cells -> JobRecords]
  BY <1>1 DEF Typed
<1>3. /\ freed \in [Cells -> JobRecords]
      /\ \A c \in Cells : freed[c] = IF c \in QueuedPreviews THEN Free ELSE job[c]
  BY <1>2, FreeAllFacts
<1> HIDE DEF freed
<1>4. /\ heap \in [Cells -> JobRecords]
      /\ \A c \in Cells : /\ heap[c].kind = freed[c].kind
                          /\ c # running_preview => heap[c] = freed[c]
                          /\ c = running_preview => heap[c].cancelled
  <2>1. running_preview \in Cells \cup {NoCell} /\ heap = CancelRunning(freed)
    BY <1>1 DEF Typed, freed
  <2> QED
    BY <1>3, <2>1, CancelFacts
<1>5. /\ QueuedPreviews \in SUBSET ToSet(jobs) /\ QueuedPreviews \cap InHand = {}
      /\ running_preview \notin QueuedPreviews
  <2>1. QueuedPreviews \in SUBSET ToSet(jobs)
    BY DEF QueuedPreviews
  <2>2. QueuedPreviews \cap InHand = {}
    BY <1>1, <2>1 DEF Apart, Linked
  <2>3. NoCell \notin QueuedPreviews
    BY <1>1, <2>1, Basics
  <2> QED
    BY <1>1, <2>1, <2>2, <2>3 DEF Newest
<1>6. Free.kind = "free"
  BY DEF Free
<1>7. ASSUME NEW c \in Cells
      PROVE  heap[c] = Free <=> c \notin InHand \cup (Linked \ QueuedPreviews)
  <2>1. CASE c = running_preview
    <3>1. c \in InHand /\ heap[c].kind = "preview" /\ c # NoCell
      BY <1>1, <1>3, <1>4, <1>5, <2>1, Basics DEF Newest, IsPreview
    <3> QED
      BY <1>6, <3>1
  <2>2. CASE c \in QueuedPreviews
    BY <1>3, <1>4, <1>5, <2>2
  <2>3. CASE c # running_preview /\ c \notin QueuedPreviews
    <3>1. heap[c] = job[c]
      BY <1>3, <1>4, <2>3
    <3> QED
      BY <1>1, <2>3, <3>1 DEF Accounted
  <2> QED
    BY <2>1, <2>2, <2>3
<1>8. ASSUME NEW c \in Cells, heap[c].kind = "free"
      PROVE  heap[c] = Free
  <2>1. CASE c = running_preview
    <3>1. job[c].kind = "preview" /\ heap[c].kind = job[c].kind
      BY <1>1, <1>3, <1>4, <1>5, <2>1, Basics DEF Newest, IsPreview
    <3> QED
      BY <1>8, <3>1
  <2>2. CASE c # running_preview
    BY <1>1, <1>3, <1>4, <1>8, <2>2 DEF Accounted
  <2> QED
    BY <2>1, <2>2
<1>9. ASSUME NEW c \in InHand, heap[c].kind = "preview"
      PROVE  heap[c].cancelled
  <2>1. c \in Cells /\ c \notin QueuedPreviews
    BY <1>1, <1>5, Basics
  <2>2. CASE c = running_preview
    BY <1>4, <2>1, <2>2
  <2>3. CASE c # running_preview
    <3>1. heap[c] = job[c] /\ IsPreview(c)
      BY <1>3, <1>4, <1>9, <2>1, <2>3 DEF IsPreview
    <3> QED
      BY <1>1, <2>3, <3>1 DEF Newest
  <2> QED
    BY <2>2, <2>3
<1> QED
  BY <1>3, <1>4, <1>5, <1>7, <1>8, <1>9

LEMMA ThumbsOnly ==
  ASSUME IInv
  PROVE  LET q == Only(jobs, QueuedThumbs)
         IN  /\ q \in Seq(Cells) /\ IsInjective(q) /\ Len(q) <= Len(jobs)
             /\ ToSet(q) = ToSet(jobs) \ QueuedPreviews
             /\ \A c \in ToSet(q) : job[c].kind = "thumb"
<1> DEFINE q == Only(jobs, QueuedThumbs)
<1>1. Typed /\ Apart /\ Accounted
  BY DEF IInv
<1>2. /\ q \in Seq(Cells) /\ Len(q) <= Len(jobs) /\ IsInjective(q)
      /\ ToSet(q) = ToSet(jobs) \cap QueuedThumbs
  <2>1. jobs \in Seq(Cells)
    BY <1>1 DEF Typed
  <2>2. \A i, j \in DOMAIN jobs : jobs[i] = jobs[j] => i = j
    BY <1>1 DEF Apart, IsInjective
  <2> QED
    BY <2>1, <2>2, OnlyFacts
<1>3. ASSUME NEW c \in ToSet(jobs) PROVE IsThumb(c) \/ IsPreview(c)
  <2>1. c \in Cells /\ job[c] # Free
    BY <1>1, Basics DEF Accounted, Linked
  <2>2. job[c].kind # "free" /\ job[c].kind \in {"free", "thumb", "preview"}
    BY <1>1, <2>1 DEF Accounted, Typed, JobRecords
  <2> QED
    BY <2>2 DEF IsThumb, IsPreview
<1>4. ToSet(jobs) \cap QueuedThumbs = ToSet(jobs) \ QueuedPreviews
  BY <1>3 DEF QueuedThumbs, QueuedPreviews, IsThumb, IsPreview
<1> QED
  BY <1>2, <1>4 DEF QueuedThumbs, IsThumb

LEMMA CancelHeap == ASSUME IInv, CancelPreview PROVE Heap'
<1> DEFINE q == Only(jobs, QueuedThumbs)
<1>1. Typed /\ Apart /\ Accounted /\ Newest /\ Heap
  BY DEF IInv, Heap
<1>2. /\ job' = CancelRunning(FreeAll(job, QueuedPreviews)) /\ jobs' = q
      /\ UNCHANGED <<results, draining, cur, running_preview, stopping, pc>>
  BY DEF CancelPreview
<1>3. /\ q \in Seq(Cells) /\ IsInjective(q) /\ ToSet(q) = ToSet(jobs) \ QueuedPreviews
      /\ \A c \in ToSet(q) : job[c].kind = "thumb"
  BY ThumbsOnly
<1> HIDE DEF q
<1>4. /\ job' \in [Cells -> JobRecords]
      /\ \A c \in Cells : /\ job'[c] = Free <=> c \notin InHand \cup (Linked \ QueuedPreviews)
                          /\ job'[c].kind = "free" => job'[c] = Free
                          /\ c \notin QueuedPreviews => job'[c].kind = job[c].kind
      /\ \A c \in InHand : job'[c].kind = "preview" => job'[c].cancelled
      /\ QueuedPreviews \in SUBSET ToSet(jobs)
  BY <1>2, PreviewsDropped
<1>5. Linked \ QueuedPreviews = ToSet(q) \cup ToSet(results) \cup ToSet(draining)
  BY <1>1, <1>3, <1>4 DEF Linked, Apart
<1>6. \A c \in Cells : job'[c] = Free <=> c \notin InHand \cup ToSet(q) \cup ToSet(results) \cup ToSet(draining)
  BY <1>4, <1>5
<1>7. ToSet(q) \cap (InHand \cup ToSet(results) \cup ToSet(draining)) = {}
  BY <1>1, <1>3 DEF Apart, Linked
<1>8. pc' \in [Threads -> PCs] /\ stopping' \in BOOLEAN
  BY <1>1, <1>2 DEF Typed
<1>9. Typed' /\ Apart' /\ Accounted'
  BY <1>1, <1>2, <1>3, <1>4, <1>6, <1>7, <1>8, QueueEdited
<1>10. Newest'
  <2>1. InHand' = InHand
    BY <1>2 DEF InHand
  <2>2. QueuedPreviews' = {}
    <3>1. \A c \in ToSet(q) : c \in Cells /\ c \notin QueuedPreviews
      BY <1>1, <1>3, Basics
    <3>2. \A c \in ToSet(q) : job'[c].kind = "thumb"
      BY <1>3, <1>4, <3>1
    <3> QED
      BY <1>2, <3>2 DEF QueuedPreviews, IsPreview
  <2>3. running_preview # NoCell => IsPreview(running_preview)'
    <3> SUFFICES ASSUME running_preview # NoCell PROVE job'[running_preview].kind = "preview"
      BY <1>2 DEF IsPreview
    <3>1. running_preview \in InHand /\ job[running_preview].kind = "preview"
      BY <1>1 DEF Newest, IsPreview
    <3>2. running_preview \in Cells /\ running_preview \notin QueuedPreviews
      BY <1>1, <1>4, <3>1, Basics DEF Apart, Linked
    <3> QED
      BY <1>4, <3>1, <3>2
  <2> QED
    BY <1>1, <1>2, <1>4, <2>1, <2>2, <2>3 DEF Newest, IsPreview
<1> QED
  BY <1>9, <1>10 DEF Heap

LEMMA SubmitPreviewHeap == ASSUME IInv, SubmitPreview PROVE Heap'
<1> DEFINE m == Malloc
           t == Only(jobs, QueuedThumbs)
           one == <<m>>
           q == one \o t
           heap == CancelRunning(FreeAll(job, QueuedPreviews))
<1>1. Typed /\ Apart /\ Accounted /\ Newest /\ Heap
  BY DEF IInv, Heap
<1>2. m \in Cells /\ m \notin InHand \cup Linked
  <2>1. m \in FreeCells
    BY MallocIsFree DEF SubmitPreview
  <2> QED
    BY <1>1, <2>1 DEF FreeCells, Accounted
<1>3. /\ job' = CancelRunning([FreeAll(job, QueuedPreviews) EXCEPT ![m] = NewJob("preview")])
      /\ jobs' = q
      /\ UNCHANGED <<results, draining, cur, running_preview, stopping>>
  BY DEF SubmitPreview
<1>4. pc' \in [Threads -> PCs]
  BY <1>1, SignalTypes DEF SubmitPreview, Typed
<1>5. stopping' \in BOOLEAN
  BY <1>1, <1>3 DEF Typed
<1> HIDE DEF m
<1>6. /\ t \in Seq(Cells) /\ IsInjective(t) /\ ToSet(t) = ToSet(jobs) \ QueuedPreviews
      /\ \A c \in ToSet(t) : job[c].kind = "thumb"
  BY ThumbsOnly
<1>7. one \in Seq(Cells) /\ ToSet(one) = {m} /\ IsInjective(one)
  BY <1>2, SingleFacts
<1> HIDE DEF t, one
<1>8. q \in Seq(Cells) /\ ToSet(q) = {m} \cup ToSet(t) /\ IsInjective(q)
  <2>1. ToSet(one) \cap ToSet(t) = {}
    BY <1>2, <1>6, <1>7 DEF Linked
  <2> QED
    BY <1>6, <1>7, <2>1, ConcatFacts
<1> HIDE DEF q
<1>9. /\ heap \in [Cells -> JobRecords]
      /\ \A c \in Cells : /\ heap[c] = Free <=> c \notin InHand \cup (Linked \ QueuedPreviews)
                          /\ heap[c].kind = "free" => heap[c] = Free
                          /\ c \notin QueuedPreviews => heap[c].kind = job[c].kind
      /\ \A c \in InHand : heap[c].kind = "preview" => heap[c].cancelled
      /\ QueuedPreviews \in SUBSET ToSet(jobs)
  BY PreviewsDropped
<1>10. /\ job' \in [Cells -> JobRecords] /\ job'[m].kind = "preview"
       /\ \A c \in Cells \ {m} : job'[c] = heap[c]
  <2> DEFINE freed == FreeAll(job, QueuedPreviews)
             made == [freed EXCEPT ![m] = NewJob("preview")]
  <2>1. freed \in [Cells -> JobRecords]
    BY <1>1, FreeAllFacts DEF Typed
  <2>2. heap = CancelRunning(freed)
    OBVIOUS
  <2>3. job' = CancelRunning(made)
    BY <1>3
  <2> HIDE DEF freed, heap
  <2>4. NewJob("preview") \in JobRecords /\ NewJob("preview").kind = "preview"
    BY DEF NewJob, JobRecords
  <2>5. made \in [Cells -> JobRecords] /\ made[m].kind = "preview" /\ \A c \in Cells \ {m} : made[c] = freed[c]
    BY <1>2, <2>1, <2>4
  <2> HIDE DEF made
  <2>6. running_preview \in Cells \cup {NoCell} /\ running_preview # m
    <3>1. m # NoCell
      BY <1>1, <1>2, Basics
    <3> QED
      BY <1>1, <1>2, <3>1 DEF Typed, Newest
  <2>7. job' \in [Cells -> JobRecords] /\ job'[m].kind = "preview"
    BY <1>2, <2>3, <2>5, <2>6, CancelFacts
  <2>8. \A c \in Cells \ {m} : job'[c] = heap[c]
    <3>1. CASE running_preview = NoCell
      BY <2>1, <2>2, <2>3, <2>5, <3>1, CancelFacts
    <3>2. CASE running_preview # NoCell
      <4>1. job' = [made EXCEPT ![running_preview].cancelled = TRUE]
        BY <2>3, <3>2 DEF CancelRunning
      <4>2. heap = [freed EXCEPT ![running_preview].cancelled = TRUE]
        BY <2>2, <3>2 DEF CancelRunning
      <4> QED
        BY <2>1, <2>5, <2>6, <4>1, <4>2
    <3> QED
      BY <3>1, <3>2
  <2> QED
    BY <2>7, <2>8
<1> HIDE DEF heap
<1>11. Free.kind = "free"
  BY DEF Free
<1>12. Linked \ QueuedPreviews = ToSet(t) \cup ToSet(results) \cup ToSet(draining)
  BY <1>1, <1>6, <1>9 DEF Linked, Apart
<1>13. \A c \in Cells : job'[c] = Free <=> c \notin InHand \cup ToSet(q) \cup ToSet(results) \cup ToSet(draining)
  BY <1>8, <1>9, <1>10, <1>11, <1>12
<1>14. \A c \in Cells : job'[c].kind = "free" => job'[c] = Free
  BY <1>9, <1>10
<1>15. ToSet(q) \cap (InHand \cup ToSet(results) \cup ToSet(draining)) = {}
  BY <1>1, <1>2, <1>6, <1>8 DEF Apart, Linked
<1>16. Typed' /\ Apart' /\ Accounted'
  BY <1>1, <1>3, <1>4, <1>5, <1>8, <1>10, <1>13, <1>14, <1>15, QueueEdited
<1>17. Newest'
  <2>1. InHand' = InHand
    BY <1>3 DEF InHand
  <2>2. QueuedPreviews' = {m}
    <3>1. \A c \in ToSet(t) : c \in Cells \ {m} /\ c \notin QueuedPreviews
      BY <1>1, <1>2, <1>6, Basics DEF Linked
    <3>2. \A c \in ToSet(t) : job'[c].kind = "thumb"
      BY <1>6, <1>9, <1>10, <3>1
    <3> QED
      BY <1>3, <1>8, <1>10, <3>2 DEF QueuedPreviews, IsPreview
  <2>3. \A c \in InHand : job'[c] = heap[c]
    BY <1>1, <1>2, <1>10, Basics
  <2>4. running_preview # NoCell => IsPreview(running_preview)'
    <3> SUFFICES ASSUME running_preview # NoCell PROVE job'[running_preview].kind = "preview"
      BY <1>3 DEF IsPreview
    <3>1. running_preview \in InHand /\ job[running_preview].kind = "preview"
      BY <1>1 DEF Newest, IsPreview
    <3>2. running_preview \in Cells /\ running_preview \notin QueuedPreviews
      BY <1>1, <1>9, <3>1, Basics DEF Apart, Linked
    <3> QED
      BY <1>9, <2>3, <3>1, <3>2
  <2> QED
    BY <1>1, <1>3, <1>9, <2>1, <2>2, <2>3, <2>4 DEF Newest, IsPreview
<1> QED
  BY <1>16, <1>17 DEF Heap

LEMMA PrioritizeHeap ==
  ASSUME IInv, PrioritizeThumbs
  PROVE  Heap' /\ ToSet(jobs') \in SUBSET ToSet(jobs) /\ \A c \in InHand : job'[c] = job[c]
<1>1. Typed /\ Apart /\ Accounted /\ Newest /\ Heap
  BY DEF IInv, Heap
<1> PICK keep \in SUBSET QueuedThumbs : \E visible \in SUBSET keep :
        /\ jobs' = Only(jobs, QueuedPreviews) \o Only(jobs, visible) \o Only(jobs, keep \ visible)
        /\ job' = FreeAll(job, QueuedThumbs \ keep)
  BY DEF PrioritizeThumbs
<1>2. PICK visible \in SUBSET keep :
        /\ jobs' = Only(jobs, QueuedPreviews) \o Only(jobs, visible) \o Only(jobs, keep \ visible)
        /\ job' = FreeAll(job, QueuedThumbs \ keep)
  OBVIOUS
<1> DEFINE a == Only(jobs, QueuedPreviews)
           b == Only(jobs, visible)
           c == Only(jobs, keep \ visible)
           q == a \o b \o c
           J == ToSet(jobs)
<1>3. UNCHANGED <<results, draining, cur, running_preview, stopping, pc>>
  BY DEF PrioritizeThumbs
<1>4. QueuedThumbs \in SUBSET J /\ QueuedPreviews \in SUBSET J /\ QueuedThumbs \cap QueuedPreviews = {}
  BY DEF QueuedThumbs, QueuedPreviews, IsThumb, IsPreview
<1>5. ASSUME NEW T \in SUBSET J
      PROVE  Only(jobs, T) \in Seq(Cells) /\ IsInjective(Only(jobs, T)) /\ ToSet(Only(jobs, T)) = T
  <2>1. jobs \in Seq(Cells) /\ J \cap T = T
    BY <1>1 DEF Typed
  <2>2. \A i, j \in DOMAIN jobs : jobs[i] = jobs[j] => i = j
    BY <1>1 DEF Apart, IsInjective
  <2> QED
    BY <2>1, <2>2, OnlyFacts
<1>6. /\ a \in Seq(Cells) /\ IsInjective(a) /\ ToSet(a) = QueuedPreviews
      /\ b \in Seq(Cells) /\ IsInjective(b) /\ ToSet(b) = visible
      /\ c \in Seq(Cells) /\ IsInjective(c) /\ ToSet(c) = keep \ visible
  <2>1. visible \in SUBSET J /\ keep \ visible \in SUBSET J
    BY <1>4
  <2> QED
    BY <1>4, <1>5, <2>1
<1> HIDE DEF a, b, c
<1>7. q \in Seq(Cells) /\ IsInjective(q) /\ ToSet(q) = QueuedPreviews \cup keep
  <2> DEFINE ab == a \o b
  <2>1. ToSet(a) \cap ToSet(b) = {}
    BY <1>4, <1>6
  <2>2. ab \in Seq(Cells) /\ IsInjective(ab) /\ ToSet(ab) = QueuedPreviews \cup visible
    BY <1>6, <2>1, ConcatFacts
  <2> HIDE DEF ab
  <2>3. ToSet(ab) \cap ToSet(c) = {}
    BY <1>4, <1>6, <2>2
  <2>4. ab \o c \in Seq(Cells) /\ IsInjective(ab \o c) /\ ToSet(ab \o c) = QueuedPreviews \cup keep
    <3>1. (QueuedPreviews \cup visible) \cup (keep \ visible) = QueuedPreviews \cup keep
      OBVIOUS
    <3> QED
      BY <1>6, <2>2, <2>3, <3>1, ConcatFacts
  <2> QED
    BY <2>4 DEF ab
<1>8. jobs' = q
  BY <1>2 DEF a, b, c
<1> HIDE DEF q
<1>9. /\ job' \in [Cells -> JobRecords]
      /\ \A d \in Cells : job'[d] = IF d \in QueuedThumbs \ keep THEN Free ELSE job[d]
  <2>1. job \in [Cells -> JobRecords]
    BY <1>1 DEF Typed
  <2> QED
    BY <1>2, <2>1, FreeAllFacts
<1>10. \A d \in J : d \in Cells /\ (d \in QueuedThumbs \/ d \in QueuedPreviews)
  <2> SUFFICES ASSUME NEW d \in J PROVE d \in Cells /\ (IsThumb(d) \/ IsPreview(d))
    BY DEF QueuedThumbs, QueuedPreviews
  <2>1. d \in Cells /\ job[d] # Free
    BY <1>1, Basics DEF Accounted, Linked
  <2>2. job[d].kind # "free" /\ job[d].kind \in {"free", "thumb", "preview"}
    BY <1>1, <2>1 DEF Accounted, Typed, JobRecords
  <2> QED
    BY <2>1, <2>2 DEF IsThumb, IsPreview
<1>11. Free.kind = "free"
  BY DEF Free
<1>12. \A d \in Cells : job'[d] = Free <=> d \notin InHand \cup ToSet(q) \cup ToSet(results) \cup ToSet(draining)
  <2> TAKE d \in Cells
  <2>1. CASE d \in QueuedThumbs \ keep
    <3>1. d \in J /\ d \notin InHand \cup ToSet(results) \cup ToSet(draining)
      BY <1>1, <1>4, <2>1 DEF Apart, Linked
    <3>2. d \notin QueuedPreviews \cup keep
      BY <1>4, <2>1
    <3> QED
      BY <1>7, <1>9, <2>1, <3>1, <3>2
  <2>2. CASE d \notin QueuedThumbs \ keep
    <3>1. d \in J <=> d \in QueuedPreviews \cup keep
      BY <1>4, <1>10, <2>2
    <3> QED
      BY <1>1, <1>7, <1>9, <2>2, <3>1 DEF Accounted, Linked
  <2> QED
    BY <2>1, <2>2
<1>13. \A d \in Cells : job'[d].kind = "free" => job'[d] = Free
  BY <1>1, <1>9 DEF Accounted
<1>14. ToSet(q) \in SUBSET J
  BY <1>4, <1>7
<1>15. ToSet(q) \cap (InHand \cup ToSet(results) \cup ToSet(draining)) = {}
  BY <1>1, <1>14 DEF Apart, Linked
<1>16. pc' \in [Threads -> PCs] /\ stopping' \in BOOLEAN
  BY <1>1, <1>3 DEF Typed
<1>17. Typed' /\ Apart' /\ Accounted'
  BY <1>1, <1>3, <1>7, <1>8, <1>9, <1>12, <1>13, <1>15, <1>16, QueueEdited
<1>18. \A d \in InHand : job'[d] = job[d]
  <2> TAKE d \in InHand
  <2>1. d \in Cells /\ d \notin J
    BY <1>1, Basics DEF Apart, Linked
  <2> QED
    BY <1>4, <1>9, <2>1
<1>19. Newest'
  <2>1. InHand' = InHand
    BY <1>3 DEF InHand
  <2>2. \A d \in ToSet(q) : job'[d] = job[d]
    <3> TAKE d \in ToSet(q)
    <3>1. d \in Cells /\ d \notin QueuedThumbs \ keep
      BY <1>4, <1>7, <1>10
    <3> QED
      BY <1>9, <3>1
  <2>3. QueuedPreviews' = {d \in ToSet(q) : IsPreview(d)}
    BY <1>8, <2>2 DEF QueuedPreviews, IsPreview
  <2>4. QueuedPreviews' = QueuedPreviews
    BY <1>4, <1>7, <1>14, <2>3 DEF QueuedPreviews
  <2> QED
    BY <1>1, <1>3, <1>18, <2>1, <2>4 DEF Newest, IsPreview
<1> QED
  BY <1>8, <1>14, <1>17, <1>18, <1>19 DEF Heap

LEMMA DetachHeap == ASSUME IInv, DrainDetach PROVE Heap'
<1>1. Typed /\ Apart /\ Accounted /\ Newest
  BY DEF IInv
<1>2. draining = <<>>
  BY DEF IInv, Staged, DrainDetach
<1>3. /\ results' = <<>> /\ draining' = Reverse(results)
      /\ UNCHANGED <<job, jobs, running_preview, stopping, pc, cur>>
  BY DEF DrainDetach
<1>4. draining' \in Seq(Cells) /\ ToSet(draining') = ToSet(results) /\ IsInjective(draining')
  BY <1>1, <1>3, ReverseFacts DEF Typed, Apart
<1>5. <<>> \in Seq(Cells) /\ ToSet(<<>>) = {} /\ IsInjective(<<>>)
  BY DEF ToSet, IsInjective
<1>6. Linked' = Linked /\ InHand' = InHand
  BY <1>2, <1>3, <1>4, <1>5 DEF Linked, InHand
<1>7. Typed'
  BY <1>1, <1>3, <1>4, <1>5 DEF Typed
<1>8. Apart'
  BY <1>1, <1>3, <1>4, <1>5, <1>6 DEF Apart
<1>9. Accounted' /\ Newest'
  BY <1>1, <1>3, <1>6 DEF Accounted, Newest, QueuedPreviews, IsPreview
<1> QED
  BY <1>7, <1>8, <1>9 DEF Heap

LEMMA DeliverHeap ==
  ASSUME IInv, DrainDeliver
  PROVE  Heap' /\ \A c \in InHand : job'[c] = job[c]
<1>1. Typed /\ Apart /\ Accounted /\ Newest
  BY DEF IInv
<1>2. CASE draining = <<>>
  <2>1. UNCHANGED <<job, jobs, results, draining, running_preview, cur, pc, stopping>>
    BY <1>2 DEF DrainDeliver
  <2>2. pc' \in [Threads -> PCs] /\ stopping' \in BOOLEAN
    BY <1>1, <2>1 DEF Typed
  <2>3. Heap
    BY <1>1 DEF Heap
  <2>4. Heap'
    BY <2>1, <2>2, <2>3, HeapUntouched
  <2> QED
    BY <2>1, <2>4
<1>3. CASE draining # <<>>
  <2> DEFINE h == Head(draining)
             t == Tail(draining)
             D == ToSet(draining)
  <2>1. /\ job' = FreeAll(job, {h}) /\ draining' = t
        /\ UNCHANGED <<jobs, results, running_preview, cur, pc, stopping>>
    BY <1>3 DEF DrainDeliver
  <2>2. h \in D /\ t \in Seq(Cells) /\ IsInjective(t) /\ ToSet(t) = D \ {h}
    BY <1>1, <1>3, HeadFacts DEF Typed, Apart
  <2> HIDE DEF h, t
  <2>3. /\ job' \in [Cells -> JobRecords]
        /\ \A c \in Cells : job'[c] = IF c = h THEN Free ELSE job[c]
    <3>1. job \in [Cells -> JobRecords]
      BY <1>1 DEF Typed
    <3> QED
      BY <2>1, <3>1, FreeAllFacts
  <2>4. InHand' = InHand
    BY <2>1 DEF InHand
  <2>5. Linked' = Linked \ {h} /\ h \in Linked
    BY <1>1, <2>1, <2>2 DEF Linked, Apart
  <2>6. Typed'
    BY <1>1, <2>1, <2>2, <2>3 DEF Typed
  <2>7. Apart'
    <3>1. InHand' \cap Linked' = {}
      BY <1>1, <2>4, <2>5 DEF Apart
    <3> QED
      BY <1>1, <2>1, <2>2, <3>1 DEF Apart
  <2>8. Accounted'
    <3>1. h \notin InHand
      BY <1>1, <2>5 DEF Apart
    <3> QED
      BY <1>1, <2>3, <2>4, <2>5, <3>1 DEF Accounted
  <2>9. \A c \in InHand \cup ToSet(jobs) : job'[c] = job[c]
    <3> TAKE c \in InHand \cup ToSet(jobs)
    <3>1. c \in Cells /\ c # h
      BY <1>1, <2>2, Basics DEF Apart, Linked
    <3> QED
      BY <2>3, <3>1
  <2>10. Newest'
    <3>1. QueuedPreviews' = QueuedPreviews
      BY <2>1, <2>9 DEF QueuedPreviews, IsPreview
    <3> QED
      BY <1>1, <2>1, <2>4, <2>9, <3>1 DEF Newest, IsPreview
  <2> QED
    BY <2>6, <2>7, <2>8, <2>9, <2>10 DEF Heap
<1> QED
  BY <1>2, <1>3

LEMMA RaiseHeap == ASSUME IInv, RaiseStopping PROVE Heap'
<1>1. Typed /\ Apart /\ Accounted /\ Newest
  BY DEF IInv
<1>2. /\ job' = CancelRunning(job) /\ stopping' = TRUE
      /\ pc' = [w \in Threads |-> IF pc[w] = "asleep" THEN "take" ELSE pc[w]]
      /\ UNCHANGED <<jobs, results, draining, running_preview, cur>>
  BY DEF RaiseStopping
<1>3. /\ job' \in [Cells -> JobRecords]
      /\ \A c \in Cells : /\ job'[c].kind = job[c].kind
                          /\ c # running_preview => job'[c] = job[c]
                          /\ c = running_preview => job'[c].cancelled
  BY <1>1, <1>2, CancelFacts DEF Typed
<1>4. Typed'
  <2>1. pc' \in [Threads -> PCs]
    BY <1>1, <1>2 DEF Typed, PCs
  <2> QED
    BY <1>1, <1>2, <1>3, <2>1 DEF Typed
<1>5. InHand' = InHand /\ Linked' = Linked
  BY <1>2 DEF InHand, Linked
<1>6. Apart'
  BY <1>1, <1>2, <1>5 DEF Apart
<1>7. Accounted'
  <2>1. \A c \in Cells : c = running_preview => job'[c].kind = "preview" /\ job[c].kind = "preview"
    BY <1>1, <1>3, Basics DEF Newest, IsPreview
  <2>2. Free.kind = "free"
    BY DEF Free
  <2>3. \A c \in Cells : job'[c] = Free <=> job[c] = Free
    BY <1>3, <2>1, <2>2
  <2> QED
    BY <1>1, <1>3, <1>5, <2>1, <2>3 DEF Accounted
<1>8. Newest'
  <2>1. \A c \in InHand \cup ToSet(jobs) : c \in Cells
    BY <1>1, Basics
  <2>2. QueuedPreviews' = QueuedPreviews
    BY <1>2, <1>3, <2>1 DEF QueuedPreviews, IsPreview
  <2>3. \A c \in InHand : ~(IsPreview(c)' /\ ~job'[c].cancelled)
    <3> TAKE c \in InHand
    <3>1. c \in Cells
      BY <2>1
    <3>2. c # running_preview => ~(IsPreview(c) /\ ~job[c].cancelled)
      BY <1>1 DEF Newest
    <3> QED
      BY <1>3, <3>1, <3>2 DEF IsPreview
  <2> QED
    BY <1>1, <1>2, <1>3, <1>5, <2>1, <2>2, <2>3 DEF Newest, IsPreview
<1> QED
  BY <1>4, <1>6, <1>7, <1>8 DEF Heap

LEMMA FreePoolHeap == ASSUME IInv, FreePool PROVE Heap'
<1> DEFINE S == ToSet(jobs) \cup ToSet(results)
<1>1. Typed /\ Apart /\ Accounted /\ Newest
  BY DEF IInv
<1>2. /\ job' = FreeAll(job, S) /\ jobs' = <<>> /\ results' = <<>>
      /\ UNCHANGED <<draining, running_preview, cur, pc, stopping>>
  BY DEF FreePool
<1>3. draining = <<>>
  BY DEF IInv, Staged, FreePool
<1>4. InHand = {}
  <2>1. \A w \in Threads : cur[w] = NoCell
    BY DEF IInv, Staged, FreePool
  <2> QED
    BY <2>1 DEF InHand
<1>5. <<>> \in Seq(Cells) /\ ToSet(<<>>) = {} /\ IsInjective(<<>>)
  BY DEF ToSet, IsInjective
<1>6. InHand' = {} /\ Linked' = {} /\ Linked = S
  BY <1>2, <1>3, <1>4, <1>5 DEF InHand, Linked
<1>7. job' \in [Cells -> JobRecords] /\ \A c \in Cells : job'[c] = IF c \in S THEN Free ELSE job[c]
  BY <1>1, <1>2, FreeAllFacts DEF Typed
<1>8. Typed'
  BY <1>1, <1>2, <1>5, <1>7 DEF Typed
<1>9. Apart'
  BY <1>1, <1>2, <1>3, <1>5, <1>6 DEF Apart
<1>10. Accounted'
  BY <1>1, <1>4, <1>6, <1>7 DEF Accounted
<1>11. Newest'
  <2>1. QueuedPreviews' = {}
    BY <1>2, <1>5 DEF QueuedPreviews
  <2> QED
    BY <1>1, <1>2, <1>4, <1>6, <2>1 DEF Newest
<1> QED
  BY <1>8, <1>9, <1>10, <1>11 DEF Heap

-----------------------------------------------------------------------------
(* Where the workers are.                                                  *)

LEMMA BroadcastFacts ==
  ASSUME NEW st \in [1 .. 4 -> Budget!Stages]
  PROVE  /\ Budget!Broadcast(st) \in [1 .. 4 -> Budget!Stages]
         /\ \A w \in 1 .. 4 : Budget!Broadcast(st)[w] = "off" <=> st[w] = "off"
BY DEF Budget!Broadcast, Budget!Workers, Budget!MAX_WORKERS, Budget!Stages

LEMMA CancelWakes ==
  ASSUME stage \in [1 .. 4 -> Budget!Stages]
  PROVE  /\ WakeForCancel \in [1 .. 4 -> Budget!Stages]
         /\ \A w \in 1 .. 4 : WakeForCancel[w] = "off" <=> stage[w] = "off"
BY BroadcastFacts DEF WakeForCancel

(* Nobody starts or ends a decode, or picks up or lays down a job.         *)
LEMMA StagedKept ==
  ASSUME Staged, UNCHANGED cur, stage' \in [1 .. 4 -> Budget!Stages],
         \A w \in 1 .. 4 : stage'[w] = "off" <=> stage[w] = "off",
         main' # "deliver" => draining' = <<>>,
         \A w \in Threads : \/ pc'[w] = pc[w]
                            \/ /\ pc[w] \notin {"produce", "decode", "publish"}
                               /\ pc'[w] \notin {"produce", "decode", "publish"}
  PROVE  Staged'
BY DEF Staged

LEMMA WorkerStaged ==
  ASSUME IInv, NEW w \in Threads, Worker(w) \/ SpuriousWake(w) \/ SpuriousBudgetWake(w)
  PROVE  Staged'
<1>1. Typed /\ Staged /\ w \in 1 .. 4 /\ Threads \in SUBSET (1 .. 4)
  BY Basics DEF IInv
<1>2. pc \in [Threads -> PCs] /\ cur \in [Threads -> Cells \cup {NoCell}] /\ stage \in [1 .. 4 -> Budget!Stages]
  BY <1>1 DEF Typed, Staged
<1>3. UNCHANGED <<main, draining>>
  BY DEF Worker, SpuriousWake, SpuriousBudgetWake, Sleep, Exit, Take, GiveUp, CacheHit,
         StartDecode, ReserveDecode, FinishDecode, Publish, Notify, Local
<1>4. main' # "deliver" => draining' = <<>>
  BY <1>1, <1>3 DEF Staged
<1>5. ASSUME UNCHANGED <<cur, stage>>, NEW to \in PCs \ {"produce", "decode", "publish"},
             pc[w] \notin {"produce", "decode", "publish"}, pc' = [pc EXCEPT ![w] = to]
      PROVE  Staged'
  BY <1>1, <1>2, <1>4, <1>5, StagedKept
<1>6. CASE Sleep(w) \/ SpuriousWake(w) \/ Exit(w) \/ Notify(w)
  BY <1>5, <1>6 DEF Sleep, SpuriousWake, Exit, Notify, PCs, budget
<1>7. CASE Take(w)
  <2>1. Head(jobs) \in Cells /\ NoCell \notin Cells
    BY <1>1, <1>7, HeadFacts, Basics DEF Take, Typed
  <2>2. cur' = [cur EXCEPT ![w] = Head(jobs)] /\ pc' = [pc EXCEPT ![w] = "produce"] /\ UNCHANGED stage
    BY <1>7 DEF Take, budget
  <2>3. pc[w] = "take"
    BY <1>7 DEF Take
  <2>4. stage[w] = "off"
    BY <1>1, <2>3 DEF Staged
  <2> HIDE DEF Staged
  <2> DEFINE h == Head(jobs)
  <2> HIDE DEF h
  <2>5. cur' = [cur EXCEPT ![w] = h] /\ h # NoCell
    BY <2>1, <2>2 DEF h
  <2> QED
    BY <1>1, <1>2, <1>4, <2>2, <2>3, <2>4, <2>5 DEF Staged
<1>8. CASE Publish(w)
  <2>1. cur' = [cur EXCEPT ![w] = NoCell] /\ pc' = [pc EXCEPT ![w] = "notify"] /\ UNCHANGED stage
    BY <1>8 DEF Publish, budget
  <2>2. pc[w] = "publish" /\ stage[w] = "off"
    BY <1>1, <1>8 DEF Publish, Staged
  <2> QED
    BY <1>1, <1>2, <1>4, <2>1, <2>2 DEF Staged
<1>9. CASE GiveUp(w) \/ CacheHit(w)
  <2>1. /\ pc[w] = "produce" /\ pc' = [pc EXCEPT ![w] = "publish"] /\ UNCHANGED <<cur, stage>>
    BY <1>9 DEF GiveUp, CacheHit, Local, budget
  <2> QED
    BY <1>1, <1>2, <1>4, <2>1 DEF Staged
<1>10. CASE StartDecode(w)
  <2>1. /\ pc[w] = "produce" /\ pc' = [pc EXCEPT ![w] = "decode"] /\ UNCHANGED cur
        /\ stage' = [stage EXCEPT ![w] = "open"]
    BY <1>10 DEF StartDecode, Local, Budget!OpenStep
  <2>2. "open" \in Budget!Stages
    BY DEF Budget!Stages
  <2> QED
    BY <1>1, <1>2, <1>4, <2>1, <2>2 DEF Staged
<1>11. CASE ReserveDecode(w) \/ SpuriousBudgetWake(w)
  <2>1. UNCHANGED <<pc, cur>> /\ pc[w] = "decode"
    BY <1>11 DEF ReserveDecode, SpuriousBudgetWake, Local
  <2>2. \E to \in Budget!Stages \ {"off"} : stage' = [stage EXCEPT ![w] = to]
    BY <1>11 DEF ReserveDecode, SpuriousBudgetWake, Budget!ReserveStep, Budget!RefuseOversize,
                 Budget!Sleep, Budget!Grant, Budget!Refuse, Budget!SpuriousStep, Budget!Stages
  <2>3. stage[w] # "off"
    BY <1>1, <2>1 DEF Staged
  <2>4. /\ stage' \in [1 .. 4 -> Budget!Stages]
        /\ \A v \in 1 .. 4 : stage'[v] = "off" <=> stage[v] = "off"
    BY <1>1, <1>2, <2>2, <2>3
  <2> QED
    BY <1>1, <1>4, <2>1, <2>4, StagedKept
<1>12. CASE FinishDecode(w)
  <2>1. /\ pc[w] = "decode" /\ pc' = [pc EXCEPT ![w] = "publish"] /\ UNCHANGED cur
        /\ Budget!ReleaseStep(w)
    BY <1>12 DEF FinishDecode, Local
  <2> DEFINE closed == [stage EXCEPT ![w] = "off"]
  <2>2. closed \in [1 .. 4 -> Budget!Stages]
    BY <1>2 DEF Budget!Stages
  <2>3. stage' = closed \/ stage' = Budget!Broadcast(closed)
    BY <2>1 DEF Budget!ReleaseStep
  <2>4. stage' \in [1 .. 4 -> Budget!Stages] /\ \A v \in 1 .. 4 : stage'[v] = "off" <=> closed[v] = "off"
    <3> HIDE DEF closed
    <3> QED
      BY <2>2, <2>3, BroadcastFacts
  <2>5. \A v \in 1 .. 4 : stage'[v] = "off" <=> v = w \/ stage[v] = "off"
    BY <1>1, <1>2, <2>4
  <2> QED
    BY <1>1, <1>2, <1>4, <2>1, <2>4, <2>5 DEF Staged
<1> QED
  BY <1>6, <1>7, <1>8, <1>9, <1>10, <1>11, <1>12 DEF Worker

LEMMA SignalMoves ==
  ASSUME pc \in [Threads -> PCs], SignalWakeup \/ UNCHANGED pc, NEW w \in Threads
  PROVE  pc'[w] = pc[w] \/ (pc[w] = "asleep" /\ pc'[w] = "take")
BY DEF SignalWakeup, Asleep

LEMMA MainStaged == ASSUME IInv, Main PROVE Staged'
<1>1. Typed /\ Staged
  BY DEF IInv
<1>2. pc \in [Threads -> PCs] /\ stage \in [1 .. 4 -> Budget!Stages]
  BY <1>1 DEF Typed, Staged
<1>3. UNCHANGED cur
  BY DEF Main, Submit, SubmitPreview, CancelPreview, PrioritizeThumbs, DrainRead, DrainDetach,
         DrainDeliver, RequestStop, PoolStop, RaiseStopping, FreePool
<1>4. stage' = stage \/ stage' = WakeForCancel \/ stage' = Budget!Broadcast(stage)
  BY DEF Main, Submit, SubmitPreview, CancelPreview, PrioritizeThumbs, DrainRead, DrainDetach,
         DrainDeliver, RequestStop, PoolStop, RaiseStopping, FreePool, budget
<1>5. /\ stage' \in [1 .. 4 -> Budget!Stages]
      /\ \A w \in 1 .. 4 : stage'[w] = "off" <=> stage[w] = "off"
  BY <1>2, <1>4, CancelWakes, BroadcastFacts
<1>6. ASSUME NEW w \in Threads
      PROVE  pc'[w] = pc[w] \/ (pc[w] = "asleep" /\ pc'[w] = "take")
  <2>1. CASE Submit \/ SubmitPreview \/ CancelPreview \/ PrioritizeThumbs
    BY <1>2, <2>1, SignalMoves DEF Submit, SubmitPreview, CancelPreview, PrioritizeThumbs
  <2>2. CASE DrainRead \/ DrainDetach \/ DrainDeliver \/ FreePool
    BY <2>2 DEF DrainRead, DrainDetach, DrainDeliver, FreePool
  <2>3. CASE RequestStop \/ PoolStop
    BY <2>3 DEF RequestStop, PoolStop, RaiseStopping
  <2> QED
    BY <2>1, <2>2, <2>3 DEF Main
<1>7. main' # "deliver" => draining' = <<>>
  <2>1. main # "deliver" => draining = <<>>
    BY <1>1 DEF Staged
  <2> QED
    BY <2>1 DEF Main, Submit, SubmitPreview, CancelPreview, PrioritizeThumbs, DrainRead, DrainDetach,
                DrainDeliver, RequestStop, PoolStop, RaiseStopping, FreePool
<1> QED
  BY <1>1, <1>3, <1>5, <1>6, <1>7, StagedKept

LEMMA WorkerHeap ==
  ASSUME IInv, NEW w \in Threads, Worker(w) \/ SpuriousWake(w) \/ SpuriousBudgetWake(w)
  PROVE  Heap'
<1>1. Heap /\ pc \in [Threads -> PCs] /\ stopping \in BOOLEAN
  BY DEF IInv, Heap, Typed
<1>2. CASE Take(w) \/ Publish(w)
  BY <1>2, TakeHeap, PublishHeap
<1>3. CASE ~(Take(w) \/ Publish(w))
  <2>1. UNCHANGED <<job, jobs, results, draining, running_preview, cur, stopping>>
    BY <1>3 DEF Worker, SpuriousWake, SpuriousBudgetWake, Sleep, Exit, GiveUp, CacheHit,
                StartDecode, ReserveDecode, FinishDecode, Notify, Local
  <2>2. pc' \in [Threads -> PCs]
    BY <1>1, <1>3 DEF Worker, SpuriousWake, SpuriousBudgetWake, Sleep, Exit, GiveUp, CacheHit,
                      StartDecode, ReserveDecode, FinishDecode, Notify, PCs
  <2> QED
    BY <1>1, <2>1, <2>2, HeapUntouched
<1> QED
  BY <1>2, <1>3

LEMMA MainHeap == ASSUME IInv, Main PROVE Heap'
<1>1. CASE Submit \/ SubmitPreview \/ CancelPreview \/ PrioritizeThumbs
  BY <1>1, SubmitHeap, SubmitPreviewHeap, CancelHeap, PrioritizeHeap
<1>2. CASE DrainRead
  <2>1. UNCHANGED <<job, jobs, results, draining, running_preview, cur, pc, stopping>>
    BY <1>2 DEF DrainRead
  <2>2. Heap /\ pc' \in [Threads -> PCs] /\ stopping' \in BOOLEAN
    BY <2>1 DEF IInv, Heap, Typed
  <2> QED
    BY <2>1, <2>2, HeapUntouched
<1>3. CASE DrainDetach \/ DrainDeliver \/ FreePool
  BY <1>3, DetachHeap, DeliverHeap, FreePoolHeap
<1>4. CASE RequestStop \/ PoolStop
  BY <1>4, RaiseHeap DEF RequestStop, PoolStop
<1> QED
  BY <1>1, <1>2, <1>3, <1>4 DEF Main

LEMMA InvInductive ==
  /\ Init => IInv
  /\ IInv /\ [Next]_vars => IInv'
<1>1. ASSUME Init PROVE IInv
  <2>1. <<>> \in Seq(Cells) /\ ToSet(<<>>) = {} /\ IsInjective(<<>>)
    BY DEF ToSet, IsInjective
  <2>2. \A w \in Threads : cur[w] = NoCell /\ pc[w] = "take"
    BY <1>1 DEF Init
  <2>3. InHand = {} /\ Linked = {}
    BY <1>1, <2>1, <2>2 DEF Init, InHand, Linked
  <2>4. Free \in JobRecords
    BY DEF Free, JobRecords
  <2>5. Typed
    BY <1>1, <2>1, <2>4 DEF Init, Typed, PCs
  <2>6. Apart
    BY <1>1, <2>1, <2>2, <2>3 DEF Init, Apart
  <2>7. Accounted
    BY <1>1, <2>3 DEF Init, Accounted
  <2>8. Newest
    BY <1>1, <2>1, <2>3 DEF Init, Newest, QueuedPreviews
  <2>9. Staged
    BY <1>1, <2>2 DEF Init, Staged, Budget!Stages
  <2> QED
    BY <2>5, <2>6, <2>7, <2>8, <2>9 DEF IInv
<1>2. ASSUME IInv, [Next]_vars PROVE IInv'
  <2>1. CASE UNCHANGED vars
    <3>1. UNCHANGED <<job, jobs, results, draining, running_preview, cur, pc, stopping, stage, main>>
      BY <2>1 DEF vars, budget
    <3> QED
      BY <1>2, <3>1 DEF IInv, Typed, Apart, Accounted, Newest, Staged, InHand, Linked,
                        IsPreview, QueuedPreviews
  <2>2. CASE Main
    BY <1>2, <2>2, MainHeap, MainStaged DEF IInv, Heap
  <2>3. ASSUME NEW w \in Threads, Worker(w) \/ SpuriousWake(w) \/ SpuriousBudgetWake(w)
        PROVE  IInv'
    BY <1>2, <2>3, WorkerHeap, WorkerStaged DEF IInv, Heap
  <2> QED
    BY <1>2, <2>1, <2>2, <2>3 DEF Next, Finished
<1> QED
  BY <1>1, <1>2

-----------------------------------------------------------------------------
(* What the invariant gives.                                               *)

LEMMA InvHolds == Spec => []IInv
BY InvInductive, PTL DEF Spec

(* With any number of workers and of jobs under way, a job is reached from *)
(* one place, a freed cell from none, and running_preview only points at a *)
(* job a worker still has: what is withdrawn, drained or freed with the    *)
(* pool is freed once (drop_queued_previews, prioritize_thumbs, drain and  *)
(* pool_stop in worker.c).                                                 *)
THEOREM EveryJobOwnedOnce == Spec => []OneOwner
<1>1. ASSUME IInv PROVE OneOwner
  <2> DEFINE hands == Only(cur, Cells)
             jr == jobs \o results
             jrd == jr \o draining
  <2>1. Typed /\ Apart /\ Accounted /\ Newest
    BY <1>1 DEF IInv
  <2>2. cur \in Seq(Cells \cup {NoCell}) /\ DOMAIN cur = Threads
    BY <2>1, ThreadAssumption DEF Typed, Threads
  <2>3. hands \in Seq(Cells \cup {NoCell}) /\ ToSet(hands) = InHand /\ IsInjective(hands)
    <3>1. ToSet(cur) \cap Cells = InHand
      BY <2>1, <2>2, Basics DEF ToSet, InHand, Typed
    <3>2. \A v, w \in DOMAIN cur : cur[v] = cur[w] /\ cur[v] \in Cells => v = w
      BY <2>1, <2>2, Basics DEF Apart
    <3> QED
      BY <2>2, <3>1, <3>2, OnlyFacts
  <2>4. /\ jobs \in Seq(Cells \cup {NoCell}) /\ results \in Seq(Cells \cup {NoCell})
        /\ draining \in Seq(Cells \cup {NoCell})
    BY <2>1 DEF Typed
  <2> HIDE DEF hands
  <2>5. jr \in Seq(Cells \cup {NoCell}) /\ IsInjective(jr) /\ ToSet(jr) = ToSet(jobs) \cup ToSet(results)
    BY <2>1, <2>4, ConcatFacts DEF Apart
  <2> HIDE DEF jr
  <2>6. jrd \in Seq(Cells \cup {NoCell}) /\ IsInjective(jrd) /\ ToSet(jrd) = Linked
    <3>1. ToSet(jr) \cap ToSet(draining) = {}
      BY <2>1, <2>5 DEF Apart
    <3>2. jrd \in Seq(Cells \cup {NoCell}) /\ IsInjective(jrd) /\ ToSet(jrd) = ToSet(jr) \cup ToSet(draining)
      BY <2>1, <2>4, <2>5, <3>1, ConcatFacts DEF Apart
    <3> HIDE DEF jrd
    <3> QED
      BY <2>5, <3>2 DEF Linked
  <2> HIDE DEF jrd
  <2>7. IsInjective(jrd \o hands) /\ ToSet(jrd \o hands) = Linked \cup InHand
    <3>1. ToSet(jrd) \cap ToSet(hands) = {}
      BY <2>1, <2>3, <2>6 DEF Apart
    <3> QED
      BY <2>3, <2>6, <3>1, ConcatFacts
  <2>8. Places = jrd \o hands
    BY DEF Places, jr, jrd, hands
  <2>9. \A c \in Cells : job[c] = Free <=> c \notin ToSet(Places)
    BY <2>1, <2>7, <2>8 DEF Accounted
  <2>10. running_preview # NoCell => running_preview \in {cur[w] : w \in Threads}
    BY <2>1 DEF Newest, InHand
  <2> QED
    BY <2>7, <2>8, <2>9, <2>10 DEF OneOwner
<1> QED
  BY <1>1, InvHolds, PTL

(* cancel_running_preview keeps one pointer and never misses a preview: at *)
(* most one preview that nobody cancelled exists, in the queue or in the   *)
(* hands of a worker, and a worker's is the one running_preview points at. *)
THEOREM CancelNeverMisses == Spec => []CancelReachesPreview
<1>1. ASSUME IInv PROVE CancelReachesPreview
  <2> DEFINE busy == {w \in Threads : cur[w] # NoCell /\ IsPreview(cur[w]) /\ ~job[cur[w]].cancelled}
             Q == QueuedPreviews
  <2>1. Typed /\ Apart /\ Newest
    BY <1>1 DEF IInv
  <2>2. \A w \in busy : cur[w] = running_preview /\ Q = {}
    BY <2>1 DEF Newest, InHand
  <2>3. ASSUME NEW S, \A a, b \in S : a = b
        PROVE  Cardinality(S) \in {0, 1} /\ (S = {} => Cardinality(S) = 0)
    <3>1. S = {} \/ \E x : S = {x}
      BY <2>3
    <3> QED
      BY <3>1, FS_EmptySet, FS_Singleton
  <2>4. \A v, w \in busy : v = w
    BY <2>1, <2>2 DEF Apart
  <2>5. \A a, b \in Q : a = b
    BY <2>1 DEF Newest
  <2>6. busy = {} \/ Q = {}
    BY <2>2
  <2> HIDE DEF busy, Q
  <2>7. /\ Cardinality(busy) \in {0, 1} /\ (busy = {} => Cardinality(busy) = 0)
        /\ Cardinality(Q) \in {0, 1} /\ (Q = {} => Cardinality(Q) = 0)
    BY <2>3, <2>4, <2>5
  <2>8. Cardinality(busy) + Cardinality(Q) <= 1
    BY <2>6, <2>7
  <2> QED
    BY <2>2, <2>8 DEF CancelReachesPreview, busy, Q
<1> QED
  BY <1>1, InvHolds, PTL

-----------------------------------------------------------------------------
(* Results and the eventfd.                                                *)

\* NoLostResult is inductive once pc is typed.
Noticed == pc \in [Threads -> PCs] /\ NoLostResult

(* A step that publishes nothing and takes nobody from the eventfd.        *)
LEMMA Undisturbed ==
  ASSUME Noticed, results' = results, stopping' = stopping, event' = event,
         main = "detach" => main' = "detach",
         pc' \in [Threads -> PCs],
         \A w \in Threads : pc[w] = "notify" => pc'[w] = "notify"
  PROVE  Noticed'
BY DEF Noticed, NoLostResult

(* One worker moves, from a place where it is not about to write.          *)
LEMMA OneMoves ==
  ASSUME pc \in [Threads -> PCs], NEW w \in Threads, NEW to \in PCs, pc[w] # "notify",
         pc' = [pc EXCEPT ![w] = to]
  PROVE  pc' \in [Threads -> PCs] /\ \A v \in Threads : pc[v] = "notify" => pc'[v] = "notify"
OBVIOUS

LEMMA WorkerKeeps ==
  ASSUME Noticed, NEW w \in Threads, Worker(w) \/ SpuriousWake(w) \/ SpuriousBudgetWake(w)
  PROVE  Noticed'
<1>1. pc \in [Threads -> PCs]
  BY DEF Noticed
<1>2. ASSUME NEW to \in PCs, pc[w] # "notify", pc' = [pc EXCEPT ![w] = to],
             UNCHANGED <<results, stopping, event, main>>
      PROVE  Noticed'
  BY <1>1, <1>2, OneMoves, Undisturbed
<1>3. ASSUME UNCHANGED <<pc, results, stopping, event, main>>
      PROVE  Noticed'
  BY <1>1, <1>3, Undisturbed
<1>4. {"take", "asleep", "produce", "decode", "publish", "notify", "exited"} = PCs
  BY DEF PCs
<1>5. CASE Sleep(w) \/ SpuriousWake(w) \/ Exit(w) \/ Take(w)
  BY <1>2, <1>4, <1>5 DEF Sleep, SpuriousWake, Exit, Take
<1>6. CASE GiveUp(w) \/ CacheHit(w) \/ StartDecode(w) \/ FinishDecode(w)
  BY <1>2, <1>4, <1>6 DEF GiveUp, CacheHit, StartDecode, FinishDecode, Local
<1>7. CASE ReserveDecode(w) \/ SpuriousBudgetWake(w)
  BY <1>3, <1>7 DEF ReserveDecode, SpuriousBudgetWake, Local
<1>8. CASE Publish(w)
  <2>1. pc' \in [Threads -> PCs] /\ pc'[w] = "notify"
    BY <1>1, <1>4, <1>8 DEF Publish
  <2> QED
    BY <2>1 DEF Noticed, NoLostResult
<1>9. CASE Notify(w)
  <2>1. pc' \in [Threads -> PCs] /\ event'
    BY <1>1, <1>4, <1>9 DEF Notify
  <2> QED
    BY <2>1 DEF Noticed, NoLostResult
<1> QED
  BY <1>5, <1>6, <1>7, <1>8, <1>9 DEF Worker

LEMMA MainKeeps == ASSUME Noticed, Main PROVE Noticed'
<1>1. pc \in [Threads -> PCs]
  BY DEF Noticed
<1>2. ASSUME SignalWakeup \/ UNCHANGED pc
      PROVE  pc' \in [Threads -> PCs] /\ \A w \in Threads : pc[w] = "notify" => pc'[w] = "notify"
  <2>1. CASE UNCHANGED pc
    BY <1>1, <2>1
  <2>2. ASSUME NEW w \in Asleep, pc' = [pc EXCEPT ![w] = "take"]
        PROVE  pc' \in [Threads -> PCs] /\ \A v \in Threads : pc[v] = "notify" => pc'[v] = "notify"
    BY <1>1, <2>2, OneMoves DEF Asleep, PCs
  <2> QED
    BY <1>2, <2>1, <2>2 DEF SignalWakeup
<1>3. CASE Submit \/ SubmitPreview \/ CancelPreview \/ PrioritizeThumbs
  <2>1. (SignalWakeup \/ UNCHANGED pc) /\ UNCHANGED <<results, stopping, event, main>>
    BY <1>3 DEF Submit, SubmitPreview, CancelPreview, PrioritizeThumbs
  <2> QED
    BY <1>2, <2>1, Undisturbed
<1>4. CASE DrainRead
  <2>1. pc' \in [Threads -> PCs] /\ main' = "detach"
    BY <1>1, <1>4 DEF DrainRead
  <2> QED
    BY <2>1 DEF Noticed, NoLostResult
<1>5. CASE DrainDetach \/ FreePool
  <2>1. pc' \in [Threads -> PCs] /\ results' = <<>>
    BY <1>1, <1>5 DEF DrainDetach, FreePool
  <2> QED
    BY <2>1 DEF Noticed, NoLostResult
<1>6. CASE DrainDeliver
  <2>1. UNCHANGED <<pc, results, stopping, event>> /\ main # "detach"
    BY <1>6 DEF DrainDeliver
  <2> QED
    BY <1>1, <2>1, Undisturbed
<1>7. CASE RequestStop \/ PoolStop
  <2>1. pc' = [w \in Threads |-> IF pc[w] = "asleep" THEN "take" ELSE pc[w]] /\ stopping'
    BY <1>7 DEF RequestStop, PoolStop, RaiseStopping
  <2>2. pc' \in [Threads -> PCs]
    BY <1>1, <2>1 DEF PCs
  <2> QED
    BY <2>1, <2>2 DEF Noticed, NoLostResult
<1> QED
  BY <1>3, <1>4, <1>5, <1>6, <1>7 DEF Main

(* A result that a worker publishes while the main thread drains is not    *)
(* lost, with any number of workers: the main thread clears the counter    *)
(* before it detaches the list and a worker writes it after it has linked  *)
(* its result, in steps of their own that the mutex does not join.         *)
THEOREM ResultsReachMain == Spec => []NoLostResult
<1>1. Init => Noticed
  <2> SUFFICES ASSUME Init PROVE Noticed
    OBVIOUS
  <2>1. pc \in [Threads -> PCs] /\ results = <<>>
    BY DEF Init, PCs
  <2> QED
    BY <2>1 DEF Noticed, NoLostResult
<1>2. Noticed /\ [Next]_vars => Noticed'
  <2> SUFFICES ASSUME Noticed, [Next]_vars PROVE Noticed'
    OBVIOUS
  <2>1. CASE UNCHANGED vars
    BY <2>1 DEF vars, Noticed, NoLostResult
  <2>2. CASE Main
    BY <2>2, MainKeeps
  <2>3. ASSUME NEW w \in Threads, Worker(w) \/ SpuriousWake(w) \/ SpuriousBudgetWake(w)
        PROVE  Noticed'
    BY <2>3, WorkerKeeps
  <2> QED
    BY <2>1, <2>2, <2>3 DEF Next, Finished
<1>3. Noticed => NoLostResult
  BY DEF Noticed
<1> QED
  BY <1>1, <1>2, <1>3, PTL DEF Spec

-----------------------------------------------------------------------------
(* Queued jobs and the workers on their way to them.                       *)

Takers == {w \in Threads : pc[w] = "take"}

LEMMA TakersFacts ==
  ASSUME NEW P
  PROVE  /\ IsFiniteSet({w \in Threads : P[w] = "take"})
         /\ Cardinality({w \in Threads : P[w] = "take"}) \in Nat
<1>1. IsFiniteSet(Threads)
  BY ThreadAssumption, FS_Interval DEF Threads
<1> QED
  BY <1>1, FS_Subset, FS_CardinalityType

(* No more jobs, no fewer takers, nobody new asleep.                       *)
LEMMA StillConserving ==
  ASSUME WorkConserving, Len(jobs) \in Nat, Len(jobs') \in Nat, stopping' = stopping,
         Len(jobs') <= Len(jobs), Takers \in SUBSET Takers', Asleep' \in SUBSET Asleep
  PROVE  WorkConserving'
<1>1. SUFFICES ASSUME Asleep' # {}, ~stopping'
               PROVE  Len(jobs') <= Cardinality(Takers')
  BY DEF WorkConserving, Takers
<1>2. Len(jobs) <= Cardinality(Takers)
  BY <1>1 DEF WorkConserving, Takers
<1>3. IsFiniteSet(Takers) /\ Cardinality(Takers) \in Nat /\ IsFiniteSet(Takers') /\ Cardinality(Takers') \in Nat
  BY TakersFacts DEF Takers
<1>4. Cardinality(Takers) <= Cardinality(Takers')
  BY <1>3, FS_Subset
<1> QED
  BY <1>2, <1>3, <1>4

LEMMA WorkerConserving ==
  ASSUME IInv, WorkConserving, NEW w \in Threads,
         Worker(w) \/ SpuriousWake(w) \/ SpuriousBudgetWake(w)
  PROVE  WorkConserving'
<1>1. /\ pc \in [Threads -> PCs] /\ jobs \in Seq(Cells) /\ Len(jobs) \in Nat
      /\ IsFiniteSet(Takers) /\ Cardinality(Takers) \in Nat
  BY TakersFacts, LenProperties DEF IInv, Typed, Takers
<1>2. CASE Sleep(w)
  <2>1. jobs' = <<>>
    BY <1>2 DEF Sleep
  <2>2. Cardinality(Takers') \in Nat
    BY TakersFacts DEF Takers
  <2> QED
    BY <2>1, <2>2 DEF WorkConserving, Takers
<1>3. CASE Exit(w)
  BY <1>3 DEF Exit, WorkConserving
<1>4. CASE Take(w)
  <2>1. SUFFICES ASSUME Asleep' # {}, ~stopping'
                 PROVE  Len(jobs') <= Cardinality(Takers')
    BY DEF WorkConserving, Takers
  <2>2. Asleep' = Asleep /\ Takers' = Takers \ {w} /\ w \in Takers
    BY <1>1, <1>4 DEF Take, Asleep, Takers, PCs
  <2>3. Len(jobs) <= Cardinality(Takers)
    BY <1>4, <2>1, <2>2 DEF Take, WorkConserving, Takers
  <2>4. Len(jobs') = Len(jobs) - 1
    BY <1>1, <1>4, HeadFacts DEF Take
  <2>5. Cardinality(Takers') = Cardinality(Takers) - 1
    BY <1>1, <2>2, FS_RemoveElement
  <2> QED
    BY <1>1, <2>3, <2>4, <2>5
<1>5. CASE ~(Sleep(w) \/ Exit(w) \/ Take(w))
  <2>1. UNCHANGED <<jobs, stopping>>
    BY <1>5 DEF Worker, SpuriousWake, SpuriousBudgetWake, GiveUp, CacheHit, StartDecode,
                ReserveDecode, FinishDecode, Publish, Notify, Local
  <2>2. \/ UNCHANGED pc
        \/ \E to \in PCs \ {"asleep"} : pc[w] # "take" /\ pc' = [pc EXCEPT ![w] = to]
    BY <1>5 DEF Worker, SpuriousWake, SpuriousBudgetWake, GiveUp, CacheHit, StartDecode,
                ReserveDecode, FinishDecode, Publish, Notify, Local, PCs
  <2>3. Takers \in SUBSET Takers' /\ Asleep' \in SUBSET Asleep
    BY <1>1, <2>2 DEF Takers, Asleep
  <2> QED
    BY <1>1, <2>1, <2>3, StillConserving
<1> QED
  BY <1>2, <1>3, <1>4, <1>5 DEF Worker

(* One more job, and a sleeper is signalled if there is one.               *)
LEMMA SignalledConserving ==
  ASSUME WorkConserving, pc \in [Threads -> PCs], SignalWakeup, stopping' = stopping,
         Len(jobs) \in Nat, Len(jobs') \in Nat, Len(jobs') <= Len(jobs) + 1
  PROVE  WorkConserving'
<1>1. SUFFICES ASSUME Asleep' # {}, ~stopping'
               PROVE  Len(jobs') <= Cardinality(Takers')
  BY DEF WorkConserving, Takers
<1>2. PICK w \in Asleep : pc' = [pc EXCEPT ![w] = "take"]
  BY <1>1 DEF SignalWakeup, Asleep
<1>3. Takers' = Takers \cup {w} /\ w \notin Takers
  BY <1>2 DEF Takers, Asleep
<1>4. Len(jobs) <= Cardinality(Takers)
  BY <1>1, <1>2 DEF WorkConserving, Takers
<1>5. IsFiniteSet(Takers) /\ Cardinality(Takers) \in Nat
  BY TakersFacts DEF Takers
<1>6. Cardinality(Takers') = Cardinality(Takers) + 1
  BY <1>3, <1>5, FS_AddElement
<1> QED
  BY <1>4, <1>5, <1>6

LEMMA MainConserving == ASSUME IInv, WorkConserving, Main PROVE WorkConserving'
<1>1. pc \in [Threads -> PCs] /\ jobs \in Seq(Cells) /\ Len(jobs) \in Nat
  BY LenProperties DEF IInv, Typed
<1>2. jobs' \in Seq(Cells) /\ Len(jobs') \in Nat
  BY MainHeap, LenProperties DEF Heap, Typed
<1>3. ASSUME UNCHANGED <<pc, stopping>>, Len(jobs') <= Len(jobs)
      PROVE  WorkConserving'
  <2>1. Takers' = Takers /\ Asleep' = Asleep
    BY <1>3 DEF Takers, Asleep
  <2> QED
    BY <1>1, <1>2, <1>3, <2>1, StillConserving
<1>4. CASE Submit
  <2>1. Malloc \in Cells
    BY <1>4, MallocIsFree DEF Submit, FreeCells
  <2>2. Len(jobs') = Len(jobs) + 1
    BY <1>1, <1>4, <2>1, AppendFacts DEF Submit
  <2> QED
    BY <1>1, <1>2, <1>4, <2>2, SignalledConserving DEF Submit
<1>5. CASE SubmitPreview
  <2> DEFINE t == Only(jobs, QueuedThumbs)
             one == <<Malloc>>
  <2>1. Malloc \in Cells
    BY <1>5, MallocIsFree DEF SubmitPreview, FreeCells
  <2>2. t \in Seq(Cells) /\ Len(t) <= Len(jobs) /\ Len(t) \in Nat
    BY ThumbsOnly, LenProperties
  <2>3. one \in Seq(Cells) /\ Len(one) = 1
    BY <2>1, SingleFacts
  <2>4. jobs' = one \o t
    BY <1>5 DEF SubmitPreview
  <2> HIDE DEF t, one
  <2>5. Len(jobs') <= Len(jobs) + 1
    <3>1. Len(one \o t) = Len(one) + Len(t)
      BY <2>2, <2>3, ConcatFacts
    <3> QED
      BY <1>1, <2>2, <2>3, <2>4, <3>1
  <2> QED
    BY <1>1, <1>2, <1>5, <2>5, SignalledConserving DEF SubmitPreview
<1>6. CASE CancelPreview
  <2>1. Len(jobs') <= Len(jobs) /\ UNCHANGED <<pc, stopping>>
    BY <1>6, ThumbsOnly DEF CancelPreview
  <2> QED
    BY <1>3, <2>1
<1>7. CASE PrioritizeThumbs
  <2>1. ToSet(jobs') \in SUBSET ToSet(jobs) /\ IsInjective(jobs) /\ IsInjective(jobs')
    BY <1>7, PrioritizeHeap DEF IInv, Heap, Apart
  <2> DEFINE J == ToSet(jobs)
             K == ToSet(jobs')
  <2>2. IsFiniteSet(J) /\ Cardinality(J) = Len(jobs) /\ Cardinality(K) = Len(jobs')
    BY <1>1, <1>2, <2>1, LenIsSize
  <2>3. K \in SUBSET J
    BY <2>1
  <2> HIDE DEF J, K
  <2>4. Len(jobs') <= Len(jobs)
    BY <2>2, <2>3, FS_Subset
  <2>5. UNCHANGED <<pc, stopping>>
    BY <1>7 DEF PrioritizeThumbs
  <2> QED
    BY <1>3, <2>4, <2>5
<1>8. CASE DrainRead \/ DrainDetach \/ DrainDeliver
  <2>1. UNCHANGED <<pc, stopping, jobs>>
    BY <1>8 DEF DrainRead, DrainDetach, DrainDeliver
  <2> QED
    BY <1>1, <1>3, <2>1
<1>9. CASE RequestStop \/ PoolStop
  BY <1>9 DEF RequestStop, PoolStop, RaiseStopping, WorkConserving
<1>10. CASE FreePool
  <2>1. jobs' = <<>> /\ UNCHANGED <<pc, stopping>>
    BY <1>10 DEF FreePool
  <2> QED
    BY <1>1, <1>3, <2>1
<1> QED
  BY <1>4, <1>5, <1>6, <1>7, <1>8, <1>9, <1>10 DEF Main

(* No wake-up on the condition variable wakeup is lost, with any number of *)
(* workers: while one sleeps, every queued job has a worker on its way to  *)
(* it, although submit signals one sleeper only.                           *)
THEOREM NoWakeupIsLost == Spec => []WorkConserving
<1>1. Init => WorkConserving
  <2> SUFFICES ASSUME Init PROVE WorkConserving
    OBVIOUS
  <2>1. Asleep = {}
    BY DEF Init, Asleep
  <2> QED
    BY <2>1 DEF WorkConserving
<1>2. IInv /\ WorkConserving /\ [Next]_vars => WorkConserving'
  <2> SUFFICES ASSUME IInv, WorkConserving, [Next]_vars PROVE WorkConserving'
    OBVIOUS
  <2>1. CASE UNCHANGED vars
    BY <2>1 DEF vars, WorkConserving, Asleep
  <2>2. CASE Main
    BY <2>2, MainConserving
  <2>3. ASSUME NEW w \in Threads, Worker(w) \/ SpuriousWake(w) \/ SpuriousBudgetWake(w)
        PROVE  WorkConserving'
    BY <2>3, WorkerConserving
  <2> QED
    BY <2>1, <2>2, <2>3 DEF Next, Finished
<1> QED
  BY <1>1, <1>2, InvHolds, PTL DEF Spec

-----------------------------------------------------------------------------
(* The decode budget as the pool drives it.                                *)

\* The flags DecodeBudget sees.
Flags == [w \in 1 .. 4 |-> stage[w] # "off" /\ StopFlag(cur[w])]

BudgetVars == <<decode_bytes, held, want, stage, Flags>>

LEMMA BudgetDefs ==
  /\ Budget!vars = BudgetVars
  /\ Budget!Workers = 1 .. 4
BY DEF Budget!vars, BudgetVars, Flags, Budget!Workers, Budget!MAX_WORKERS

(* The flag of a ticket is that of the job its worker has in hand.         *)
LEMMA TicketHasJob ==
  ASSUME IInv, NEW w \in 1 .. 4, stage[w] # "off"
  PROVE  w \in Threads /\ pc[w] = "decode" /\ cur[w] \in InHand /\ cur[w] \in Cells
<1>1. Typed /\ w \in Threads /\ pc[w] = "decode"
  BY DEF IInv, Staged
<1>2. cur[w] # NoCell
  BY <1>1 DEF IInv, Staged
<1> QED
  BY <1>1, <1>2, Basics

(* A step that touches neither the tickets nor what their flags are read   *)
(* from.                                                                   *)
LEMMA NoBudgetStep ==
  ASSUME IInv, UNCHANGED <<decode_bytes, held, want, stage, stopping>>,
         \A w \in Threads : pc[w] = "decode" => cur'[w] = cur[w],
         \A c \in InHand : job'[c] = job[c]
  PROVE  UNCHANGED BudgetVars
<1>1. ASSUME NEW w \in 1 .. 4
      PROVE  (stage[w] # "off" /\ StopFlag(cur[w]))' <=> (stage[w] # "off" /\ StopFlag(cur[w]))
  <2>1. CASE stage[w] = "off"
    BY <2>1
  <2>2. CASE stage[w] # "off"
    <3>1. cur'[w] = cur[w] /\ job'[cur[w]] = job[cur[w]]
      BY <2>2, TicketHasJob
    <3> QED
      BY <3>1 DEF StopFlag
  <2> QED
    BY <2>1, <2>2
<1>2. Flags' = Flags
  BY <1>1, ZenonT(30) DEF Flags
<1> QED
  BY <1>2 DEF BudgetVars

(* A flag goes up and the sleepers on the budget are woken.                *)
LEMMA RaiseIsRaise ==
  ASSUME IInv, UNCHANGED <<decode_bytes, held, want, cur>>, stage' = Budget!Broadcast(stage),
         \A w \in 1 .. 4 : Flags[w] => Flags'[w]
  PROVE  Budget!Next
<1>0. PICK S \in SUBSET (1 .. 4) : \A w \in 1 .. 4 : w \in S <=> Flags'[w] /\ ~Flags[w]
  <2> DEFINE up == {w \in 1 .. 4 : Flags'[w] /\ ~Flags[w]}
  <2>1. up \in SUBSET (1 .. 4) /\ \A w \in 1 .. 4 : w \in up <=> Flags'[w] /\ ~Flags[w]
    OBVIOUS
  <2> QED
    BY <2>1
<1>1. stage \in [1 .. 4 -> Budget!Stages]
  BY DEF IInv, Staged
<1>2. \A w \in 1 .. 4 : stage'[w] = "off" <=> stage[w] = "off"
  BY <1>1, BroadcastFacts
<1>3. \A w \in S : stage[w] # "off" /\ ~Flags[w]
  BY <1>0, <1>2 DEF Flags
<1>4. Flags' = [w \in 1 .. 4 |-> w \in S \/ Flags[w]]
  <2>1. \A w \in 1 .. 4 : Flags'[w] <=> (w \in S \/ Flags[w])
    BY <1>0
  <2>2. \A w \in 1 .. 4 : Flags'[w] \in BOOLEAN
    BY DEF Flags
  <2> QED
    BY <2>1, <2>2 DEF Flags
<1>5. Budget!RaiseStop(S)
  BY <1>3, <1>4, BudgetDefs DEF Budget!RaiseStop, Flags
<1>6. S \in SUBSET Budget!Workers
  BY <1>0, BudgetDefs
<1> QED
  BY <1>5, <1>6 DEF Budget!Next

LEMMA WorkerRefines ==
  ASSUME IInv, NEW w \in Threads, Worker(w) \/ SpuriousWake(w) \/ SpuriousBudgetWake(w)
  PROVE  Budget!Next \/ UNCHANGED BudgetVars
<1>1. w \in 1 .. 4 /\ Typed /\ stage \in [1 .. 4 -> Budget!Stages]
  BY Basics DEF IInv, Staged
<1>2. w \in Budget!Workers
  BY <1>1, BudgetDefs
<1>3. CASE \/ Sleep(w) \/ SpuriousWake(w) \/ Exit(w) \/ Take(w) \/ GiveUp(w) \/ CacheHit(w)
           \/ Publish(w) \/ Notify(w)
  <2>1. UNCHANGED <<decode_bytes, held, want, stage, stopping, job>>
    BY <1>3 DEF Sleep, SpuriousWake, Exit, Take, GiveUp, CacheHit, Publish, Notify, Local, budget
  <2>2. \A v \in Threads : pc[v] = "decode" => cur'[v] = cur[v]
    BY <1>1, <1>3 DEF Sleep, SpuriousWake, Exit, Take, GiveUp, CacheHit, Publish, Notify, Local, Typed
  <2> QED
    BY <2>1, <2>2, NoBudgetStep
<1>4. ASSUME Local, NEW v \in 1 .. 4, stage'[v] # "off" <=> stage[v] # "off"
      PROVE  Flags'[v] = Flags[v]
  <2>1. (stage[v] # "off" /\ StopFlag(cur[v]))' <=> (stage[v] # "off" /\ StopFlag(cur[v]))
    BY <1>4 DEF Local, StopFlag
  <2> QED
    BY <2>1, ZenonT(30) DEF Flags
<1>5. CASE StartDecode(w)
  <2>1. Local /\ Budget!OpenStep(w) /\ ~StopFlag(cur[w])
    BY <1>5 DEF StartDecode
  <2>2. stage' = [stage EXCEPT ![w] = "open"]
    BY <2>1 DEF Budget!OpenStep
  <2>3. Flags'[w] = FALSE
    <3>1. ~StopFlag(cur[w])'
      BY <2>1 DEF Local, StopFlag
    <3> QED
      BY <1>1, <3>1 DEF Flags
  <2>4. \A v \in 1 .. 4 : v # w => Flags'[v] = Flags[v]
    BY <1>1, <1>4, <2>1, <2>2
  <2>5. Flags' = [Flags EXCEPT ![w] = FALSE]
    BY <2>3, <2>4 DEF Flags
  <2>6. Budget!Open(w)
    BY <2>1, <2>5 DEF Budget!Open, Flags
  <2> QED
    BY <1>2, <2>6 DEF Budget!Next
<1>6. CASE ReserveDecode(w) \/ SpuriousBudgetWake(w)
  <2>1. Local
    BY <1>6 DEF ReserveDecode, SpuriousBudgetWake
  <2>2. \E to \in Budget!Stages \ {"off"} : stage' = [stage EXCEPT ![w] = to]
    BY <1>6 DEF ReserveDecode, SpuriousBudgetWake, Budget!ReserveStep, Budget!RefuseOversize,
                Budget!Sleep, Budget!Grant, Budget!Refuse, Budget!SpuriousStep, Budget!Stages
  <2>3. stage[w] # "off"
    BY <1>1, <1>6 DEF ReserveDecode, SpuriousBudgetWake, IInv, Staged
  <2>4. \A v \in 1 .. 4 : Flags'[v] = Flags[v]
    BY <1>1, <1>4, <2>1, <2>2, <2>3
  <2>5. Flags' = Flags
    BY <2>4 DEF Flags
  <2>6. Budget!Reserve(w) \/ Budget!SpuriousWake(w)
    BY <1>6, <2>5 DEF ReserveDecode, SpuriousBudgetWake, Budget!Reserve, Budget!SpuriousWake, Flags
  <2> QED
    BY <1>2, <2>6 DEF Budget!Next
<1>7. CASE FinishDecode(w)
  <2>1. Local /\ Budget!ReleaseStep(w)
    BY <1>7 DEF FinishDecode
  <2> DEFINE closed == [stage EXCEPT ![w] = "off"]
  <2>2. closed \in [1 .. 4 -> Budget!Stages]
    BY <1>1 DEF Budget!Stages
  <2>3. stage' = closed \/ stage' = Budget!Broadcast(closed)
    BY <2>1 DEF Budget!ReleaseStep
  <2>4. \A v \in 1 .. 4 : stage'[v] = "off" <=> closed[v] = "off"
    <3> HIDE DEF closed
    <3> QED
      BY <2>2, <2>3, BroadcastFacts
  <2>5. stage'[w] = "off" /\ \A v \in 1 .. 4 : v # w => (stage'[v] # "off" <=> stage[v] # "off")
    BY <1>1, <2>4
  <2>6. \A v \in 1 .. 4 : v # w => Flags'[v] = Flags[v]
    BY <1>4, <2>1, <2>5
  <2>7. Flags'[w] = FALSE
    BY <1>1, <2>5 DEF Flags
  <2>8. Flags' = [Flags EXCEPT ![w] = FALSE]
    BY <2>6, <2>7 DEF Flags
  <2>9. Budget!Release(w)
    BY <2>1, <2>8 DEF Budget!Release, Flags
  <2> QED
    BY <1>2, <2>9 DEF Budget!Next
<1> QED
  BY <1>3, <1>5, <1>6, <1>7 DEF Worker

(* The main thread raises the flag of the running preview.                 *)
LEMMA CancelRefines ==
  ASSUME IInv, UNCHANGED <<decode_bytes, held, want, cur, stopping>>, stage' = WakeForCancel,
         \A c \in InHand : /\ job'[c].kind = job[c].kind
                           /\ c # running_preview => job'[c] = job[c]
                           /\ c = running_preview => job'[c].cancelled
  PROVE  Budget!Next \/ UNCHANGED BudgetVars
<1>1. CASE running_preview = NoCell
  <2>1. \A c \in InHand : job'[c] = job[c]
    BY <1>1 DEF InHand
  <2>2. stage' = stage
    BY <1>1 DEF WakeForCancel
  <2> QED
    BY <2>1, <2>2, NoBudgetStep
<1>2. CASE running_preview # NoCell
  <2>1. stage' = Budget!Broadcast(stage) /\ stage \in [1 .. 4 -> Budget!Stages]
    BY <1>2 DEF WakeForCancel, IInv, Staged
  <2>2. ASSUME NEW w \in 1 .. 4, Flags[w] PROVE Flags'[w]
    <3>1. stage[w] # "off" /\ StopFlag(cur[w]) /\ cur[w] \in InHand
      BY <2>2, TicketHasJob DEF Flags
    <3>2. stage'[w] # "off"
      BY <2>1, <3>1, BroadcastFacts
    <3>3. StopFlag(cur[w])'
      BY <3>1 DEF StopFlag
    <3> QED
      BY <3>2, <3>3 DEF Flags
  <2> QED
    BY <2>1, <2>2, RaiseIsRaise
<1> QED
  BY <1>1, <1>2

LEMMA StopRefines == ASSUME IInv, RaiseStopping PROVE Budget!Next
<1>1. Typed /\ stage \in [1 .. 4 -> Budget!Stages]
  BY DEF IInv, Staged
<1>2. /\ stage' = Budget!Broadcast(stage) /\ stopping' = TRUE /\ job' = CancelRunning(job)
      /\ UNCHANGED <<decode_bytes, held, want, cur>>
  BY DEF RaiseStopping
<1>3. \A c \in Cells : /\ job'[c].kind = job[c].kind
                       /\ c # running_preview => job'[c] = job[c]
                       /\ c = running_preview => job'[c].cancelled
  BY <1>1, <1>2, CancelFacts DEF Typed
<1>4. ASSUME NEW w \in 1 .. 4, Flags[w] PROVE Flags'[w]
  <2>1. stage[w] # "off" /\ StopFlag(cur[w]) /\ cur[w] \in Cells
    BY <1>4, TicketHasJob DEF Flags
  <2>2. stage'[w] # "off"
    BY <1>1, <1>2, <2>1, BroadcastFacts
  <2>3. StopFlag(cur[w])'
    BY <1>2, <1>3, <2>1 DEF StopFlag
  <2> QED
    BY <2>2, <2>3 DEF Flags
<1> QED
  BY <1>2, <1>4, RaiseIsRaise

LEMMA MainRefines == ASSUME IInv, Main PROVE Budget!Next \/ UNCHANGED BudgetVars
<1>1. Typed /\ Apart /\ Accounted /\ Newest
  BY DEF IInv
<1>2. ASSUME Submit \/ SubmitPreview
      PROVE  Malloc \in Cells /\ Malloc \notin InHand
  BY <1>1, <1>2, MallocIsFree DEF Submit, SubmitPreview, FreeCells, Accounted
<1>3. \A c \in InHand : c \in Cells /\ c \notin QueuedPreviews
  BY <1>1, Basics DEF Apart, Linked, QueuedPreviews
<1>4. CASE Submit
  <2> DEFINE m == Malloc
  <2>1. job' = [job EXCEPT ![m] = NewJob("thumb")] /\ m \notin InHand
    BY <1>2, <1>4 DEF Submit
  <2> HIDE DEF m
  <2>2. \A c \in InHand : job'[c] = job[c]
    BY <1>1, <1>3, <2>1 DEF Typed
  <2>3. UNCHANGED <<decode_bytes, held, want, stage, stopping, cur>>
    BY <1>4 DEF Submit, budget
  <2> QED
    BY <2>2, <2>3, NoBudgetStep
<1>5. CASE SubmitPreview \/ CancelPreview
  <2>1. UNCHANGED <<decode_bytes, held, want, cur, stopping>> /\ stage' = WakeForCancel
    BY <1>5 DEF SubmitPreview, CancelPreview
  <2> DEFINE freed == FreeAll(job, QueuedPreviews)
             made == [freed EXCEPT ![Malloc] = NewJob("preview")]
  <2>2. freed \in [Cells -> JobRecords] /\ \A c \in InHand : freed[c] = job[c]
    BY <1>1, <1>3, FreeAllFacts DEF Typed
  <2> HIDE DEF freed
  <2>3. ASSUME SubmitPreview
        PROVE  made \in [Cells -> JobRecords] /\ \A c \in InHand : made[c] = job[c]
    <3>1. NewJob("preview") \in JobRecords
      BY DEF NewJob, JobRecords
    <3> QED
      BY <1>2, <1>3, <2>2, <2>3, <3>1
  <2>4. job' = CancelRunning(freed) \/ (SubmitPreview /\ job' = CancelRunning(made))
    BY <1>5 DEF SubmitPreview, CancelPreview, freed
  <2> HIDE DEF made
  <2>5. ASSUME NEW heap \in [Cells -> JobRecords], \A c \in InHand : heap[c] = job[c],
               job' = CancelRunning(heap)
        PROVE  \A c \in InHand : /\ job'[c].kind = job[c].kind
                                 /\ c # running_preview => job'[c] = job[c]
                                 /\ c = running_preview => job'[c].cancelled
    <3>1. running_preview \in Cells \cup {NoCell}
      BY <1>1 DEF Typed
    <3> QED
      BY <1>3, <2>5, <3>1, CancelFacts
  <2>6. \A c \in InHand : /\ job'[c].kind = job[c].kind
                          /\ c # running_preview => job'[c] = job[c]
                          /\ c = running_preview => job'[c].cancelled
    BY <2>2, <2>3, <2>4, <2>5
  <2> QED
    BY <2>1, <2>6, CancelRefines
<1>6. CASE PrioritizeThumbs \/ DrainDeliver
  <2>1. \A c \in InHand : job'[c] = job[c]
    BY <1>6, PrioritizeHeap, DeliverHeap
  <2>2. UNCHANGED <<decode_bytes, held, want, stage, stopping, cur>>
    BY <1>6 DEF PrioritizeThumbs, DrainDeliver, budget
  <2> QED
    BY <2>1, <2>2, NoBudgetStep
<1>7. CASE DrainRead \/ DrainDetach
  <2>1. UNCHANGED <<decode_bytes, held, want, stage, stopping, cur, job>>
    BY <1>7 DEF DrainRead, DrainDetach, budget
  <2> QED
    BY <2>1, NoBudgetStep
<1>8. CASE RequestStop \/ PoolStop
  BY <1>8, StopRefines DEF RequestStop, PoolStop
<1>9. CASE FreePool
  <2>1. UNCHANGED <<decode_bytes, held, want, stage, stopping, cur>>
    BY <1>9 DEF FreePool, budget
  <2>2. InHand = {}
    <3>1. \A w \in Threads : cur[w] = NoCell
      BY <1>9 DEF IInv, Staged, FreePool
    <3> QED
      BY <3>1 DEF InHand
  <2> QED
    BY <2>1, <2>2, NoBudgetStep
<1> QED
  BY <1>4, <1>5, <1>6, <1>7, <1>8, <1>9 DEF Main

(* The pool drives the decode budget as DecodeBudget says, with any number *)
(* of workers and cells: opening a decode, reserving and releasing are its *)
(* steps, every cancellation and stop raises flags under the mutex and     *)
(* wakes the sleepers in the same step, and nothing else a worker or the   *)
(* main thread does touches a ticket or its flag.                          *)
THEOREM PoolRefinesBudget == Spec => BudgetSpec
<1>1. Init => Budget!Init
  <2> SUFFICES ASSUME Init PROVE Budget!Init
    OBVIOUS
  <2>1. \A w \in 1 .. 4 : stage[w] = "off"
    BY DEF Init
  <2>2. Flags = [w \in 1 .. 4 |-> FALSE]
    BY <2>1 DEF Flags
  <2> QED
    BY <2>2, BudgetDefs DEF Init, Budget!Init, Flags
<1>2. IInv /\ [Next]_vars => [Budget!Next]_Budget!vars
  <2> SUFFICES ASSUME IInv, [Next]_vars PROVE Budget!Next \/ UNCHANGED BudgetVars
    BY DEF Budget!vars, BudgetVars, Flags
  <2>1. CASE UNCHANGED vars
    <3>1. UNCHANGED <<decode_bytes, held, want, stage, stopping, cur, job>>
      BY <2>1 DEF vars, budget
    <3> QED
      BY <3>1, NoBudgetStep
  <2>2. CASE Main
    BY <2>2, MainRefines
  <2>3. ASSUME NEW w \in Threads, Worker(w) \/ SpuriousWake(w) \/ SpuriousBudgetWake(w)
        PROVE  Budget!Next \/ UNCHANGED BudgetVars
    BY <2>3, WorkerRefines
  <2> QED
    BY <2>1, <2>2, <2>3 DEF Next, Finished
<1> QED
  BY <1>1, <1>2, InvHolds, PTL DEF Spec, BudgetSpec, Budget!Spec
=============================================================================
