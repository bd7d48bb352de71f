--------------------------- MODULE PictureProofs ----------------------------
(***************************************************************************)
(* Proofs about what the main thread asks of the worker pool and is        *)
(* answered.  Thumbs, for folders, layouts, limits and numbers of workers  *)
(* of any size: the loops of the store by induction over their steps, then *)
(* the invariant and its theorems; what the window and the selection are   *)
(* is in GridProofs.  Then Preview, for any wallpapers, sizes of the       *)
(* surface and workers.                                                    *)
(***************************************************************************)
EXTENDS Thumbs, Preview, GridProofs

-----------------------------------------------------------------------------
(* The store.                                                              *)

States == {"unloaded", "pending", "ready", "failed"}
Stores == [state : [Items -> States], resident : Nat]
Ready(st) == {i \in Items : st[i] = "ready"}

Setup == count \in Nat \ {0} /\ size \in Nat \ {0} /\ GridOk(grid)

\* The bytes are those of the ready tiles and not too many.
Within(s) ==
  /\ s \in Stores
  /\ s.resident = size * Cardinality(Ready(s.state)) /\ s.resident <= MAX_RESIDENT_BYTES

LEMMA ReadyIsFinite ==
  ASSUME Setup, NEW st
  PROVE  IsFiniteSet(Ready(st)) /\ Cardinality(Ready(st)) \in Nat
<1>1. IsFiniteSet(0 .. count - 1)
  BY FS_Interval DEF Setup
<1>2. Ready(st) \in SUBSET (0 .. count - 1)
  BY DEF Ready, Items
<1> QED
  BY <1>1, <1>2, FS_Subset, FS_CardinalityType

\* Some ready tiles are unloaded.
LEMMA UnloadSome ==
  ASSUME Setup, NEW s, Within(s), NEW gone \in SUBSET Ready(s.state),
         NEW t, t = [state |-> [i \in Items |-> IF i \in gone THEN "unloaded" ELSE s.state[i]],
                     resident |-> IF size * Cardinality(gone) <= s.resident
                                  THEN s.resident - size * Cardinality(gone) ELSE 0]
  PROVE  Within(t) /\ Ready(t.state) = Ready(s.state) \ gone
<1>1. s.state \in [Items -> States] /\ s.resident \in Nat
  BY DEF Within, Stores
<1>2. t.state \in [Items -> States]
  <2>1. t.state = [i \in Items |-> IF i \in gone THEN "unloaded" ELSE s.state[i]]
    OBVIOUS
  <2> QED
    BY <1>1, <2>1 DEF States
<1>3. Ready(t.state) = Ready(s.state) \ gone
  <2>1. t.state = [i \in Items |-> IF i \in gone THEN "unloaded" ELSE s.state[i]]
    OBVIOUS
  <2> QED
    BY <1>1, <2>1 DEF Ready
<1> DEFINE all == Cardinality(Ready(s.state))
           some == Cardinality(gone)
           rest == Cardinality(Ready(t.state))
<1>4. all \in Nat /\ some \in Nat /\ rest \in Nat /\ all = some + rest
  <2>1. IsFiniteSet(Ready(s.state)) /\ all \in Nat
    BY ReadyIsFinite
  <2>2. IsFiniteSet(gone)
    BY <2>1, FS_Subset
  <2>3. Ready(s.state) \intersect gone = gone
    OBVIOUS
  <2>4. some \in Nat /\ rest \in Nat
    BY <2>2, FS_CardinalityType, ReadyIsFinite
  <2>5. Cardinality(Ready(s.state) \ gone) = Cardinality(Ready(s.state)) - Cardinality(Ready(s.state) \intersect gone)
    BY <2>1, <2>2, FS_Difference
  <2>6. rest = all - some
    BY <1>3, <2>3, <2>5
  <2> HIDE DEF all, some, rest
  <2> QED
    BY <2>1, <2>4, <2>6
<1>5. s.resident = size * all /\ size * all <= MAX_RESIDENT_BYTES
  BY DEF Within
<1>6. t.resident = IF size * some <= s.resident THEN s.resident - size * some ELSE 0
  OBVIOUS
<1>7. size * all = size * some + size * rest /\ size * all \in Nat /\ size * some \in Nat /\ size * rest \in Nat
  <2> HIDE DEF all, some, rest
  <2> QED
    BY <1>4 DEF Setup
<1> HIDE DEF all, some, rest
<1>8. t.resident = size * rest /\ t.resident \in Nat /\ t.resident <= MAX_RESIDENT_BYTES
  BY <1>1, <1>5, <1>6, <1>7, SizesAssumption
<1>9. t \in Stores
  <2>1. DOMAIN t = {"state", "resident"} /\ t = [state |-> t.state, resident |-> t.resident]
    OBVIOUS
  <2> QED
    BY <1>2, <1>8, <2>1 DEF Stores
<1> QED
  BY <1>3, <1>8, <1>9 DEF Within, rest

LEMMA UnloadFacts ==
  ASSUME Setup, NEW s, Within(s), NEW i \in Items
  PROVE  /\ Within(Unload(s, i))
         /\ \A j \in Items : Unload(s, i).state[j] =
              IF j = i /\ s.state[i] = "ready" THEN "unloaded" ELSE s.state[j]
<1>1. CASE s.state[i] # "ready"
  BY <1>1 DEF Unload
<1>2. CASE s.state[i] = "ready"
  <2> DEFINE t == [state |-> [j \in Items |-> IF j \in {i} THEN "unloaded" ELSE s.state[j]],
                   resident |-> IF size * Cardinality({i}) <= s.resident
                                THEN s.resident - size * Cardinality({i}) ELSE 0]
  <2>1. {i} \in SUBSET Ready(s.state)
    BY <1>2 DEF Ready
  <2>2. Within(t)
    BY <2>1, UnloadSome
  <2>3. size * Cardinality({i}) = size
    <3>1. Cardinality({i}) = 1
      BY FS_Singleton
    <3>2. size * 1 = size
      BY DEF Setup
    <3> QED
      BY <3>1, <3>2
  <2>4. Unload(s, i) = t
    <3>1. [s.state EXCEPT ![i] = "unloaded"] = [j \in Items |-> IF j \in {i} THEN "unloaded" ELSE s.state[j]]
      BY DEF Within, Stores
    <3> QED
      BY <1>2, <2>3, <3>1 DEF Unload
  <2> QED
    BY <1>2, <2>2, <2>4
<1> QED
  BY <1>1, <1>2

LEMMA EvictOutsideFacts ==
  ASSUME Setup, NEW s, Within(s), NEW kept \in SUBSET Items
  PROVE  /\ Within(EvictOutside(s, kept))
         /\ Ready(EvictOutside(s, kept).state) = Ready(s.state) \intersect kept
         /\ \A j \in Items : EvictOutside(s, kept).state[j] =
              IF j \notin kept /\ s.state[j] = "ready" THEN "unloaded" ELSE s.state[j]
<1> DEFINE gone == {i \in Items \ kept : s.state[i] = "ready"}
           t == EvictOutside(s, kept)
<1>1. gone \in SUBSET Ready(s.state)
  BY DEF Ready
<1>2. t = [state |-> [i \in Items |-> IF i \in gone THEN "unloaded" ELSE s.state[i]],
           resident |-> IF size * Cardinality(gone) <= s.resident
                        THEN s.resident - size * Cardinality(gone) ELSE 0]
  BY DEF EvictOutside
<1>3. Within(t) /\ Ready(t.state) = Ready(s.state) \ gone
  <2> HIDE DEF t, gone
  <2> QED
    BY <1>1, <1>2, UnloadSome
<1>4. Ready(s.state) \ gone = Ready(s.state) \intersect kept
  BY DEF Ready
<1>5. \A j \in Items : t.state[j] = IF j \in gone THEN "unloaded" ELSE s.state[j]
  BY <1>2
<1> QED
  BY <1>3, <1>4, <1>5

-----------------------------------------------------------------------------
(* make_room.                                                              *)

EvictionFrom(f, s, i, r) ==
  f = [k \in 0 .. 2 * count |-> IF k = 0 THEN s ELSE EvictOne(f[k - 1], i, r, k)]

\* The loop does what its steps do, and stays where they stay.
LEMMA EvictionsAre ==
  ASSUME Setup, NEW S, NEW s \in S, NEW i, NEW r,
         \A k \in 1 .. 2 * count, t \in S : EvictOne(t, i, r, k) \in S
  PROVE  /\ Evictions(s, i, r)[0] = s
         /\ \A k \in 1 .. 2 * count : Evictions(s, i, r)[k] = EvictOne(Evictions(s, i, r)[k - 1], i, r, k)
         /\ \A k \in 0 .. 2 * count : Evictions(s, i, r)[k] \in S
<1> DEFINE n == 2 * count
           step == [p \in (1 .. n) \X S |-> EvictOne(p[2], i, r, p[1])]
           evictions == Evictions(s, i, r)
<1>1. n \in Nat
  BY DEF Setup
<1>2. \A k \in 1 .. n, t \in S : step[<<k, t>>] = EvictOne(t, i, r, k)
  OBVIOUS
<1>3. \A k \in 1 .. n, t \in S : step[<<k, t>>] \in S
  BY <1>2
<1> HIDE DEF step
<1>4. PICK f \in [0 .. n -> S] : IsLoop(f, n, s, step)
  <2> HIDE DEF n
  <2> QED
    BY <1>1, <1>3, LoopExists
<1>5. \A k \in 0 .. n : (IF k = 0 THEN s ELSE step[<<k, f[k - 1]>>]) =
                        (IF k = 0 THEN s ELSE EvictOne(f[k - 1], i, r, k))
  <2> SUFFICES ASSUME NEW k \in 0 .. n, k # 0 PROVE step[<<k, f[k - 1]>>] = EvictOne(f[k - 1], i, r, k)
    OBVIOUS
  <2>1. k \in 1 .. n /\ k - 1 \in 0 .. n
    BY <1>1
  <2> QED
    BY <1>2, <1>4, <2>1
<1>6. EvictionFrom(f, s, i, r)
  BY <1>4, <1>5 DEF EvictionFrom, IsLoop
<1>7. EvictionFrom(evictions, s, i, r)
  <2>1. evictions = CHOOSE g : EvictionFrom(g, s, i, r)
    BY DEF Evictions, EvictionFrom
  <2> HIDE DEF evictions
  <2> QED
    BY <1>6, <2>1
<1> HIDE DEF evictions
<1>8. evictions[0] = s /\ \A k \in 1 .. n : evictions[k] = EvictOne(evictions[k - 1], i, r, k)
  <2>1. evictions = [k \in 0 .. n |-> IF k = 0 THEN s ELSE EvictOne(evictions[k - 1], i, r, k)]
    BY <1>7 DEF EvictionFrom
  <2>2. 0 \in 0 .. n /\ \A k \in 1 .. n : k \in 0 .. n /\ k # 0
    BY <1>1
  <2> HIDE DEF n
  <2> QED
    BY <2>1, <2>2
<1> DEFINE T == {k \in 0 .. n : evictions[k] \in S}
<1>9. 0 .. n \subseteq T
  <2>1. 0 \in T
    BY <1>1, <1>8
  <2>2. ASSUME NEW k \in 1 .. n, k - 1 \in T PROVE k \in T
    <3>1. evictions[k - 1] \in S /\ k \in 0 .. n
      BY <2>2
    <3>2. evictions[k] \in S
      BY <1>3, <1>2, <1>8, <3>1
    <3> QED
      BY <3>1, <3>2
  <2> HIDE DEF T, n
  <2> QED
    BY <1>1, <2>1, <2>2, Upwards
<1> QED
  BY <1>8, <1>9 DEF evictions

\* Ready tiles may have been unloaded, nothing else has happened.
Evicted(t, s) ==
  \A j \in Items : t.state[j] = s.state[j] \/ (s.state[j] = "ready" /\ t.state[j] = "unloaded")

LEMMA EvictOneFacts ==
  ASSUME Setup, NEW s, Within(s), NEW i, NEW r, NEW k \in 1 .. 2 * count
  PROVE  Within(EvictOne(s, i, r, k)) /\ Evicted(EvictOne(s, i, r, k), s)
<1> DEFINE j == (k - 1) % count
<1>1. j \in Items
  BY DEF Setup, Items
<1>2. CASE EvictOne(s, i, r, k) = s
  BY <1>2 DEF Evicted
<1>3. CASE EvictOne(s, i, r, k) = Unload(s, j)
  <2> HIDE DEF j
  <2> QED
    BY <1>1, <1>3, UnloadFacts DEF Evicted
<1> QED
  BY <1>2, <1>3 DEF EvictOne

\* Room that is there already costs nothing.
LEMMA MakeRoomFacts ==
  ASSUME Setup, NEW s, Within(s), NEW i, NEW r
  PROVE  /\ Within(MakeRoom(s, i, r)) /\ Evicted(MakeRoom(s, i, r), s)
         /\ size <= MAX_RESIDENT_BYTES - s.resident => MakeRoom(s, i, r) = s
<1> DEFINE n == 2 * count
<1>1. n \in Nat /\ n \in 0 .. n /\ MakeRoom(s, i, r) = Evictions(s, i, r)[n]
  BY DEF Setup, MakeRoom
<1>2. Within(MakeRoom(s, i, r)) /\ Evicted(MakeRoom(s, i, r), s)
  <2> DEFINE S == {t \in Stores : Within(t) /\ Evicted(t, s)}
  <2>1. s \in S
    BY DEF Within, Evicted
  <2>2. ASSUME NEW k \in 1 .. n, NEW t \in S PROVE EvictOne(t, i, r, k) \in S
    <3>1. Within(EvictOne(t, i, r, k)) /\ Evicted(EvictOne(t, i, r, k), t)
      BY EvictOneFacts
    <3>2. Evicted(t, s)
      OBVIOUS
    <3>3. Evicted(EvictOne(t, i, r, k), s)
      BY <3>1, <3>2 DEF Evicted
    <3> QED
      BY <3>1, <3>3 DEF Within
  <2>3. \A k \in 0 .. n : Evictions(s, i, r)[k] \in S
    <3> HIDE DEF S
    <3> QED
      BY <2>1, <2>2, EvictionsAre
  <2> QED
    BY <1>1, <2>3
<1>3. ASSUME size <= MAX_RESIDENT_BYTES - s.resident PROVE MakeRoom(s, i, r) = s
  <2>1. \A k \in 1 .. n, t \in {s} : EvictOne(t, i, r, k) \in {s}
    <3>1. ~(size > MAX_RESIDENT_BYTES - s.resident)
      BY <1>3, SizesAssumption DEF Setup, Within, Stores
    <3> QED
      BY <3>1 DEF EvictOne
  <2>2. \A k \in 0 .. n : Evictions(s, i, r)[k] \in {s}
    BY <2>1, EvictionsAre
  <2> QED
    BY <1>1, <2>2
<1> QED
  BY <1>2, <1>3

-----------------------------------------------------------------------------
(* Results.                                                                *)

\* What is resident lies in the window, and the window has no hole that the
\* memory has room for.
Settled(s) ==
  /\ Within(s)
  /\ Ready(s.state) \subseteq Kept(Ranges, layout)
  /\ Visible(Ranges) <= slots => \A j \in Kept(Ranges, layout) : s.state[j] # "unloaded"

Shown == Setup /\ RangesOk(Ranges, layout.flow, count)

LEMMA ShownFacts ==
  ASSUME Shown
  PROVE  /\ slots \in Nat /\ size * slots <= MAX_RESIDENT_BYTES
         /\ Kept(Ranges, layout) \subseteq Items
<1>1. slots \in Nat /\ size * slots <= MAX_RESIDENT_BYTES
  BY Quotient, SizesAssumption DEF Shown, Setup, slots
<1>2. Kept(Ranges, layout) \subseteq Items
  BY DEF Kept, Window, Items
<1> QED
  BY <1>1, <1>2

\* Where the memory has room for what is on screen, it has room for the window.
LEMMA RoomForWindow ==
  ASSUME Shown, NEW s, Settled(s), Visible(Ranges) <= slots,
         NEW i \in Kept(Ranges, layout), s.state[i] # "ready"
  PROVE  size <= MAX_RESIDENT_BYTES - s.resident
<1> DEFINE W == Kept(Ranges, layout)
           n == Cardinality(Ready(s.state))
           m == Cardinality(W \ {i})
<1>1. /\ IsFiniteSet(W) /\ Cardinality(W) \in Nat /\ Cardinality(W) <= slots
  <2>1. count \in Nat \ {0} /\ slots \in Nat /\ RangesOk(Ranges, layout.flow, count)
    BY ShownFacts DEF Shown, Setup
  <2>2. W = Window(Ranges, layout, count, slots)
    BY DEF Kept
  <2> HIDE DEF W
  <2> QED
    BY <2>1, <2>2, WindowFits
<1>2. Ready(s.state) \subseteq W \ {i}
  BY DEF Settled, Ready
<1>3. IsFiniteSet(W \ {i}) /\ m = Cardinality(W) - 1
  <2>1. i \in W
    OBVIOUS
  <2> HIDE DEF W
  <2> QED
    BY <1>1, <2>1, FS_RemoveElement
<1>4. n <= m
  BY <1>2, <1>3, FS_Subset
<1>5. n \in Nat
  BY ReadyIsFinite DEF Shown
<1>6. s.resident = size * n
  BY DEF Settled, Within
<1> DEFINE q == slots
<1>7. q \in Nat /\ size * q <= MAX_RESIDENT_BYTES /\ n + 1 <= q
  <2>1. q \in Nat /\ size * q <= MAX_RESIDENT_BYTES
    BY ShownFacts
  <2>2. m \in Nat
    BY <1>3, FS_CardinalityType
  <2> DEFINE w == Cardinality(W)
  <2>3. w \in Nat /\ w <= q /\ m = w - 1
    BY <1>1, <1>3
  <2> HIDE DEF q, m, n, w
  <2> QED
    BY <1>4, <1>5, <2>1, <2>2, <2>3
<1> HIDE DEF q, m, n
<1>8. size * q >= size * (n + 1) /\ size * (n + 1) = size * n + size /\ size * n \in Nat
  <2>1. PICK d \in Nat : q = n + 1 + d
    <3>1. q - (n + 1) \in Nat /\ q = n + 1 + (q - (n + 1))
      BY <1>5, <1>7
    <3> QED
      BY <3>1
  <2>2. size * q = size * (n + 1) + size * d /\ size * d \in Nat /\ size * (n + 1) \in Nat
    BY <1>5, <1>7, <2>1 DEF Shown, Setup
  <2> QED
    BY <1>5, <1>7, <2>2 DEF Shown, Setup
<1> QED
  BY <1>5, <1>6, <1>7, <1>8, SizesAssumption DEF Shown, Setup

\* The tile i is answered, the others are as they were.
Answered(t, s, i) ==
  /\ Settled(t)
  /\ \A j \in Items : t.state[j] = "pending" <=> (s.state[j] = "pending" /\ j # i)

Becomes(t, i, st) == [t EXCEPT !.state[i] = st]
BecomesReady(t, i) == [[t EXCEPT !.state[i] = "ready"] EXCEPT !.resident = @ + size]

\* A tile becomes something that is neither ready nor waiting.
LEMMA BecomesFacts ==
  ASSUME Shown, NEW s, NEW t, Settled(s), NEW i \in Items, s.state[i] = "pending",
         Within(t), Evicted(t, s), NEW st \in {"unloaded", "failed"},
         Visible(Ranges) <= slots => t = s /\ (st = "failed" \/ i \notin Kept(Ranges, layout))
  PROVE  Answered(Becomes(t, i, st), s, i)
<1> DEFINE u == Becomes(t, i, st)
<1>1. t \in Stores /\ t.state \in [Items -> States] /\ s.state \in [Items -> States] /\ st \in States
  BY DEF Within, Stores, Settled, States
<1>2. /\ u \in Stores /\ u.resident = t.resident
      /\ \A j \in Items : u.state[j] = IF j = i THEN st ELSE t.state[j]
  BY <1>1 DEF Stores, Becomes
<1> HIDE DEF u
<1>3. Ready(u.state) = Ready(t.state)
  <2>1. t.state[i] # "ready" /\ st # "ready"
    BY DEF Evicted
  <2> QED
    BY <1>2, <2>1 DEF Ready
<1>4. Within(u)
  BY <1>2, <1>3 DEF Within
<1>5. Ready(t.state) \subseteq Ready(s.state)
  BY DEF Evicted, Ready
<1>6. Settled(u)
  <2>1. Ready(u.state) \subseteq Kept(Ranges, layout)
    BY <1>3, <1>5 DEF Settled
  <2>2. ASSUME Visible(Ranges) <= slots, NEW j \in Kept(Ranges, layout) PROVE u.state[j] # "unloaded"
    <3>1. j \in Items
      BY ShownFacts
    <3>2. s.state[j] # "unloaded" /\ t = s /\ (st = "failed" \/ i \notin Kept(Ranges, layout))
      BY <2>2 DEF Settled
    <3> QED
      BY <1>2, <3>1, <3>2
  <2> QED
    BY <1>4, <2>1, <2>2 DEF Settled
<1>7. \A j \in Items : u.state[j] = "pending" <=> (s.state[j] = "pending" /\ j # i)
  BY <1>2 DEF Evicted
<1> QED
  BY <1>6, <1>7 DEF Answered, u

\* A tile of the window becomes ready.
LEMMA ReadyFacts ==
  ASSUME Shown, NEW s, NEW t, Settled(s), NEW i \in Kept(Ranges, layout), s.state[i] = "pending",
         Within(t), Evicted(t, s), size <= MAX_RESIDENT_BYTES - t.resident,
         Visible(Ranges) <= slots => t = s
  PROVE  Answered(BecomesReady(t, i), s, i)
<1> DEFINE u == BecomesReady(t, i)
           n == Cardinality(Ready(t.state))
<1>1. t \in Stores /\ t.state \in [Items -> States] /\ t.resident \in Nat /\ size \in Nat \ {0} /\ i \in Items
  BY ShownFacts DEF Within, Stores, Shown, Setup
<1>2. /\ u.resident = t.resident + size /\ u.resident \in Nat
      /\ u.state = [t.state EXCEPT ![i] = "ready"] /\ u \in Stores
  <2> DEFINE v == [t EXCEPT !.state[i] = "ready"]
  <2>1. v \in Stores /\ v.state = [t.state EXCEPT ![i] = "ready"] /\ v.resident = t.resident
    BY <1>1 DEF Stores, States
  <2>2. u = [v EXCEPT !.resident = @ + size]
    BY DEF BecomesReady
  <2> HIDE DEF v, u
  <2>3. u.resident = v.resident + size /\ u.state = v.state /\ v.resident + size \in Nat
    BY <1>1, <2>1, <2>2 DEF Stores
  <2>4. u \in Stores
    BY <1>1, <2>1, <2>2, <2>3 DEF Stores
  <2> QED
    BY <2>1, <2>3, <2>4
<1> HIDE DEF u
<1>3. \A j \in Items : u.state[j] = IF j = i THEN "ready" ELSE t.state[j]
  BY <1>1, <1>2
<1>4. Ready(u.state) = Ready(t.state) \cup {i} /\ i \notin Ready(t.state)
  <2>1. t.state[i] # "ready"
    BY <1>1 DEF Evicted
  <2> QED
    BY <1>1, <1>3, <2>1 DEF Ready
<1>5. Cardinality(Ready(u.state)) = n + 1 /\ n \in Nat
  <2>1. IsFiniteSet(Ready(t.state)) /\ n \in Nat
    BY ReadyIsFinite DEF Shown
  <2> QED
    BY <1>4, <2>1, FS_AddElement
<1>6. t.resident = size * n
  BY DEF Within
<1>7. Within(u)
  <2> DEFINE m == Cardinality(Ready(u.state))
  <2>1. m = n + 1 /\ n \in Nat
    BY <1>5
  <2> HIDE DEF n, m
  <2>2. size * m = size * n + size
    BY <1>1, <2>1
  <2>3. u.resident = size * m /\ u.resident <= MAX_RESIDENT_BYTES
    BY <1>1, <1>2, <1>6, <2>2, SizesAssumption
  <2> QED
    BY <1>2, <2>3 DEF Within, m
<1>8. Settled(u)
  <2>1. Ready(t.state) \subseteq Ready(s.state)
    BY DEF Evicted, Ready
  <2>2. Ready(u.state) \subseteq Kept(Ranges, layout)
    BY <1>4, <2>1 DEF Settled
  <2>3. ASSUME Visible(Ranges) <= slots, NEW j \in Kept(Ranges, layout) PROVE u.state[j] # "unloaded"
    <3>1. j \in Items
      BY ShownFacts
    <3>2. s.state[j] # "unloaded" /\ t = s
      BY <2>3 DEF Settled
    <3> QED
      BY <1>3, <3>1, <3>2
  <2> QED
    BY <1>7, <2>2, <2>3 DEF Settled
<1>9. \A j \in Items : u.state[j] = "pending" <=> (s.state[j] = "pending" /\ j # i)
  BY <1>3 DEF Evicted
<1> QED
  BY <1>8, <1>9 DEF Answered, u

LEMMA AcceptFacts ==
  ASSUME Shown, NEW s, Settled(s), NEW i \in Items, s.state[i] = "pending"
  PROVE  Answered(Accept(s, i), s, i)
<1> DEFINE W == Kept(Ranges, layout)
           roomy == MakeRoom(s, i, Ranges)
<1>1. Within(s) /\ Evicted(s, s) /\ Setup /\ s.resident \in Nat
  BY DEF Settled, Evicted, Shown, Within, Stores
<1>2. Within(roomy) /\ Evicted(roomy, s)
  BY <1>1, MakeRoomFacts
<1>3. Visible(Ranges) <= slots /\ i \in W => roomy = s /\ size <= MAX_RESIDENT_BYTES - s.resident
  BY <1>1, RoomForWindow, MakeRoomFacts
<1>4. roomy.resident \in Nat /\ MAX_RESIDENT_BYTES \in Nat /\ size \in Nat
  BY <1>1, <1>2, SizesAssumption DEF Within, Stores, Setup
<1> HIDE DEF W, roomy
<1>5. CASE i \notin W
  <2>1. Accept(s, i) = Becomes(s, i, "unloaded")
    BY <1>5 DEF Accept, W, Becomes
  <2> QED
    BY <1>1, <1>5, <2>1, BecomesFacts DEF W
<1>6. CASE i \in W /\ size > MAX_RESIDENT_BYTES
  <2>1. Accept(s, i) = Becomes(s, i, "failed")
    BY <1>6 DEF Accept, W, Becomes
  <2> QED
    BY <1>1, <2>1, BecomesFacts
<1>7. CASE i \in W /\ ~(size > MAX_RESIDENT_BYTES) /\ size > MAX_RESIDENT_BYTES - roomy.resident
  <2>1. Accept(s, i) = Becomes(roomy, i, "unloaded")
    BY <1>7 DEF Accept, W, roomy, Becomes
  <2>2. ~(Visible(Ranges) <= slots)
    BY <1>3, <1>4, <1>7
  <2> QED
    BY <1>2, <2>1, <2>2, BecomesFacts
<1>8. CASE i \in W /\ ~(size > MAX_RESIDENT_BYTES) /\ ~(size > MAX_RESIDENT_BYTES - roomy.resident)
  <2>1. Accept(s, i) = BecomesReady(roomy, i)
    BY <1>8 DEF Accept, W, roomy, BecomesReady
  <2>2. size <= MAX_RESIDENT_BYTES - roomy.resident
    BY <1>4, <1>8
  <2>3. Visible(Ranges) <= slots => roomy = s
    BY <1>3, <1>8
  <2> QED
    BY <1>2, <1>8, <2>1, <2>2, <2>3, ReadyFacts DEF W
<1> QED
  BY <1>5, <1>6, <1>7, <1>8

LEMMA OnResultFacts ==
  ASSUME Shown, NEW s, Settled(s), NEW result \in [index : Items, ok : BOOLEAN]
  PROVE  Answered(OnResult(s, result), s, result.index)
<1>1. result.index \in Items
  OBVIOUS
<1>2. CASE s.state[result.index] # "pending"
  BY <1>2 DEF OnResult, Answered
<1>3. CASE s.state[result.index] = "pending" /\ result.ok
  BY <1>1, <1>3, AcceptFacts DEF OnResult
<1>4. CASE s.state[result.index] = "pending" /\ ~result.ok
  <2>1. OnResult(s, result) = Becomes(s, result.index, "failed")
    BY <1>4 DEF OnResult, Becomes
  <2>2. Within(s) /\ Evicted(s, s)
    BY DEF Settled, Evicted
  <2> QED
    BY <1>1, <1>4, <2>1, <2>2, BecomesFacts
<1> QED
  BY <1>2, <1>3, <1>4

-----------------------------------------------------------------------------
(* Sequences, as in WorkerPoolProofs.                                      *)

LEMMA RankIsOnto ==
  ASSUME NEW n \in Nat, NEW at \in SUBSET (1 .. n)
  PROVE  /\ IsFiniteSet(at) /\ Cardinality(at) \in Nat /\ Cardinality(at) <= n
         /\ \A k \in 1 .. Cardinality(at) : \E i \in at : Cardinality({j \in at : j <= i}) = k
<1> DEFINE c == Cardinality(at)
           below(i) == {j \in at : j <= i}
           rank == [i \in at |-> Cardinality(below(i))]
<1>1. IsFiniteSet(at) /\ c \in Nat /\ c <= n
  <2>1. IsFiniteSet(1 .. n) /\ Cardinality(1 .. n) = n
    BY FS_Interval
  <2> QED
    BY <2>1, FS_Subset, FS_CardinalityType
<1>2. ASSUME NEW i \in at
      PROVE  IsFiniteSet(below(i)) /\ Cardinality(below(i)) \in 1 .. c
  <2>1. below(i) \in SUBSET at /\ i \in below(i)
    OBVIOUS
  <2>2. IsFiniteSet(below(i)) /\ Cardinality(below(i)) <= c
    BY <1>1, <2>1, FS_Subset
  <2>3. Cardinality(below(i)) \in Nat /\ Cardinality(below(i)) # 0
    BY <2>1, <2>2, FS_EmptySet, FS_CardinalityType
  <2> QED
    BY <1>1, <2>2, <2>3
<1>3. ASSUME NEW i \in at, NEW k \in at, i < k
      PROVE  Cardinality(below(i)) # Cardinality(below(k))
  <2>0. i \in Int /\ k \in Int /\ \A j \in at : j \in Int
    OBVIOUS
  <2>1. below(i) \in SUBSET below(k)
    <3>1. ASSUME NEW j \in below(i) PROVE j \in below(k)
      <4>1. j \in at /\ j <= i /\ j \in Int
        BY <2>0
      <4> QED
        BY <1>3, <2>0, <4>1
    <3> QED
      BY <3>1
  <2>3. k \in below(k) /\ k \notin below(i)
    BY <1>3, <2>0
  <2>2. IsFiniteSet(below(k))
    BY <1>2
  <2> HIDE DEF below
  <2> QED
    BY <2>1, <2>2, <2>3, FS_Subset
<1>4. rank \in Injection(at, 1 .. c)
  <2>1. rank \in [at -> 1 .. c]
    BY <1>2
  <2>2. ASSUME NEW i \in at, NEW k \in at, rank[i] = rank[k] PROVE i = k
    <3>1. i \in Int /\ k \in Int
      OBVIOUS
    <3> HIDE DEF below
    <3> QED
      BY <1>3, <2>2, <3>1
  <2> QED
    BY <2>1, <2>2 DEF Injection, IsInjective
<1>5. IsFiniteSet(1 .. c) /\ Cardinality(1 .. c) = c
  BY <1>1, FS_Interval
<1>6. rank \in Surjection(at, 1 .. c)
  <2> HIDE DEF rank
  <2> QED
    BY <1>4, <1>5, FS_Injection
<1> QED
  BY <1>1, <1>6 DEF Surjection

LEMMA OnlyFacts ==
  ASSUME NEW X, NEW s \in Seq(X), NEW T
  PROVE  /\ Only(s, T) \in Seq(X)
         /\ ToSet(Only(s, T)) = ToSet(s) \intersect T
         /\ (\A i, j \in DOMAIN s : s[i] = s[j] /\ s[i] \in T => i = j) => IsInjective(Only(s, T))
         /\ Len(Only(s, T)) <= Len(s)
<1> DEFINE at == {i \in DOMAIN s : s[i] \in T}
           c == Cardinality(at)
           place(k) == CHOOSE i \in at : Cardinality({j \in at : j <= i}) = k
           q == [k \in 1 .. c |-> s[place(k)]]
<1>1. Len(s) \in Nat /\ DOMAIN s = 1 .. Len(s) /\ s \in [1 .. Len(s) -> X]
  BY LenProperties
<1>2. at \in SUBSET (1 .. Len(s))
  BY <1>1
<1>3. /\ IsFiniteSet(at) /\ c \in Nat /\ c <= Len(s)
      /\ \A k \in 1 .. c : \E i \in at : Cardinality({j \in at : j <= i}) = k
  <2> HIDE DEF at
  <2> QED
    BY <1>1, <1>2, RankIsOnto
<1>4. ASSUME NEW k \in 1 .. c
      PROVE  place(k) \in at /\ Cardinality({j \in at : j <= place(k)}) = k
  BY <1>3
<1>5. ASSUME NEW i \in at
      PROVE  LET k == Cardinality({j \in at : j <= i}) IN k \in 1 .. c /\ place(k) = i
  <2> DEFINE below(m) == {j \in at : j <= m}
             k == Cardinality(below(i))
  <2>1. below(i) \in SUBSET at /\ i \in below(i)
    BY <1>2
  <2>2. IsFiniteSet(below(i)) /\ k <= c /\ k \in Nat /\ k # 0
    <3> HIDE DEF at, below
    <3> QED
      BY <1>3, <2>1, FS_Subset, FS_EmptySet, FS_CardinalityType
  <2>3. k \in 1 .. c
    BY <1>3, <2>2
  <2>4. place(k) \in at /\ Cardinality(below(place(k))) = k
    BY <1>4, <2>3
  <2>5. ASSUME NEW m \in at, NEW p \in at, m < p PROVE Cardinality(below(m)) # Cardinality(below(p))
    <3>1. below(m) \in SUBSET below(p) /\ p \in below(p) /\ p \notin below(m) /\ below(p) \in SUBSET at
      BY <1>2, <2>5
    <3> HIDE DEF below, at
    <3> QED
      BY <1>3, <3>1, FS_Subset
  <2>6. place(k) \in Int /\ i \in Int
    BY <1>2, <2>4
  <2>7. place(k) = i
    <3> HIDE DEF place, below, at
    <3> QED
      BY <2>4, <2>5, <2>6
  <2> QED
    BY <2>3, <2>7
<1>6. Only(s, T) = q
  BY DEF Only
<1> HIDE DEF place
<1>7. q \in Seq(X) /\ Len(q) = c /\ DOMAIN q = 1 .. c
  <2>1. q \in [1 .. c -> X]
    BY <1>1, <1>4
  <2> QED
    BY <1>3, <2>1
<1>8. ToSet(q) = ToSet(s) \intersect T
  <2>1. ASSUME NEW e \in ToSet(q) PROVE e \in ToSet(s) \intersect T
    <3>1. PICK k \in 1 .. c : e = q[k]
      BY <1>7 DEF ToSet
    <3>2. e = s[place(k)] /\ place(k) \in at
      BY <1>4, <3>1
    <3> QED
      BY <3>2 DEF ToSet
  <2>2. ASSUME NEW e \in ToSet(s) \intersect T PROVE e \in ToSet(q)
    <3>1. PICK i \in DOMAIN s : e = s[i]
      BY DEF ToSet
    <3>2. i \in at
      BY <3>1
    <3>3. PICK k \in 1 .. c : place(k) = i
      BY <1>5, <3>2
    <3>4. q[k] = e
      BY <3>1, <3>3
    <3> QED
      BY <1>7, <3>4 DEF ToSet
  <2> QED
    BY <2>1, <2>2
<1>9. ASSUME \A i, j \in DOMAIN s : s[i] = s[j] /\ s[i] \in T => i = j PROVE IsInjective(q)
  <2>1. ASSUME NEW k \in 1 .. c, NEW m \in 1 .. c, q[k] = q[m] PROVE k = m
    <3>1. s[place(k)] = s[place(m)] /\ place(k) \in at /\ place(m) \in at
      BY <1>4, <2>1
    <3>2. place(k) = place(m)
      BY <1>9, <3>1
    <3> QED
      BY <1>4, <3>2
  <2> QED
    BY <1>7, <2>1 DEF IsInjective
<1> QED
  BY <1>3, <1>6, <1>7, <1>8, <1>9

LEMMA SingleFacts ==
  ASSUME NEW X, NEW e \in X
  PROVE  <<e>> \in Seq(X) /\ Len(<<e>>) = 1 /\ ToSet(<<e>>) = {e} /\ IsInjective(<<e>>)
<1>1. <<e>> \in Seq(X) /\ Len(<<e>>) = 1 /\ DOMAIN <<e>> = 1 .. 1 /\ <<e>>[1] = e
  OBVIOUS
<1>2. \A i \in 1 .. 1 : i = 1
  OBVIOUS
<1> QED
  BY <1>1, <1>2 DEF ToSet, IsInjective

LEMMA AppendFacts ==
  ASSUME NEW X, NEW s \in Seq(X), NEW e \in X
  PROVE  /\ Append(s, e) \in Seq(X) /\ Len(Append(s, e)) = Len(s) + 1
         /\ ToSet(Append(s, e)) = ToSet(s) \union {e}
         /\ IsInjective(s) /\ e \notin ToSet(s) => IsInjective(Append(s, e))
<1>1. Append(s, e) = s \o <<e>>
  BY AppendIsConcat
<1> DEFINE t == <<e>>
<1>2. t \in Seq(X) /\ Len(t) = 1 /\ ToSet(t) = {e} /\ IsInjective(t)
  BY SingleFacts
<1> HIDE DEF t
<1>3. /\ s \o t \in Seq(X) /\ Len(s \o t) = Len(s) + Len(t)
      /\ ToSet(s \o t) = ToSet(s) \union ToSet(t)
      /\ IsInjective(s) /\ IsInjective(t) /\ ToSet(s) \intersect ToSet(t) = {} => IsInjective(s \o t)
  BY <1>2, ConcatFacts
<1>4. Append(s, e) = s \o t
  BY <1>1 DEF t
<1> QED
  BY <1>2, <1>3, <1>4

LEMMA HeadFacts ==
  ASSUME NEW X, NEW s \in Seq(X), s # <<>>
  PROVE  /\ Head(s) \in ToSet(s) /\ Tail(s) \in Seq(X) /\ Len(Tail(s)) = Len(s) - 1
         /\ IsInjective(s) => IsInjective(Tail(s)) /\ ToSet(Tail(s)) = ToSet(s) \ {Head(s)}
<1> DEFINE t == Tail(s)
<1>1. /\ Head(s) = s[1] /\ t \in Seq(X) /\ Len(s) \in Nat /\ Len(s) > 0 /\ Len(t) = Len(s) - 1
      /\ \A i \in 1 .. Len(t) : t[i] = s[i + 1]
      /\ DOMAIN s = 1 .. Len(s) /\ DOMAIN t = 1 .. Len(s) - 1
  BY HeadTailProperties, LenProperties, EmptySeq
<1> HIDE DEF t
<1>2. Head(s) \in ToSet(s)
  BY <1>1 DEF ToSet
<1>3. ASSUME IsInjective(s)
      PROVE  IsInjective(t) /\ ToSet(t) = ToSet(s) \ {Head(s)}
  <2>1. \A i, j \in 1 .. Len(s) : s[i] = s[j] => i = j
    BY <1>1, <1>3 DEF IsInjective
  <2>2. IsInjective(t)
    <3>1. ASSUME NEW i \in 1 .. Len(s) - 1, NEW j \in 1 .. Len(s) - 1, t[i] = t[j] PROVE i = j
      <4>1. i + 1 \in 1 .. Len(s) /\ j + 1 \in 1 .. Len(s) /\ s[i + 1] = s[j + 1]
        BY <1>1, <3>1
      <4>2. i + 1 = j + 1
        BY <2>1, <4>1
      <4> QED
        BY <4>2
    <3> QED
      BY <1>1, <3>1 DEF IsInjective
  <2>3. ASSUME NEW e \in ToSet(t) PROVE e \in ToSet(s) /\ e # Head(s)
    <3>1. PICK i \in 1 .. Len(s) - 1 : e = t[i]
      BY <1>1 DEF ToSet
    <3>2. i + 1 \in 1 .. Len(s) /\ 1 \in 1 .. Len(s) /\ i + 1 # 1 /\ e = s[i + 1]
      BY <1>1, <3>1
    <3> QED
      BY <1>1, <2>1, <3>2 DEF ToSet
  <2>4. ASSUME NEW e \in ToSet(s), e # Head(s) PROVE e \in ToSet(t)
    <3>1. PICK i \in 1 .. Len(s) : e = s[i]
      BY <1>1 DEF ToSet
    <3>2. i - 1 \in 1 .. Len(s) - 1 /\ (i - 1) + 1 = i
      BY <1>1, <2>4, <3>1
    <3>3. t[i - 1] = e
      BY <1>1, <3>1, <3>2
    <3> QED
      BY <1>1, <3>2, <3>3 DEF ToSet
  <2> QED
    BY <2>2, <2>3, <2>4
<1> QED
  BY <1>1, <1>2, <1>3 DEF t

-----------------------------------------------------------------------------
(* Submissions.                                                            *)

SubmissionsFrom(f, s, wanted, refused) ==
  f = [k \in 0 .. Len(wanted) |-> IF k = 0 THEN s ELSE SubmitIndex(f[k - 1], wanted[k], refused)]

LEMMA SubmissionsAre ==
  ASSUME NEW S, NEW s \in S, NEW wanted \in Seq(Nat), NEW refused,
         \A k \in 1 .. Len(wanted), t \in S : SubmitIndex(t, wanted[k], refused) \in S
  PROVE  /\ Submissions(s, wanted, refused)[0] = s
         /\ \A k \in 1 .. Len(wanted) :
              Submissions(s, wanted, refused)[k] = SubmitIndex(Submissions(s, wanted, refused)[k - 1], wanted[k], refused)
         /\ \A k \in 0 .. Len(wanted) : Submissions(s, wanted, refused)[k] \in S
<1> DEFINE n == Len(wanted)
           step == [p \in (1 .. n) \X S |-> SubmitIndex(p[2], wanted[p[1]], refused)]
           submissions == Submissions(s, wanted, refused)
<1>1. n \in Nat
  BY LenProperties
<1>2. \A k \in 1 .. n, t \in S : step[<<k, t>>] = SubmitIndex(t, wanted[k], refused)
  OBVIOUS
<1>3. \A k \in 1 .. n, t \in S : step[<<k, t>>] \in S
  BY <1>2
<1> HIDE DEF step
<1>4. PICK f \in [0 .. n -> S] : IsLoop(f, n, s, step)
  <2> HIDE DEF n
  <2> QED
    BY <1>1, <1>3, LoopExists
<1>5. \A k \in 0 .. n : (IF k = 0 THEN s ELSE step[<<k, f[k - 1]>>]) =
                        (IF k = 0 THEN s ELSE SubmitIndex(f[k - 1], wanted[k], refused))
  <2> SUFFICES ASSUME NEW k \in 0 .. n, k # 0
               PROVE  step[<<k, f[k - 1]>>] = SubmitIndex(f[k - 1], wanted[k], refused)
    OBVIOUS
  <2>1. k \in 1 .. n /\ k - 1 \in 0 .. n
    BY <1>1
  <2> QED
    BY <1>2, <1>4, <2>1
<1>6. SubmissionsFrom(f, s, wanted, refused)
  BY <1>4, <1>5 DEF SubmissionsFrom, IsLoop
<1>7. SubmissionsFrom(submissions, s, wanted, refused)
  <2>1. submissions = CHOOSE g : SubmissionsFrom(g, s, wanted, refused)
    BY DEF Submissions, SubmissionsFrom
  <2> HIDE DEF submissions
  <2> QED
    BY <1>6, <2>1
<1> HIDE DEF submissions
<1>8. submissions[0] = s /\ \A k \in 1 .. n : submissions[k] = SubmitIndex(submissions[k - 1], wanted[k], refused)
  <2>1. submissions = [k \in 0 .. n |-> IF k = 0 THEN s ELSE SubmitIndex(submissions[k - 1], wanted[k], refused)]
    BY <1>7 DEF SubmissionsFrom
  <2>2. 0 \in 0 .. n /\ \A k \in 1 .. n : k \in 0 .. n /\ k # 0
    BY <1>1
  <2> HIDE DEF n
  <2> QED
    BY <2>1, <2>2
<1> DEFINE T == {k \in 0 .. n : submissions[k] \in S}
<1>9. 0 .. n \subseteq T
  <2>1. 0 \in T
    BY <1>1, <1>8
  <2>2. ASSUME NEW k \in 1 .. n, k - 1 \in T PROVE k \in T
    <3>1. submissions[k - 1] \in S /\ k \in 0 .. n
      BY <2>2
    <3>2. submissions[k] \in S
      BY <1>3, <1>2, <1>8, <3>1
    <3> QED
      BY <3>1, <3>2
  <2> HIDE DEF T, n
  <2> QED
    BY <1>1, <2>1, <2>2, Upwards
<1> QED
  BY <1>8, <1>9 DEF submissions

Asked == [state : [Items -> States], queue : Seq(Items)]

\* Each waiting tile has its job in the queue, but those that are taken.
Answerable(s, taken) ==
  /\ IsInjective(s.queue) /\ ToSet(s.queue) \intersect taken = {}
  /\ \A i \in Items : s.state[i] = "pending" <=> i \in ToSet(s.queue) \cup taken

\* From s to t only tiles of W were asked for.
AskedIn(t, s, W) ==
  /\ \A i \in Items : \/ t.state[i] = s.state[i]
                      \/ i \in W /\ s.state[i] = "unloaded" /\ t.state[i] \in {"pending", "failed"}
  /\ ToSet(t.queue) \subseteq ToSet(s.queue) \cup W
  /\ (\A i \in W : s.state[i] # "unloaded") => t.queue = s.queue

LEMMA SubmitIndexFacts ==
  ASSUME count \in Nat, NEW s \in Asked, NEW taken, Answerable(s, taken), NEW W \in SUBSET Items,
         NEW t \in Asked, Answerable(t, taken), AskedIn(t, s, W),
         NEW i \in Nat, i \in W \/ i = count, NEW refused
  PROVE  LET u == SubmitIndex(t, i, refused)
         IN  /\ u \in Asked /\ Answerable(u, taken) /\ AskedIn(u, s, W)
             /\ i \in Items => u.state[i] # "unloaded"
             /\ \A j \in Items : t.state[j] # "unloaded" => u.state[j] # "unloaded"
<1> DEFINE u == SubmitIndex(t, i, refused)
<1>1. i \in Items <=> ~(i >= count)
  BY DEF Items
<1>2. CASE i >= count \/ t.state[i] # "unloaded"
  <2>1. u = t
    BY <1>2 DEF SubmitIndex
  <2> QED
    BY <1>1, <1>2, <2>1
<1> DEFINE asking == ~(i >= count \/ t.state[i] # "unloaded")
<1>3. asking => i \in Items /\ i \in W /\ t.state[i] = "unloaded" /\ s.state[i] = "unloaded"
  <2> SUFFICES ASSUME asking PROVE i \in Items /\ i \in W /\ t.state[i] = "unloaded" /\ s.state[i] = "unloaded"
    OBVIOUS
  <2>1. i \in Items /\ t.state[i] = "unloaded" /\ i # count
    BY <1>1
  <2> QED
    BY <2>1 DEF AskedIn
<1>4. /\ t.state \in [Items -> States] /\ t.queue \in Seq(Items)
      /\ s.state \in [Items -> States] /\ s.queue \in Seq(Items)
  BY DEF Asked
<1>5. CASE asking /\ i \in refused
  <2>1. u = [t EXCEPT !.state[i] = "failed"]
    BY <1>5 DEF SubmitIndex
  <2>2. u.queue = t.queue /\ u.state = [t.state EXCEPT ![i] = "failed"] /\ u \in Asked
    BY <2>1 DEF Asked, States
  <2> HIDE DEF u
  <2>3. \A j \in Items : u.state[j] = IF j = i THEN "failed" ELSE t.state[j]
    BY <1>4, <2>2
  <2>4. Answerable(u, taken)
    BY <1>3, <1>5, <2>2, <2>3 DEF Answerable
  <2>5. AskedIn(u, s, W)
    BY <1>3, <1>5, <2>2, <2>3 DEF AskedIn
  <2>6. \A j \in Items : t.state[j] # "unloaded" => u.state[j] # "unloaded"
    BY <2>3
  <2>7. u.state[i] # "unloaded"
    BY <1>3, <1>5, <2>3
  <2> QED
    BY <2>2, <2>4, <2>5, <2>6, <2>7 DEF u
<1>6. CASE asking /\ i \notin refused
  <2>1. u = [state |-> [t.state EXCEPT ![i] = "pending"], queue |-> Append(t.queue, i)]
    BY <1>6 DEF SubmitIndex
  <2>2. i \in Items /\ i \in W /\ t.state[i] = "unloaded" /\ s.state[i] = "unloaded"
    BY <1>3, <1>6
  <2>3. /\ u.queue = Append(t.queue, i) /\ u.state = [t.state EXCEPT ![i] = "pending"]
        /\ DOMAIN u = {"state", "queue"} /\ u = [state |-> u.state, queue |-> u.queue]
    BY <2>1
  <2> HIDE DEF u
  <2>4. /\ u.queue \in Seq(Items) /\ ToSet(u.queue) = ToSet(t.queue) \cup {i}
        /\ IsInjective(t.queue) /\ i \notin ToSet(t.queue) => IsInjective(u.queue)
    BY <1>4, <2>2, <2>3, AppendFacts
  <2>5. u.state \in [Items -> States] /\ \A j \in Items : u.state[j] = IF j = i THEN "pending" ELSE t.state[j]
    BY <1>4, <2>3 DEF States
  <2>6. u \in Asked
    BY <2>3, <2>4, <2>5 DEF Asked
  <2>7. i \notin ToSet(t.queue) \cup taken
    BY <2>2 DEF Answerable
  <2>8. Answerable(u, taken)
    BY <2>4, <2>5, <2>7 DEF Answerable
  <2>9. AskedIn(u, s, W)
    <3>1. \A j \in Items : \/ u.state[j] = s.state[j]
                           \/ j \in W /\ s.state[j] = "unloaded" /\ u.state[j] \in {"pending", "failed"}
      BY <2>2, <2>5 DEF AskedIn
    <3>2. ToSet(u.queue) \subseteq ToSet(s.queue) \cup W
      BY <2>2, <2>4 DEF AskedIn
    <3> QED
      BY <2>2, <3>1, <3>2 DEF AskedIn
  <2>10. \A j \in Items : t.state[j] # "unloaded" => u.state[j] # "unloaded"
    BY <2>5
  <2>11. u.state[i] # "unloaded"
    BY <2>2, <2>5
  <2> QED
    BY <2>6, <2>8, <2>9, <2>10, <2>11 DEF u
<1> QED
  BY <1>2, <1>5, <1>6

LEMMA SubmitAllFacts ==
  ASSUME count \in Nat, NEW s \in Asked, NEW taken, Answerable(s, taken), NEW W \in SUBSET Items,
         NEW wanted \in Seq(Nat), ToSet(wanted) \subseteq W \cup {count}, W \subseteq ToSet(wanted), NEW refused
  PROVE  LET t == SubmitAll(s, wanted, refused)
         IN  /\ t \in Asked /\ Answerable(t, taken) /\ AskedIn(t, s, W)
             /\ \A i \in W : t.state[i] # "unloaded"
<1> DEFINE n == Len(wanted)
           after == Submissions(s, wanted, refused)
           S == {t \in Asked : Answerable(t, taken) /\ AskedIn(t, s, W)}
<1>1. n \in Nat /\ n \in 0 .. n /\ DOMAIN wanted = 1 .. n /\ SubmitAll(s, wanted, refused) = after[n]
  BY LenProperties DEF SubmitAll
<1>2. \A k \in 1 .. n : wanted[k] \in Nat /\ (wanted[k] \in W \/ wanted[k] = count)
  <2> SUFFICES ASSUME NEW k \in 1 .. n PROVE wanted[k] \in Nat /\ (wanted[k] \in W \/ wanted[k] = count)
    OBVIOUS
  <2>1. wanted[k] \in ToSet(wanted) /\ wanted[k] \in Nat
    BY <1>1, ElementOfSeq DEF ToSet
  <2> QED
    BY <2>1
<1>3. s \in S
  BY DEF AskedIn
<1>4. ASSUME NEW k \in 1 .. n, NEW t \in S
      PROVE  LET u == SubmitIndex(t, wanted[k], refused)
             IN  /\ u \in S
                 /\ wanted[k] \in Items => u.state[wanted[k]] # "unloaded"
                 /\ \A j \in Items : t.state[j] # "unloaded" => u.state[j] # "unloaded"
  <2>1. t \in Asked /\ Answerable(t, taken) /\ AskedIn(t, s, W)
    OBVIOUS
  <2> DEFINE i == wanted[k]
  <2>2. i \in Nat /\ (i \in W \/ i = count)
    BY <1>2
  <2> HIDE DEF i, n
  <2>3. /\ SubmitIndex(t, i, refused) \in Asked /\ Answerable(SubmitIndex(t, i, refused), taken)
        /\ AskedIn(SubmitIndex(t, i, refused), s, W)
        /\ i \in Items => SubmitIndex(t, i, refused).state[i] # "unloaded"
        /\ \A j \in Items : t.state[j] # "unloaded" => SubmitIndex(t, i, refused).state[j] # "unloaded"
    BY <2>1, <2>2, SubmitIndexFacts
  <2> QED
    BY <2>3 DEF i
<1> HIDE DEF S
<1>5. /\ \A k \in 1 .. n : after[k] = SubmitIndex(after[k - 1], wanted[k], refused)
      /\ \A k \in 0 .. n : after[k] \in S
  <2>1. \A k \in 1 .. Len(wanted), t \in S : SubmitIndex(t, wanted[k], refused) \in S
    BY <1>4
  <2> QED
    BY <1>3, <2>1, SubmissionsAre
<1> HIDE DEF n, after
<1> DEFINE T == {k \in 0 .. n : \A j \in 1 .. k : wanted[j] \in Items => after[k].state[wanted[j]] # "unloaded"}
<1>6. 0 .. n \subseteq T
  <2>1. 0 \in T
    BY <1>1
  <2>2. ASSUME NEW k \in 1 .. n, k - 1 \in T PROVE k \in T
    <3>1. k \in 0 .. n /\ k - 1 \in 0 .. n /\ after[k - 1] \in S /\ after[k] = SubmitIndex(after[k - 1], wanted[k], refused)
      BY <1>1, <1>5
    <3>2. /\ wanted[k] \in Items => after[k].state[wanted[k]] # "unloaded"
          /\ \A j \in Items : after[k - 1].state[j] # "unloaded" => after[k].state[j] # "unloaded"
      BY <1>4, <3>1
    <3>3. ASSUME NEW j \in 1 .. k, wanted[j] \in Items PROVE after[k].state[wanted[j]] # "unloaded"
      <4>1. j = k \/ j \in 1 .. k - 1
        OBVIOUS
      <4> QED
        BY <2>2, <3>2, <3>3, <4>1
    <3> QED
      BY <3>1, <3>3
  <2> HIDE DEF T
  <2> QED
    BY <1>1, <2>1, <2>2, Upwards
<1>7. ASSUME NEW i \in W PROVE after[n].state[i] # "unloaded"
  <2>1. PICK j \in 1 .. n : wanted[j] = i
    BY <1>1 DEF ToSet
  <2>2. n \in T
    BY <1>1, <1>6
  <2> QED
    BY <2>1, <2>2
<1>8. after[n] \in Asked /\ Answerable(after[n], taken) /\ AskedIn(after[n], s, W)
  BY <1>1, <1>5 DEF S
<1> QED
  BY <1>1, <1>7, <1>8

-----------------------------------------------------------------------------
(* Deliveries.                                                             *)

Results == [index : Items, ok : BOOLEAN]

DeliveriesFrom(f, s, answers) ==
  f = [k \in 0 .. Len(answers) |-> IF k = 0 THEN s ELSE OnResult(f[k - 1], answers[k])]

LEMMA DeliveriesAre ==
  ASSUME NEW S, NEW s \in S, NEW answers \in Seq(Results),
         \A k \in 1 .. Len(answers), t \in S : OnResult(t, answers[k]) \in S
  PROVE  /\ Deliveries(s, answers)[0] = s
         /\ \A k \in 1 .. Len(answers) :
              Deliveries(s, answers)[k] = OnResult(Deliveries(s, answers)[k - 1], answers[k])
         /\ \A k \in 0 .. Len(answers) : Deliveries(s, answers)[k] \in S
<1> DEFINE n == Len(answers)
           step == [p \in (1 .. n) \X S |-> OnResult(p[2], answers[p[1]])]
           deliveries == Deliveries(s, answers)
<1>1. n \in Nat
  BY LenProperties
<1>2. \A k \in 1 .. n, t \in S : step[<<k, t>>] = OnResult(t, answers[k])
  OBVIOUS
<1>3. \A k \in 1 .. n, t \in S : step[<<k, t>>] \in S
  BY <1>2
<1> HIDE DEF step
<1>4. PICK f \in [0 .. n -> S] : IsLoop(f, n, s, step)
  <2> HIDE DEF n
  <2> QED
    BY <1>1, <1>3, LoopExists
<1>5. \A k \in 0 .. n : (IF k = 0 THEN s ELSE step[<<k, f[k - 1]>>]) =
                        (IF k = 0 THEN s ELSE OnResult(f[k - 1], answers[k]))
  <2> SUFFICES ASSUME NEW k \in 0 .. n, k # 0
               PROVE  step[<<k, f[k - 1]>>] = OnResult(f[k - 1], answers[k])
    OBVIOUS
  <2>1. k \in 1 .. n /\ k - 1 \in 0 .. n
    BY <1>1
  <2> QED
    BY <1>2, <1>4, <2>1
<1>6. DeliveriesFrom(f, s, answers)
  BY <1>4, <1>5 DEF DeliveriesFrom, IsLoop
<1>7. DeliveriesFrom(deliveries, s, answers)
  <2>1. deliveries = CHOOSE g : DeliveriesFrom(g, s, answers)
    BY DEF Deliveries, DeliveriesFrom
  <2> HIDE DEF deliveries
  <2> QED
    BY <1>6, <2>1
<1> HIDE DEF deliveries
<1>8. deliveries[0] = s /\ \A k \in 1 .. n : deliveries[k] = OnResult(deliveries[k - 1], answers[k])
  <2>1. deliveries = [k \in 0 .. n |-> IF k = 0 THEN s ELSE OnResult(deliveries[k - 1], answers[k])]
    BY <1>7 DEF DeliveriesFrom
  <2>2. 0 \in 0 .. n /\ \A k \in 1 .. n : k \in 0 .. n /\ k # 0
    BY <1>1
  <2> HIDE DEF n
  <2> QED
    BY <2>1, <2>2
<1> DEFINE T == {k \in 0 .. n : deliveries[k] \in S}
<1>9. 0 .. n \subseteq T
  <2>1. 0 \in T
    BY <1>1, <1>8
  <2>2. ASSUME NEW k \in 1 .. n, k - 1 \in T PROVE k \in T
    <3>1. deliveries[k - 1] \in S /\ k \in 0 .. n
      BY <2>2
    <3>2. deliveries[k] \in S
      BY <1>3, <1>2, <1>8, <3>1
    <3> QED
      BY <3>1, <3>2
  <2> HIDE DEF T, n
  <2> QED
    BY <1>1, <2>1, <2>2, Upwards
<1> QED
  BY <1>8, <1>9 DEF deliveries

\* Every result settles its tile, whatever order they come in.
LEMMA DeliveriesFacts ==
  ASSUME Shown, NEW s, Settled(s), NEW answers \in Seq(Results)
  PROVE  LET t == Deliveries(s, answers)[Len(answers)]
         IN  /\ Settled(t)
             /\ \A i \in Items : t.state[i] = "pending" <=>
                  (s.state[i] = "pending" /\ \A j \in DOMAIN answers : answers[j].index # i)
<1> DEFINE n == Len(answers)
           after == Deliveries(s, answers)
           S == {t \in Stores : Settled(t)}
<1>1. n \in Nat /\ n \in 0 .. n /\ DOMAIN answers = 1 .. n
  BY LenProperties
<1>2. \A k \in 1 .. n : answers[k] \in Results
  BY <1>1, ElementOfSeq
<1>3. s \in S
  BY DEF Settled, Within
<1>4. ASSUME NEW k \in 1 .. n, NEW t \in S
      PROVE  OnResult(t, answers[k]) \in S /\ Answered(OnResult(t, answers[k]), t, answers[k].index)
  <2> DEFINE result == answers[k]
  <2>1. result \in [index : Items, ok : BOOLEAN]
    BY <1>2 DEF Results
  <2>2. Settled(t)
    OBVIOUS
  <2> HIDE DEF result
  <2>3. Answered(OnResult(t, result), t, result.index)
    BY <2>1, <2>2, OnResultFacts
  <2> QED
    BY <2>3 DEF Answered, Settled, Within, result
<1> HIDE DEF S
<1>5. /\ after[0] = s
      /\ \A k \in 1 .. n : after[k] = OnResult(after[k - 1], answers[k])
      /\ \A k \in 0 .. n : after[k] \in S
  <2>1. \A k \in 1 .. Len(answers), t \in S : OnResult(t, answers[k]) \in S
    BY <1>4
  <2> QED
    BY <1>3, <2>1, DeliveriesAre
<1> HIDE DEF n, after
<1> DEFINE waits(k, i) == after[k].state[i] = "pending"
           due(k, i) == s.state[i] = "pending" /\ \A j \in 1 .. k : answers[j].index # i
           T == {k \in 0 .. n : \A i \in Items : waits(k, i) <=> due(k, i)}
<1>6. 0 .. n \subseteq T
  <2>1. 0 \in T
    <3>1. \A i \in Items : waits(0, i) <=> due(0, i)
      BY <1>5
    <3> QED
      BY <1>1, <3>1
  <2>2. ASSUME NEW k \in 1 .. n, k - 1 \in T PROVE k \in T
    <3>1. k \in 0 .. n /\ k - 1 \in 0 .. n /\ after[k - 1] \in S /\ after[k] = OnResult(after[k - 1], answers[k])
      BY <1>1, <1>5
    <3>2. \A i \in Items : waits(k, i) <=> (waits(k - 1, i) /\ i # answers[k].index)
      <4>1. Answered(after[k], after[k - 1], answers[k].index)
        BY <1>4, <3>1
      <4> QED
        BY <4>1 DEF Answered
    <3>3. \A i \in Items : due(k, i) <=> (due(k - 1, i) /\ i # answers[k].index)
      <4>1. 1 .. k = (1 .. k - 1) \cup {k}
        BY <1>1
      <4> QED
        BY <4>1
    <3>4. \A i \in Items : waits(k - 1, i) <=> due(k - 1, i)
      BY <2>2
    <3>5. \A i \in Items : waits(k, i) <=> due(k, i)
      <4> HIDE DEF waits, due
      <4> QED
        BY <3>2, <3>3, <3>4
    <3> QED
      BY <3>1, <3>5
  <2> HIDE DEF T
  <2> QED
    BY <1>1, <2>1, <2>2, Upwards
<1>7. \A i \in Items : waits(n, i) <=> due(n, i)
  BY <1>1, <1>6
<1>8. Settled(after[n])
  BY <1>1, <1>5 DEF S
<1> QED
  BY <1>1, <1>7, <1>8 DEF n, after

-----------------------------------------------------------------------------
(* The invariant.                                                          *)

Busy == {busy[t] : t \in Threads} \ {None}
Done == {done[k].index : k \in DOMAIN done}
Now == [state |-> state, resident |-> resident]

\* The selection is an item and the viewport begins within the items.
Placed ==
  /\ Setup
  /\ LayoutOk(layout) /\ grid.selected < count /\ Scrolled(grid, layout, count)

Typed ==
  /\ queue \in Seq(Items)
  /\ busy \in [Threads -> Items \cup {None}]
  /\ done \in Seq(Results)

\* One job for each waiting tile, and none for any other.
Owned ==
  /\ Answerable([state |-> state, queue |-> queue], Busy \cup Done)
  /\ \A t, u \in Threads : busy[t] = busy[u] /\ busy[t] # None => t = u
  /\ \A j, k \in DOMAIN done : done[j].index = done[k].index => j = k
  /\ Busy \intersect Done = {}

\* The queue is in order for the ranges of now; before the pool starts there
\* is nothing.
Ordered ==
  /\ Started => priority = Ranges
  /\ ~Started => \A i \in Items : state[i] = "unloaded"
  /\ VisibleFirst

IInv ==
  /\ Placed /\ Typed /\ Owned /\ Ordered
  /\ visible_pending = Pending(state, Ranges)
  /\ Within(Now) /\ (Started => Settled(Now))

LEMMA NowFacts ==
  /\ Now.state = state /\ Now.resident = resident
  /\ [state |-> state, queue |-> queue].state = state
  /\ [state |-> state, queue |-> queue].queue = queue
BY DEF Now

LEMMA InvShown ==
  ASSUME IInv
  PROVE  Shown
<1>1. Setup /\ LayoutOk(layout) /\ Scrolled(grid, layout, count) /\ count \in Nat \ {0} /\ GridOk(grid)
  BY DEF IInv, Placed, Setup
<1>2. RangesOk(VisibleRanges(grid, layout, count), layout.flow, count)
  BY <1>1, RangesAreOk
<1> QED
  BY <1>1, <1>2 DEF Shown, Ranges, RangesOf

\* The window does not depend on the columns.
LEMMA KeptByFlow ==
  ASSUME NEW r, NEW l, NEW m, l.flow = m.flow
  PROVE  Kept(r, l) = Kept(r, m)
BY DEF Kept, Window, InWindow

-----------------------------------------------------------------------------
(* matuwall_worker_prioritize_thumbs.                                      *)

LEMMA ReorderFacts ==
  ASSUME count \in Nat, NEW s \in Asked, NEW taken, Answerable(s, taken), NEW r, Visible(r) # 0, NEW kept \in SUBSET Items
  PROVE  LET t == Reorder(s, r, kept)
         IN  /\ t \in Asked /\ Answerable(t, taken)
             /\ ToSet(t.queue) = ToSet(s.queue) \intersect kept
             /\ \A i \in kept : t.state[i] = s.state[i]
             /\ \A i \in Items : t.state[i] = s.state[i] \/ (s.state[i] = "pending" /\ t.state[i] = "unloaded")
             /\ \A j, k \in DOMAIN t.queue :
                  j < k /\ InVisibleRange(t.queue[k], r) => InVisibleRange(t.queue[j], r)
<1> DEFINE visible == {i \in kept : InVisibleRange(i, r)}
           withdrawn == {i \in ToSet(s.queue) \ kept : s.state[i] = "pending"}
           t == Reorder(s, r, kept)
           first == Only(s.queue, visible)
           second == Only(s.queue, kept \ visible)
<1>1. /\ t = [queue |-> first \o second,
              state |-> [i \in Items |-> IF i \in withdrawn THEN "unloaded" ELSE s.state[i]]]
  BY DEF Reorder
<1>2. s.state \in [Items -> States] /\ s.queue \in Seq(Items) /\ IsInjective(s.queue)
  BY DEF Asked, Answerable
<1>3. withdrawn = ToSet(s.queue) \ kept
  <2>1. ToSet(s.queue) \subseteq Items
    BY <1>2, ElementOfSeq, LenProperties DEF ToSet
  <2> QED
    BY <2>1 DEF Answerable
<1>4. /\ first \in Seq(Items) /\ ToSet(first) = ToSet(s.queue) \intersect visible /\ IsInjective(first)
  <2>1. \A i, j \in DOMAIN s.queue : s.queue[i] = s.queue[j] /\ s.queue[i] \in visible => i = j
    BY <1>2 DEF IsInjective
  <2> QED
    BY <1>2, <2>1, OnlyFacts
<1>5. /\ second \in Seq(Items) /\ ToSet(second) = ToSet(s.queue) \intersect (kept \ visible) /\ IsInjective(second)
  <2>1. \A i, j \in DOMAIN s.queue : s.queue[i] = s.queue[j] /\ s.queue[i] \in kept \ visible => i = j
    BY <1>2 DEF IsInjective
  <2> QED
    BY <1>2, <2>1, OnlyFacts
<1>6. /\ t.queue = first \o second
      /\ t.state = [i \in Items |-> IF i \in withdrawn THEN "unloaded" ELSE s.state[i]]
      /\ t = [state |-> t.state, queue |-> t.queue]
  BY <1>1
<1> HIDE DEF t, first, second
<1>7. /\ t.queue \in Seq(Items) /\ IsInjective(t.queue) /\ ToSet(t.queue) = ToSet(s.queue) \intersect kept
  <2>1. ToSet(first) \intersect ToSet(second) = {}
    BY <1>4, <1>5
  <2>2. ToSet(first) \cup ToSet(second) = ToSet(s.queue) \intersect kept
    BY <1>4, <1>5
  <2> HIDE DEF visible
  <2> QED
    BY <1>4, <1>5, <1>6, <2>1, <2>2, ConcatFacts
<1> HIDE DEF withdrawn
<1>8. \A i \in Items : t.state[i] = IF i \in withdrawn THEN "unloaded" ELSE s.state[i]
  BY <1>6
<1>9. t \in Asked
  <2>1. t.state \in [Items -> States]
    BY <1>2, <1>6 DEF States
  <2> QED
    BY <1>6, <1>7, <2>1 DEF Asked
<1>10. Answerable(t, taken)
  BY <1>3, <1>7, <1>8 DEF Answerable
<1>11. \A i \in Items : t.state[i] = s.state[i] \/ (s.state[i] = "pending" /\ t.state[i] = "unloaded")
  BY <1>8 DEF withdrawn
<1>12. \A i \in kept : t.state[i] = s.state[i]
  BY <1>3, <1>8
<1>13. ASSUME NEW j \in DOMAIN t.queue, NEW k \in DOMAIN t.queue, j < k, InVisibleRange(t.queue[k], r)
       PROVE  InVisibleRange(t.queue[j], r)
  <2>1. /\ DOMAIN t.queue = 1 .. Len(first) + Len(second) /\ Len(first) \in Nat /\ Len(second) \in Nat
        /\ DOMAIN first = 1 .. Len(first) /\ DOMAIN second = 1 .. Len(second)
        /\ \A i \in 1 .. Len(first) + Len(second) :
             t.queue[i] = IF i <= Len(first) THEN first[i] ELSE second[i - Len(first)]
    BY <1>4, <1>5, <1>6, <1>7, ConcatProperties, LenProperties
  <2>2. CASE j <= Len(first)
    <3>1. j \in DOMAIN first /\ t.queue[j] = first[j]
      BY <2>1, <2>2
    <3>2. first[j] \in visible
      BY <1>4, <3>1 DEF ToSet
    <3> QED
      BY <3>1, <3>2
  <2>3. CASE ~(j <= Len(first))
    <3>1. k - Len(first) \in DOMAIN second /\ t.queue[k] = second[k - Len(first)]
      BY <1>13, <2>1, <2>3
    <3>2. second[k - Len(first)] \notin visible /\ second[k - Len(first)] \in kept
      BY <1>5, <3>1 DEF ToSet
    <3> QED
      BY <1>13, <3>1, <3>2
  <2> QED
    BY <2>2, <2>3
<1> QED
  BY <1>7, <1>9, <1>10, <1>11, <1>12, <1>13 DEF t

-----------------------------------------------------------------------------
(* matuwall_app_thumbs_prioritize_visible.                                 *)

EvictedTo(r, l) == EvictOutside(Now, Kept(r, l))
AskedOf(r, l, refused) ==
  SubmitAll([state |-> EvictedTo(r, l).state, queue |-> queue], WantedOf(r, l), refused)
OrderedAs(r, l, refused) ==
  IF priority = r THEN AskedOf(r, l, refused) ELSE Reorder(AskedOf(r, l, refused), r, Kept(r, l))

LEMMA AskedFacts ==
  ASSUME IInv, NEW r, NEW l, RangesOk(r, l.flow, count), NEW refused
  PROVE  LET kept == Kept(r, l)
             evicted == EvictedTo(r, l)
             asked == AskedOf(r, l, refused)
         IN  /\ kept \in SUBSET Items
             /\ Within(evicted) /\ Ready(evicted.state) = Ready(state) \intersect kept
             /\ \A j \in Items : evicted.state[j] =
                  IF j \notin kept /\ state[j] = "ready" THEN "unloaded" ELSE state[j]
             /\ asked \in Asked /\ Answerable(asked, Busy \cup Done)
             /\ AskedIn(asked, [state |-> evicted.state, queue |-> queue], kept)
             /\ \A i \in kept : asked.state[i] # "unloaded"
<1> DEFINE kept == Kept(r, l)
           evicted == EvictedTo(r, l)
           asked == AskedOf(r, l, refused)
           before == [state |-> evicted.state, queue |-> queue]
           wanted == WantedOf(r, l)
<1>1. kept \in SUBSET Items
  BY DEF Kept, Window, Items
<1>2. Setup /\ Within(Now) /\ count \in Nat \ {0} /\ Shown
  BY InvShown DEF IInv, Placed, Setup
<1>3. /\ Within(evicted) /\ Ready(evicted.state) = Ready(state) \intersect kept
      /\ \A j \in Items : evicted.state[j] = IF j \notin kept /\ state[j] = "ready" THEN "unloaded" ELSE state[j]
  <2> HIDE DEF kept
  <2>1. evicted = EvictOutside(Now, kept)
    BY DEF EvictedTo, kept
  <2> HIDE DEF evicted
  <2> QED
    BY <1>1, <1>2, <2>1, EvictOutsideFacts, NowFacts
<1>4. before.state = evicted.state /\ before.queue = queue /\ before \in Asked
  BY <1>3 DEF IInv, Typed, Within, Stores, Asked
<1>5. wanted \in Seq(Nat) /\ ToSet(wanted) \subseteq kept \cup {count} /\ kept \subseteq ToSet(wanted)
  <2>1. slots \in Nat
    BY <1>2, ShownFacts
  <2>2. wanted = Wanted(r, l, count, slots) /\ kept = Window(r, l, count, slots)
    BY DEF WantedOf, Kept
  <2> HIDE DEF wanted, kept
  <2> QED
    BY <1>2, <2>1, <2>2, WantedFacts
<1>6. asked = SubmitAll(before, wanted, refused)
  BY DEF AskedOf
<1> HIDE DEF kept, evicted, asked, before, wanted
<1>7. Answerable(before, Busy \cup Done)
  BY <1>3, <1>4, NowFacts DEF IInv, Owned, Answerable
<1>8. /\ asked \in Asked /\ Answerable(asked, Busy \cup Done) /\ AskedIn(asked, before, kept)
      /\ \A i \in kept : asked.state[i] # "unloaded"
  BY <1>1, <1>2, <1>4, <1>5, <1>6, <1>7, SubmitAllFacts
<1> QED
  BY <1>1, <1>3, <1>8 DEF kept, evicted, asked, before

LEMMA OrderedFacts ==
  ASSUME IInv, NEW r, NEW l, RangesOk(r, l.flow, count), l.flow = layout.flow, NEW refused
  PROVE  LET kept == Kept(r, l)
             evicted == EvictedTo(r, l)
             asked == AskedOf(r, l, refused)
             ordered == OrderedAs(r, l, refused)
         IN  /\ ordered \in Asked /\ Answerable(ordered, Busy \cup Done)
             /\ Within(evicted) /\ Ready(ordered.state) = Ready(evicted.state) /\ Ready(ordered.state) \subseteq kept
             /\ \A i \in kept : ordered.state[i] # "unloaded" /\ ordered.state[i] = asked.state[i]
             /\ ToSet(ordered.queue) \subseteq kept
             /\ \A j, k \in DOMAIN ordered.queue :
                  j < k /\ InVisibleRange(ordered.queue[k], r) => InVisibleRange(ordered.queue[j], r)
<1> DEFINE kept == Kept(r, l)
           evicted == EvictedTo(r, l)
           asked == AskedOf(r, l, refused)
           ordered == OrderedAs(r, l, refused)
           before == [state |-> evicted.state, queue |-> queue]
<1>1. /\ kept \in SUBSET Items
      /\ Within(evicted) /\ Ready(evicted.state) = Ready(state) \intersect kept
      /\ \A j \in Items : evicted.state[j] = IF j \notin kept /\ state[j] = "ready" THEN "unloaded" ELSE state[j]
      /\ asked \in Asked /\ Answerable(asked, Busy \cup Done) /\ AskedIn(asked, before, kept)
      /\ \A i \in kept : asked.state[i] # "unloaded"
  BY AskedFacts
<1>2. before.state = evicted.state /\ before.queue = queue
  OBVIOUS
<1>3. /\ r.first \in Nat /\ r.end \in Nat /\ r.wrap_end \in Nat /\ r.first < r.end
      /\ count \in Nat \ {0} /\ Visible(r) \in Nat /\ Visible(r) # 0 /\ slots \in Nat
  <2>1. r.first \in Nat /\ r.end \in Nat /\ r.wrap_end \in Nat /\ r.first < r.end
    BY DEF RangesOk
  <2>2. count \in Nat \ {0} /\ slots \in Nat
    BY InvShown, ShownFacts DEF Shown, Setup
  <2> QED
    BY <2>1, <2>2 DEF Visible
<1>4. ordered = IF priority = r THEN asked ELSE Reorder(asked, r, kept)
  BY DEF OrderedAs
<1>5. kept = Window(r, l, count, slots)
  BY DEF Kept
<1>6. kept = Kept(r, layout)
  BY KeptByFlow
<1> HIDE DEF kept, evicted, asked, ordered, before
<1>7. Ready(asked.state) = Ready(evicted.state)
  BY <1>1, <1>2 DEF AskedIn, Ready
<1>8. CASE priority = r
  <2>1. ordered = asked
    BY <1>4, <1>8
  <2>2. Started /\ r = Ranges
    <3>1. priority # NoRanges
      BY <1>3, <1>8 DEF NoRanges, Interval, None
    <3> QED
      BY <1>8, <3>1 DEF Started, IInv, Ordered
  <2>3. /\ ToSet(queue) \subseteq kept
        /\ \A j, k \in DOMAIN queue : j < k /\ InVisibleRange(queue[k], r) => InVisibleRange(queue[j], r)
    BY <1>6, <2>2 DEF IInv, Ordered, VisibleFirst
  <2>4. ToSet(asked.queue) \subseteq kept
    BY <1>1, <1>2, <2>3 DEF AskedIn
  <2>5. ASSUME NEW j \in DOMAIN asked.queue, NEW k \in DOMAIN asked.queue, j < k, InVisibleRange(asked.queue[k], r)
        PROVE  InVisibleRange(asked.queue[j], r)
    <3>1. CASE Visible(r) <= slots
      <4>1. \A i \in kept : state[i] # "unloaded"
        BY <1>6, <2>2, <3>1, NowFacts DEF IInv, Settled
      <4>2. \A i \in kept : before.state[i] # "unloaded"
        BY <1>1, <1>2, <4>1
      <4>3. asked.queue = queue
        BY <1>1, <1>2, <4>2 DEF AskedIn
      <4> QED
        BY <2>3, <2>5, <4>3
    <3>2. CASE Visible(r) > slots
      <4>1. asked.queue[j] \in kept
        BY <2>4 DEF ToSet
      <4> DEFINE i == asked.queue[j]
      <4>2. i \in 0 .. count - 1 /\ i \in Window(r, l, count, slots)
        BY <1>1, <1>5, <4>1 DEF Items
      <4> HIDE DEF i
      <4>3. InVisibleRange(i, r)
        BY <1>3, <3>2, <4>2, VisibleInWindow
      <4> QED
        BY <4>3 DEF i
    <3> QED
      BY <1>3, <3>1, <3>2
  <2> QED
    BY <1>1, <1>7, <2>1, <2>4, <2>5 DEF kept, evicted, asked, ordered
<1>9. CASE priority # r
  <2>1. ordered = Reorder(asked, r, kept)
    BY <1>4, <1>9
  <2>2. /\ ordered \in Asked /\ Answerable(ordered, Busy \cup Done)
        /\ ToSet(ordered.queue) = ToSet(asked.queue) \intersect kept
        /\ \A i \in kept : ordered.state[i] = asked.state[i]
        /\ \A i \in Items : ordered.state[i] = asked.state[i]
                              \/ (asked.state[i] = "pending" /\ ordered.state[i] = "unloaded")
        /\ \A j, k \in DOMAIN ordered.queue :
             j < k /\ InVisibleRange(ordered.queue[k], r) => InVisibleRange(ordered.queue[j], r)
    BY <1>1, <1>3, <2>1, ReorderFacts
  <2>3. Ready(ordered.state) = Ready(asked.state)
    BY <2>2 DEF Ready
  <2> QED
    BY <1>1, <1>7, <2>2, <2>3 DEF kept, evicted, asked, ordered
<1> QED
  BY <1>8, <1>9

LEMMA PrioritizeKeeps ==
  ASSUME IInv, NEW g, GridOk(g), g.selected < count,
         NEW l, LayoutOk(l), l.flow = layout.flow, Scrolled(g, l, count),
         NEW refused, Prioritize(g, l, refused),
         grid' = g, layout' = l, count' = count, size' = size, busy' = busy, done' = done
  PROVE  IInv'
<1> DEFINE r == RangesOf(g, l)
           kept == Kept(r, l)
           evicted == EvictedTo(r, l)
           asked == AskedOf(r, l, refused)
           ordered == OrderedAs(r, l, refused)
<1>1. Setup /\ count \in Nat \ {0} /\ size \in Nat \ {0}
  BY DEF IInv, Placed, Setup
<1>2. RangesOk(r, l.flow, count)
  BY <1>1, RangesAreOk DEF RangesOf
<1>3. /\ resident' = evicted.resident /\ visible_pending' = Pending(asked.state, r)
      /\ state' = ordered.state /\ queue' = ordered.queue /\ priority' = r
  BY DEF Prioritize, EvictedTo, AskedOf, OrderedAs, Now
<1>4. /\ ordered \in Asked /\ Answerable(ordered, Busy \cup Done)
      /\ Within(evicted) /\ Ready(ordered.state) = Ready(evicted.state) /\ Ready(ordered.state) \subseteq kept
      /\ \A i \in kept : ordered.state[i] # "unloaded" /\ ordered.state[i] = asked.state[i]
      /\ ToSet(ordered.queue) \subseteq kept
      /\ \A j, k \in DOMAIN ordered.queue :
           j < k /\ InVisibleRange(ordered.queue[k], r) => InVisibleRange(ordered.queue[j], r)
  BY <1>2, OrderedFacts
<1>5. /\ Ranges' = r /\ Items' = Items /\ slots' = slots /\ Kept(Ranges, layout)' = kept
      /\ Busy' = Busy /\ Done' = Done /\ Now' = [state |-> ordered.state, resident |-> evicted.resident]
  BY <1>3 DEF Ranges, RangesOf, Items, slots, Kept, Busy, Done, Now
<1>6. Started'
  <2>1. r.first \in Nat
    BY <1>2 DEF RangesOk
  <2> HIDE DEF r
  <2> QED
    BY <1>3, <2>1 DEF Started, NoRanges, Interval, None
<1>7. slots \in Nat /\ kept = Window(r, l, count, slots)
  BY InvShown, ShownFacts DEF Kept
<1> HIDE DEF r, kept, evicted, asked, ordered
<1>8. Placed'
  BY <1>1 DEF Placed, Setup
<1>9. Typed'
  BY <1>3, <1>4, <1>5 DEF IInv, Typed, Asked, Results
<1>10. Owned'
  <2>1. Answerable([state |-> state, queue |-> queue], Busy \cup Done)'
    BY <1>3, <1>4, <1>5 DEF Answerable
  <2> QED
    BY <1>5, <2>1 DEF IInv, Owned
<1>11. Ordered'
  <2>1. VisibleFirst'
    BY <1>3, <1>4, <1>5 DEF VisibleFirst
  <2> QED
    BY <1>3, <1>5, <1>6, <2>1 DEF Ordered
<1>12. visible_pending' = Pending(state, Ranges)'
  <2>1. ASSUME NEW i \in Items PROVE InVisibleRange(i, r) => i \in kept
    <3>1. i \in 0 .. count - 1
      BY DEF Items
    <3> QED
      BY <1>1, <1>2, <1>7, <3>1, VisibleInWindow
  <2>2. {i \in Items : asked.state[i] = "pending" /\ InVisibleRange(i, r)}
          = {i \in Items : ordered.state[i] = "pending" /\ InVisibleRange(i, r)}
    BY <1>4, <2>1
  <2>3. Pending(asked.state, r) = Pending(ordered.state, r)
    BY <2>2 DEF Pending
  <2>4. Pending(state, Ranges)' = Pending(ordered.state, r)
    BY <1>3, <1>5 DEF Pending
  <2> QED
    BY <1>3, <2>3, <2>4
<1>13. Within(Now)'
  <2>1. ordered.state \in [Items -> States] /\ evicted.resident \in Nat
    BY <1>4 DEF Within, Stores, Asked
  <2>2. evicted.resident = size * Cardinality(Ready(ordered.state)) /\ evicted.resident <= MAX_RESIDENT_BYTES
    BY <1>4 DEF Within
  <2>3. Ready(Now.state)' = Ready(ordered.state)
    BY <1>5 DEF Ready
  <2>4. Stores' = Stores /\ (Now \in Stores)'
    BY <1>5, <2>1 DEF Stores
  <2>5. Now'.resident = evicted.resident
    BY <1>5
  <2> QED
    BY <2>2, <2>3, <2>4, <2>5 DEF Within
<1>14. Settled(Now)'
  <2>1. Ready(Now.state)' = Ready(ordered.state) /\ Now'.state = ordered.state
    BY <1>5 DEF Ready
  <2> QED
    BY <1>4, <1>5, <1>13, <2>1 DEF Settled
<1> QED
  BY <1>8, <1>9, <1>10, <1>11, <1>12, <1>13, <1>14 DEF IInv

-----------------------------------------------------------------------------
(* The steps.                                                              *)

LEMMA LayoutsAreOk ==
  ASSUME NEW flow \in Flows, NEW l \in Layouts(flow)
  PROVE  LayoutOk(l) /\ l.flow = flow
<1>1. 1 .. MaxColumns \subseteq Nat \ {0} /\ 1 .. MaxRows \subseteq Nat \ {0} /\ {1} \subseteq Nat \ {0}
  BY LayoutAssumption
<1>2. l.flow = flow /\ l.columns \in {1} \cup 1 .. MaxColumns /\ l.rows \in {1} \cup 1 .. MaxRows
  BY DEF Layouts
<1> QED
  BY <1>1, <1>2 DEF LayoutOk

LEMMA InitInv == ASSUME Init PROVE IInv
<1>1. count \in Nat \ {0} /\ size \in Nat \ {0}
  BY CountsAssumption, SizesAssumption DEF Init
<1>2. PICK flow \in LayoutFlows : layout \in Layouts(flow)
  BY DEF Init
<1>3. LayoutOk(layout)
  BY <1>2, LayoutsAreOk, LayoutAssumption
<1>4. GridOk(grid) /\ grid.selected < count /\ Scrolled(grid, layout, count)
  <2> DEFINE top == [selected |-> 0, cursor |-> 0, first_row |-> 0]
  <2>1. PICK i \in Items : grid = GridSelect(top, layout, count, i, i)
    BY DEF Init
  <2>2. GridOk(top) /\ i \in 0 .. count - 1 /\ i \in Int
    BY <1>1 DEF GridOk, Items
  <2> HIDE DEF top
  <2> QED
    BY <1>1, <1>3, <2>1, <2>2, SelectKeeps
<1>5. Placed
  BY <1>1, <1>3, <1>4 DEF Placed, Setup
<1>6. /\ state = [i \in Items |-> "unloaded"] /\ resident = 0 /\ visible_pending = 0 /\ priority = NoRanges
      /\ queue = <<>> /\ busy = [t \in Threads |-> None] /\ done = <<>>
  BY DEF Init
<1>7. Typed
  BY <1>6 DEF Typed
<1>8. ToSet(queue) = {} /\ Busy = {} /\ Done = {} /\ DOMAIN queue = {} /\ DOMAIN done = {}
  BY <1>6 DEF ToSet, Busy, Done
<1>9. Owned
  <2>1. \A i \in Items : state[i] # "pending"
    BY <1>6
  <2>2. Answerable([state |-> state, queue |-> queue], Busy \cup Done)
    BY <1>8, <2>1 DEF Answerable, IsInjective
  <2> QED
    BY <1>6, <1>8, <2>2 DEF Owned
<1>10. Ordered
  BY <1>6 DEF Ordered, VisibleFirst, Started
<1>11. visible_pending = Pending(state, Ranges)
  <2>1. {i \in Items : state[i] = "pending" /\ InVisibleRange(i, Ranges)} = {}
    BY <1>6
  <2> QED
    BY <1>6, <2>1, FS_EmptySet DEF Pending
<1>12. Within(Now)
  <2>1. Ready(state) = {}
    BY <1>6 DEF Ready
  <2>2. Cardinality(Ready(state)) = 0
    BY <2>1, FS_EmptySet
  <2>3. size * 0 = 0 /\ 0 <= MAX_RESIDENT_BYTES
    BY <1>1, SizesAssumption
  <2>4. Now \in Stores
    BY <1>6 DEF Now, Stores, States
  <2> QED
    BY <1>6, <2>2, <2>3, <2>4, NowFacts DEF Within
<1>13. ~Started
  BY <1>6 DEF Started
<1> QED
  BY <1>5, <1>7, <1>9, <1>10, <1>11, <1>12, <1>13 DEF IInv

\* What a step of the pool leaves alone.
LEMMA Untouched ==
  ASSUME IInv, UNCHANGED <<view, store>>
  PROVE  /\ Placed' /\ visible_pending' = Pending(state, Ranges)'
         /\ Within(Now)' /\ (Started' => Settled(Now)')
         /\ Items' = Items /\ Ranges' = Ranges /\ Kept(Ranges, layout)' = Kept(Ranges, layout)
         /\ (Started' => priority' = Ranges') /\ (~Started' => \A i \in Items' : state'[i] = "unloaded")
         /\ Started' = Started /\ state' = state
<1>1. /\ count' = count /\ layout' = layout /\ grid' = grid /\ size' = size
      /\ state' = state /\ resident' = resident /\ visible_pending' = visible_pending /\ priority' = priority
  BY DEF view, store
<1>2. /\ Items' = Items /\ Ranges' = Ranges /\ slots' = slots /\ Kept(Ranges, layout)' = Kept(Ranges, layout)
      /\ Now' = Now /\ Started' = Started
  BY <1>1 DEF Items, Ranges, RangesOf, slots, Kept, Now, Started
<1>3. Placed'
  BY <1>1 DEF IInv, Placed, Setup
<1>4. visible_pending' = Pending(state, Ranges)'
  BY <1>1, <1>2 DEF IInv, Pending
<1>5. Within(Now)'
  BY <1>1, <1>2 DEF IInv, Within, Stores, Ready
<1>6. Started' => Settled(Now)'
  BY <1>1, <1>2, <1>5 DEF IInv, Settled, Ready
<1> QED
  BY <1>1, <1>2, <1>3, <1>4, <1>5, <1>6 DEF IInv, Ordered

LEMMA StutterKeeps == ASSUME IInv, UNCHANGED vars PROVE IInv'
<1>1. UNCHANGED <<view, store>> /\ queue' = queue /\ busy' = busy /\ done' = done
  BY DEF vars, pool
<1>2. Typed'
  BY <1>1, Untouched DEF IInv, Typed, Results
<1>3. Busy' = Busy /\ Done' = Done
  BY <1>1 DEF Busy, Done
<1>4. Owned'
  BY <1>1, <1>3, Untouched DEF IInv, Owned, Answerable
<1>5. Ordered'
  BY <1>1, Untouched DEF IInv, Ordered, VisibleFirst
<1> QED
  BY <1>1, <1>2, <1>4, <1>5, Untouched DEF IInv

LEMMA TakeKeeps ==
  ASSUME IInv, NEW t \in Threads, Take(t)
  PROVE  IInv'
<1> DEFINE h == Head(queue)
<1>1. /\ busy[t] = None /\ queue # <<>> /\ busy' = [busy EXCEPT ![t] = h] /\ queue' = Tail(queue)
      /\ UNCHANGED <<view, store>> /\ done' = done
  BY DEF Take
<1>2. /\ queue \in Seq(Items) /\ busy \in [Threads -> Items \cup {None}] /\ done \in Seq(Results) /\ IsInjective(queue)
  BY NowFacts DEF IInv, Typed, Owned, Answerable
<1>3. /\ h \in ToSet(queue) /\ queue' \in Seq(Items) /\ IsInjective(queue') /\ ToSet(queue') = ToSet(queue) \ {h}
  BY <1>1, <1>2, HeadFacts
<1>4. h \in Items /\ h # None
  <2>1. h \in Items
    BY <1>1, <1>2, HeadTailProperties
  <2> QED
    BY <2>1 DEF Items, None
<1> HIDE DEF h
<1>5. \A u \in Threads : busy'[u] = IF u = t THEN h ELSE busy[u]
  BY <1>1, <1>2
<1>6. Busy' = Busy \cup {h} /\ Done' = Done
  <2>1. Done' = Done
    BY <1>1 DEF Done
  <2>2. Busy' = {busy'[u] : u \in Threads} \ {None}
    BY DEF Busy
  <2>3. Busy' = Busy \cup {h}
    BY <1>1, <1>4, <1>5, <2>2 DEF Busy
  <2> QED
    BY <2>1, <2>3
<1>7. Typed'
  <2>1. busy' \in [Threads -> Items \cup {None}]
    BY <1>1, <1>2, <1>4
  <2> QED
    BY <1>1, <1>2, <1>3, <2>1, Untouched DEF Typed, Results
<1>8. h \notin Busy /\ h \notin Done
  BY <1>3, NowFacts DEF IInv, Owned, Answerable
<1>9. Owned'
  <2>1. Answerable([state |-> state, queue |-> queue], Busy \cup Done)'
    <3>1. ToSet(queue') \intersect (Busy' \cup Done') = {}
      BY <1>3, <1>6, NowFacts DEF IInv, Owned, Answerable
    <3>2. \A i \in Items : state[i] = "pending" <=> i \in ToSet(queue) \cup Busy \cup Done
      BY NowFacts DEF IInv, Owned, Answerable
    <3>3. ToSet(queue') \cup Busy' \cup Done' = ToSet(queue) \cup Busy \cup Done
      BY <1>3, <1>6
    <3>4. \A i \in Items' : state'[i] = "pending" <=> i \in ToSet(queue') \cup Busy' \cup Done'
      BY <1>1, <3>2, <3>3, Untouched
    <3> QED
      BY <1>3, <3>1, <3>4 DEF Answerable
  <2>2. ASSUME NEW u \in Threads, NEW v \in Threads, busy'[u] = busy'[v], busy'[u] # None PROVE u = v
    <3>1. \A w \in Threads : busy[w] # None => busy[w] \in Busy
      BY DEF Busy
    <3>2. \A w \in Threads : busy[w] # h
      BY <1>4, <1>8, <3>1
    <3>3. busy[u] = busy[v] /\ busy[u] # None => u = v
      BY DEF IInv, Owned
    <3> QED
      BY <1>5, <2>2, <3>2, <3>3
  <2>3. \A j, k \in DOMAIN done : done[j].index = done[k].index => j = k
    BY DEF IInv, Owned
  <2>4. Busy' \intersect Done' = {}
    BY <1>6, <1>8 DEF IInv, Owned
  <2> QED
    BY <1>1, <2>1, <2>2, <2>3, <2>4 DEF Owned
<1>10. VisibleFirst'
  <2> SUFFICES ASSUME Started'
               PROVE  /\ ToSet(queue') \subseteq Kept(Ranges, layout)
                      /\ \A j, k \in DOMAIN queue' :
                           j < k /\ InVisibleRange(queue'[k], Ranges) => InVisibleRange(queue'[j], Ranges)
    BY <1>1, Untouched DEF VisibleFirst
  <2>1. /\ ToSet(queue) \subseteq Kept(Ranges, layout)
        /\ \A j, k \in DOMAIN queue : j < k /\ InVisibleRange(queue[k], Ranges) => InVisibleRange(queue[j], Ranges)
    BY <1>1, Untouched DEF IInv, Ordered, VisibleFirst
  <2>2. ASSUME NEW j \in DOMAIN queue', NEW k \in DOMAIN queue', j < k, InVisibleRange(queue'[k], Ranges)
        PROVE  InVisibleRange(queue'[j], Ranges)
    <3>1. /\ DOMAIN queue = 1 .. Len(queue) /\ Len(queue) \in Nat /\ Len(queue) > 0
          /\ DOMAIN queue' = 1 .. Len(queue) - 1
          /\ \A i \in 1 .. Len(queue) - 1 : queue'[i] = queue[i + 1]
      BY <1>1, <1>2, HeadTailProperties, LenProperties, EmptySeq
    <3>2. j + 1 \in DOMAIN queue /\ k + 1 \in DOMAIN queue /\ j + 1 < k + 1
      BY <2>2, <3>1
    <3>3. queue'[j] = queue[j + 1] /\ queue'[k] = queue[k + 1]
      BY <3>1
    <3> QED
      BY <2>1, <2>2, <3>2, <3>3
  <2> QED
    BY <1>3, <2>1, <2>2
<1> QED
  BY <1>1, <1>7, <1>9, <1>10, Untouched DEF IInv, Ordered

LEMMA PublishKeeps ==
  ASSUME IInv, NEW t \in Threads, Publish(t)
  PROVE  IInv'
<1> DEFINE b == busy[t]
<1>1. /\ b # None /\ busy' = [busy EXCEPT ![t] = None] /\ queue' = queue
      /\ UNCHANGED <<view, store>>
  BY DEF Publish
<1>2. /\ queue \in Seq(Items) /\ busy \in [Threads -> Items \cup {None}] /\ done \in Seq(Results)
  BY DEF IInv, Typed
<1>3. b \in Items
  BY <1>1, <1>2
<1>4. PICK ok \in BOOLEAN : done' = Append(done, [index |-> b, ok |-> ok])
  BY DEF Publish
<1>5. /\ \A u \in Threads : busy'[u] = IF u = t THEN None ELSE busy[u]
      /\ \A u, v \in Threads : busy[u] = busy[v] /\ busy[u] # None => u = v
  BY <1>1, <1>2 DEF IInv, Owned
<1>6. b \in Busy
  BY <1>1 DEF Busy
<1> DEFINE result == [index |-> b, ok |-> ok]
<1>7. result \in Results /\ result.index = b
  BY <1>3 DEF Results
<1>8. /\ Len(done) \in Nat /\ DOMAIN done = 1 .. Len(done)
      /\ done' \in Seq(Results) /\ DOMAIN done' = 1 .. Len(done) + 1
      /\ done'[Len(done) + 1].index = b /\ \A k \in 1 .. Len(done) : done'[k] = done[k]
  <2> HIDE DEF result
  <2>1. done' = Append(done, result)
    BY <1>4 DEF result
  <2> QED
    BY <1>2, <1>7, <2>1, AppendProperties, LenProperties
<1> HIDE DEF b, result
<1>9. Busy' = Busy \ {b}
  <2>1. Busy' = {busy'[u] : u \in Threads} \ {None}
    BY DEF Busy
  <2>2. \A u \in Threads : busy[u] = b => u = t
    BY <1>1, <1>5 DEF b
  <2>3. busy[t] = b
    BY DEF b
  <2> QED
    BY <1>5, <2>1, <2>2, <2>3 DEF Busy
<1>10. Done' = Done \cup {b}
  <2>1. ASSUME NEW i \in Done' PROVE i \in Done \cup {b}
    <3>1. PICK k \in 1 .. Len(done) + 1 : i = done'[k].index
      BY <1>8 DEF Done
    <3>2. k \in 1 .. Len(done) \/ k = Len(done) + 1
      BY <1>8
    <3> QED
      BY <1>8, <3>1, <3>2 DEF Done
  <2>2. ASSUME NEW i \in Done PROVE i \in Done'
    <3>1. PICK k \in 1 .. Len(done) : i = done[k].index
      BY <1>8 DEF Done
    <3>2. k \in DOMAIN done' /\ done'[k].index = i
      BY <1>8, <3>1
    <3> QED
      BY <3>2 DEF Done
  <2>3. b \in Done'
    <3>1. Len(done) + 1 \in DOMAIN done'
      BY <1>8
    <3> QED
      BY <1>8, <3>1 DEF Done
  <2> QED
    BY <2>1, <2>2, <2>3
<1>11. Typed'
  <2>1. busy' \in [Threads -> Items \cup {None}]
    BY <1>1, <1>2
  <2> QED
    BY <1>1, <1>2, <1>8, <2>1, Untouched DEF Typed, Results
<1>12. Owned'
  <2>1. Busy' \cup Done' = Busy \cup Done
    BY <1>6, <1>9, <1>10
  <2>2. Answerable([state |-> state, queue |-> queue], Busy \cup Done)'
    BY <1>1, <2>1, Untouched DEF IInv, Owned, Answerable
  <2>3. \A u, v \in Threads : busy'[u] = busy'[v] /\ busy'[u] # None => u = v
    BY <1>5
  <2>4. Busy' \intersect Done' = {} /\ b \notin Done
    BY <1>6, <1>9, <1>10 DEF IInv, Owned
  <2>5. ASSUME NEW j \in DOMAIN done', NEW k \in DOMAIN done', done'[j].index = done'[k].index PROVE j = k
    <3>1. \A i \in 1 .. Len(done) : done[i].index # b
      BY <1>8, <2>4 DEF Done
    <3>2. \A i \in 1 .. Len(done), m \in 1 .. Len(done) : done[i].index = done[m].index => i = m
      BY <1>8 DEF IInv, Owned
    <3>3. (j \in 1 .. Len(done) \/ j = Len(done) + 1) /\ (k \in 1 .. Len(done) \/ k = Len(done) + 1)
      BY <1>8
    <3> QED
      BY <1>8, <2>5, <3>1, <3>2, <3>3
  <2> QED
    BY <2>2, <2>3, <2>4, <2>5 DEF Owned
<1>13. VisibleFirst'
  BY <1>1, Untouched DEF IInv, Ordered, VisibleFirst
<1> QED
  BY <1>1, <1>11, <1>12, <1>13, Untouched DEF IInv, Ordered

LEMMA DrainKeeps == ASSUME IInv, Drain PROVE IInv'
<1> DEFINE t == Deliveries(Now, done)[Len(done)]
<1>1. /\ done # <<>> /\ state' = t.state /\ resident' = t.resident
      /\ visible_pending' = Pending(t.state, Ranges) /\ done' = <<>>
      /\ UNCHANGED <<view, priority, queue, busy>>
  BY DEF Drain, Now
<1>2. /\ count' = count /\ layout' = layout /\ grid' = grid /\ size' = size
      /\ priority' = priority /\ queue' = queue /\ busy' = busy
  BY <1>1 DEF view
<1>3. /\ queue \in Seq(Items) /\ busy \in [Threads -> Items \cup {None}] /\ done \in Seq(Results) /\ Shown
  BY InvShown DEF IInv, Typed
<1>4. Started
  <2>1. 1 \in DOMAIN done /\ done[1] \in Results
    BY <1>1, <1>3, LenProperties, EmptySeq, ElementOfSeq
  <2>2. done[1].index \in Items /\ done[1].index \in Done
    BY <2>1 DEF Done, Results
  <2>3. state[done[1].index] = "pending"
    BY <2>2, NowFacts DEF IInv, Owned, Answerable
  <2> QED
    BY <2>2, <2>3 DEF IInv, Ordered
<1>5. /\ Settled(t)
      /\ \A i \in Items : t.state[i] = "pending" <=>
           (state[i] = "pending" /\ \A j \in DOMAIN done : done[j].index # i)
  <2> DEFINE s == Now
  <2>1. Settled(s) /\ s.state = state
    BY <1>4, NowFacts DEF IInv
  <2> HIDE DEF s
  <2>2. LET u == Deliveries(s, done)[Len(done)]
        IN  /\ Settled(u)
            /\ \A i \in Items : u.state[i] = "pending" <=>
                 (s.state[i] = "pending" /\ \A j \in DOMAIN done : done[j].index # i)
    BY <1>3, <2>1, DeliveriesFacts
  <2> QED
    BY <2>1, <2>2 DEF s
<1> HIDE DEF t
<1>6. t \in Stores /\ t.state \in [Items -> States] /\ t.resident \in Nat
  BY <1>5 DEF Settled, Within, Stores
<1>7. /\ Items' = Items /\ Ranges' = Ranges /\ slots' = slots /\ Kept(Ranges, layout)' = Kept(Ranges, layout)
      /\ Started' = Started /\ Now' = [state |-> t.state, resident |-> t.resident]
  BY <1>1, <1>2 DEF Items, Ranges, RangesOf, slots, Kept, Now, Started
<1>8. Placed'
  BY <1>2 DEF IInv, Placed, Setup
<1>9. Typed'
  <2>1. <<>> \in Seq(Results)
    OBVIOUS
  <2> QED
    BY <1>1, <1>2, <1>3, <1>7, <2>1 DEF Typed, Results
<1>10. Busy' = Busy /\ Done' = {} /\ DOMAIN done' = {}
  BY <1>1, <1>2 DEF Busy, Done
<1>11. Owned'
  <2>1. \A i \in Items : t.state[i] = "pending" <=> i \in ToSet(queue) \cup Busy
    <3>1. ASSUME NEW i \in Items PROVE t.state[i] = "pending" <=> i \in ToSet(queue) \cup Busy
      <4>1. state[i] = "pending" <=> i \in ToSet(queue) \cup Busy \cup Done
        BY NowFacts DEF IInv, Owned, Answerable
      <4>2. (\A j \in DOMAIN done : done[j].index # i) <=> i \notin Done
        BY DEF Done
      <4>3. ToSet(queue) \intersect Done = {} /\ Busy \intersect Done = {}
        BY NowFacts DEF IInv, Owned, Answerable
      <4> QED
        BY <1>5, <4>1, <4>2, <4>3
    <3> QED
      BY <3>1
  <2>2. IsInjective(queue) /\ ToSet(queue) \intersect (Busy \cup Done) = {}
    BY NowFacts DEF IInv, Owned, Answerable
  <2>3. Answerable([state |-> state, queue |-> queue], Busy \cup Done)'
    BY <1>1, <1>2, <1>7, <1>10, <2>1, <2>2 DEF Answerable
  <2> QED
    BY <1>2, <1>10, <2>3 DEF IInv, Owned
<1>12. Ordered'
  BY <1>2, <1>4, <1>7 DEF IInv, Ordered, VisibleFirst
<1>13. visible_pending' = Pending(state, Ranges)'
  BY <1>1, <1>7 DEF Pending
<1>14. Settled(Now)'
  <2>1. Ready(Now.state)' = Ready(t.state) /\ Now'.state = t.state /\ Now'.resident = t.resident
    BY <1>7 DEF Ready
  <2>2. Within(Now)'
    <3>1. Stores' = Stores /\ Now' \in Stores
      BY <1>6, <1>7 DEF Stores
    <3> QED
      BY <1>2, <1>5, <2>1, <3>1 DEF Settled, Within
  <2> QED
    BY <1>5, <1>7, <2>1, <2>2 DEF Settled
<1>15. Within(Now)'
  BY <1>14 DEF Settled
<1> QED
  BY <1>8, <1>9, <1>11, <1>12, <1>13, <1>14, <1>15 DEF IInv

LEMMA StartKeeps == ASSUME IInv, Start PROVE IInv'
<1>1. PICK refused \in Refusals : Prioritize(grid, layout, refused)
  BY DEF Start
<1>2. grid' = grid /\ layout' = layout /\ count' = count /\ size' = size /\ busy' = busy /\ done' = done
  BY DEF Start, view
<1>3. GridOk(grid) /\ grid.selected < count /\ LayoutOk(layout) /\ Scrolled(grid, layout, count)
  BY DEF IInv, Placed, Setup
<1> QED
  BY <1>1, <1>2, <1>3, PrioritizeKeeps

LEMMA SelectionKeeps ==
  ASSUME IInv, NEW g \in Keyed \cup Hovered, Selection(g)
  PROVE  IInv'
<1>1. grid' = g /\ layout' = layout /\ count' = count /\ size' = size /\ busy' = busy /\ done' = done
  BY DEF Selection
<1>2. GridOk(grid) /\ grid.selected < count /\ LayoutOk(layout) /\ count \in Nat \ {0}
  BY DEF IInv, Placed, Setup
<1>3. CASE g = grid
  <2>1. UNCHANGED vars
    BY <1>1, <1>3 DEF Selection, vars, view, pool
  <2> QED
    BY <2>1, StutterKeeps
<1>4. CASE g # grid
  <2>1. PICK refused \in Refusals : Prioritize(g, layout, refused)
    BY <1>4 DEF Selection
  <2>2. GridOk(g) /\ g.selected < count /\ Scrolled(g, layout, count)
    <3>1. CASE g \in Keyed
      <4>1. PICK move \in Moves : g = GridMove(grid, layout, count, move)
        BY <3>1 DEF Keyed
      <4> QED
        BY <1>2, <4>1, MoveKeeps
    <3>2. CASE g \in Hovered
      <4>1. PICK slot \in (IF layout.flow = "grid" THEN Items ELSE MinSlot .. MaxSlot) :
              g = GridSelect(grid, layout, count,
                             IF layout.flow = "grid" THEN slot ELSE CarouselIndex(slot, count), slot)
        BY <3>2 DEF Hovered
      <4> DEFINE index == IF layout.flow = "grid" THEN slot ELSE CarouselIndex(slot, count)
      <4>2. slot \in Int
        BY <1>2, <4>1, SlotAssumption DEF Items
      <4>3. index \in 0 .. count - 1
        BY <1>2, <4>1, <4>2, CarouselIndexType DEF Items
      <4>4. g = GridSelect(grid, layout, count, index, slot)
        BY <4>1
      <4> HIDE DEF index
      <4> QED
        BY <1>2, <4>2, <4>3, <4>4, SelectKeeps
    <3> QED
      BY <3>1, <3>2
  <2> QED
    BY <1>1, <1>2, <2>1, <2>2, PrioritizeKeeps
<1> QED
  BY <1>3, <1>4

LEMMA RefreshKeeps == ASSUME IInv, Refresh PROVE IInv'
<1>1. PICK l \in Layouts(layout.flow), refused \in Refusals :
        /\ layout' = l /\ grid' = ScrollIntoView(grid, l, count)
        /\ Prioritize(ScrollIntoView(grid, l, count), l, refused)
  BY DEF Refresh
<1>2. count' = count /\ size' = size /\ busy' = busy /\ done' = done
  BY DEF Refresh
<1>3. GridOk(grid) /\ grid.selected < count /\ layout.flow \in Flows /\ count \in Nat \ {0}
  BY DEF IInv, Placed, Setup, LayoutOk
<1>4. LayoutOk(l) /\ l.flow = layout.flow
  BY <1>1, <1>3, LayoutsAreOk
<1> DEFINE g == ScrollIntoView(grid, l, count)
<1>5. GridOk(g) /\ g.selected < count /\ Scrolled(g, l, count)
  BY <1>3, <1>4, ScrollKeeps
<1> HIDE DEF g
<1>6. grid' = g /\ Prioritize(g, l, refused)
  BY <1>1 DEF g
<1> QED
  BY <1>1, <1>2, <1>4, <1>5, <1>6, PrioritizeKeeps

LEMMA InvHolds == Spec => []IInv
<1>1. Init => IInv
  BY InitInv
<1>2. IInv /\ [Next]_vars => IInv'
  <2> SUFFICES ASSUME IInv, [Next]_vars PROVE IInv'
    OBVIOUS
  <2>1. CASE Start
    BY <2>1, StartKeeps
  <2>2. ASSUME NEW g \in Keyed \cup Hovered, Selection(g) PROVE IInv'
    BY <2>2, SelectionKeeps
  <2>3. CASE Refresh
    BY <2>3, RefreshKeeps
  <2>4. CASE Drain
    BY <2>4, DrainKeeps
  <2>5. ASSUME NEW t \in Threads, Take(t) PROVE IInv'
    BY <2>5, TakeKeeps
  <2>6. ASSUME NEW t \in Threads, Publish(t) PROVE IInv'
    BY <2>6, PublishKeeps
  <2>7. CASE UNCHANGED vars
    BY <2>7, StutterKeeps
  <2> QED
    BY <2>1, <2>2, <2>3, <2>4, <2>5, <2>6, <2>7 DEF Next
<1> QED
  BY <1>1, <1>2, PTL DEF Spec

-----------------------------------------------------------------------------
(* What follows.                                                           *)

LEMMA AtMostOne ==
  ASSUME NEW S, \A a, b \in S : a = b
  PROVE  Cardinality(S) = IF S = {} THEN 0 ELSE 1
<1>1. CASE S = {}
  BY <1>1, FS_EmptySet
<1>2. CASE S # {}
  <2>1. PICK a \in S : TRUE
    BY <1>2
  <2>2. S = {a}
    BY <2>1
  <2> QED
    BY <1>2, <2>2, FS_Singleton
<1> QED
  BY <1>1, <1>2

(* Any folder, any memory limit, any number of workers: every waiting tile *)
(* has exactly one job, and the spinner counts those on screen.            *)
THEOREM OneJob == Spec => []OneJobPerTile
<1>1. IInv => OneJobPerTile
  <2> SUFFICES ASSUME IInv PROVE OneJobPerTile
    OBVIOUS
  <2>1. ASSUME NEW i \in Items
        PROVE  Cardinality({k \in DOMAIN queue : queue[k] = i})
                 + Cardinality({t \in Threads : busy[t] = i})
                 + Cardinality({k \in DOMAIN done : done[k].index = i})
               = IF state[i] = "pending" THEN 1 ELSE 0
    <3> DEFINE Q == {k \in DOMAIN queue : queue[k] = i}
               B == {t \in Threads : busy[t] = i}
               D == {k \in DOMAIN done : done[k].index = i}
    <3>1. i # None
      BY DEF IInv, Placed, Setup, Items, None
    <3>2. \A a, b \in Q : a = b
      BY NowFacts DEF IInv, Owned, Answerable, IsInjective
    <3>3. \A a, b \in B : a = b
      BY <3>1 DEF IInv, Owned
    <3>4. \A a, b \in D : a = b
      BY DEF IInv, Owned
    <3>5. (Q # {} <=> i \in ToSet(queue)) /\ (B # {} <=> i \in Busy) /\ (D # {} <=> i \in Done)
      BY <3>1 DEF ToSet, Busy, Done
    <3>6. /\ state[i] = "pending" <=> i \in ToSet(queue) \cup Busy \cup Done
          /\ ToSet(queue) \intersect Busy = {} /\ ToSet(queue) \intersect Done = {} /\ Busy \intersect Done = {}
      BY NowFacts DEF IInv, Owned, Answerable
    <3> HIDE DEF Q, B, D
    <3>7. /\ Cardinality(Q) = IF i \in ToSet(queue) THEN 1 ELSE 0
          /\ Cardinality(B) = IF i \in Busy THEN 1 ELSE 0
          /\ Cardinality(D) = IF i \in Done THEN 1 ELSE 0
      BY <3>2, <3>3, <3>4, <3>5, AtMostOne
    <3>8. Cardinality(Q) + Cardinality(B) + Cardinality(D) = IF state[i] = "pending" THEN 1 ELSE 0
      BY <3>6, <3>7
    <3> QED
      BY <3>8 DEF Q, B, D
  <2> QED
    BY <2>1 DEF OneJobPerTile, IInv
<1> QED
  BY <1>1, InvHolds, PTL

(* The resident bytes stay within the limit and belong to tiles of the     *)
(* window, and the window has no hole that there is room to fill.          *)
THEOREM NothingForgotten == Spec => []WindowFilled
<1>1. IInv => WindowFilled
  <2> SUFFICES ASSUME IInv PROVE WindowFilled
    OBVIOUS
  <2>1. {i \in Items : state[i] = "ready"} = Ready(state)
    BY DEF Ready
  <2>2. ResidentBounded
    BY <2>1, NowFacts DEF IInv, Within, Settled, ResidentBounded
  <2>3. NoHoles
    BY NowFacts DEF IInv, Settled, NoHoles
  <2> QED
    BY <2>2, <2>3 DEF WindowFilled
<1> QED
  BY <1>1, InvHolds, PTL

(* The queue holds nothing outside the window, and what is on screen goes  *)
(* first, however the user moves between two reorderings.                  *)
THEOREM ServesScreen == Spec => []VisibleFirst
<1>1. IInv => VisibleFirst
  BY DEF IInv, Ordered
<1> QED
  BY <1>1, InvHolds, PTL

-----------------------------------------------------------------------------
(***************************************************************************)
(* The preview.                                                            *)
(***************************************************************************)

\* One iteration of the loop is drain, tick and render on such a state.
Previews ==
  [image : Images \cup {Absent}, shown : Wallpapers \cup {Absent}, wanted : Wallpapers,
   in_flight : Wallpapers \cup {Absent}, due : {"none", "wait", "now"}, enabled : BOOLEAN]
Layers ==
  [target : Targets, frame_callback : BOOLEAN, needs_repaint : BOOLEAN, closed : BOOLEAN]
Iterations ==
  [preview : Previews, layer : Layers, surface : Images \cup {Absent}, queued : Seq(Images),
   running : [Workers -> Job \cup {Absent}]]

\* The decode in flight is queued, running or among the answers.
Expected(s, answers) ==
  s.preview.in_flight # Absent =>
    \/ \E k \in DOMAIN s.queued : s.queued[k].index = s.preview.in_flight
    \/ \E t \in Workers : s.running[t] # Absent /\ s.running[t].index = s.preview.in_flight
                          /\ ~s.running[t].cancelled
    \/ \E r \in answers : r.index = s.preview.in_flight /\ ~r.told

\* What is taken for shown is on the surface or about to be.
ShownExists(p, onSurface) ==
  p.enabled /\ p.shown # Absent =>
    \/ p.image # Absent /\ p.image.index = p.shown
    \/ p.image = Absent /\ onSurface # Absent /\ onSurface.index = p.shown

\* Nothing is waited for once the preview is disabled.
Silent(p) == ~p.enabled => p.in_flight = Absent

\* Who runs the preview to cancel does run one, and a decode that was told is cancelled.
JobsFit(jobs) ==
  /\ newest \in Workers \cup {Absent}
  /\ newest # Absent => jobs[newest] # Absent
  /\ \A t \in Workers : jobs[t] # Absent /\ jobs[t].told => jobs[t].cancelled

Sound(s) ==
  /\ s \in Iterations /\ Len(s.queued) <= 1
  /\ ShownExists(s.preview, s.surface) /\ Silent(s.preview) /\ JobsFit(s.running)

At == [preview |-> preview, layer |-> layer, surface |-> surface, queued |-> queued,
       running |-> running]

Delivered == {results[k] : k \in DOMAIN results}

\* The inductive invariant.
PreviewInv == PreviewOk /\ Sound(At) /\ Expected(At, Delivered)

LEMMA PreviewInitInv == PreviewInit => PreviewInv
<1> SUFFICES ASSUME PreviewInit PROVE PreviewInv
  OBVIOUS
<1>1. preview \in Previews /\ preview.in_flight = Absent /\ preview.shown = Absent /\ preview.enabled
  BY DEF PreviewInit, Previews
<1>2. layer \in Layers /\ surface = Absent
  BY DEF PreviewInit, Layers
<1>3. /\ queued = <<>> /\ results = <<>> /\ newest = Absent
      /\ queued \in Seq(Images) /\ results \in Seq(Job) /\ Len(queued) = 0
  BY DEF PreviewInit
<1>4. running \in [Workers -> Job \cup {Absent}] /\ \A t \in Workers : running[t] = Absent
  BY DEF PreviewInit
<1>5. PreviewOk
  BY <1>1, <1>2, <1>3, <1>4 DEF PreviewOk, Previews, Layers
<1>6. Sound(At)
  BY <1>1, <1>2, <1>3, <1>4 DEF Sound, At, Iterations, ShownExists, Silent, JobsFit
<1>7. Expected(At, Delivered)
  BY <1>1 DEF Expected, At
<1> QED
  BY <1>5, <1>6, <1>7 DEF PreviewInv

-----------------------------------------------------------------------------
(* One iteration.                                                          *)

\* A result answers for its decode; a late one for another leaves it waited for.
LEMMA ResultKeeps ==
  ASSUME NEW s, Sound(s), NEW r \in Job, NEW answers
  PROVE  LET t == PreviewResult(s, r)
         IN  /\ Sound(t)
             /\ Expected(s, answers \cup {r}) => Expected(t, answers)
<1> DEFINE t == PreviewResult(s, r)
           p == s.preview
           q == IF r.index = p.in_flight THEN [p EXCEPT !.in_flight = Absent] ELSE p
           arrives == ~r.told /\ p.enabled /\ r.ok /\ r.index = p.wanted
           next == IF r.told \/ ~p.enabled THEN p
                   ELSE IF arrives
                   THEN [q EXCEPT !.image = [index |-> r.index, target |-> r.target],
                                  !.shown = r.index]
                   ELSE q
<1>1. s \in Iterations /\ p \in Previews /\ s.layer \in Layers /\ s.surface \in Images \cup {Absent}
  BY DEF Sound, Iterations
<1>2. /\ r.index \in Wallpapers /\ r.target \in Targets
      /\ r.told \in BOOLEAN /\ r.ok \in BOOLEAN
  BY DEF Job
<1>3. q \in Previews /\ q.image = p.image /\ q.shown = p.shown /\ q.enabled = p.enabled
      /\ q.wanted = p.wanted
      /\ q.in_flight = IF r.index = p.in_flight THEN Absent ELSE p.in_flight
  BY <1>1 DEF Previews
<1>4. /\ t = IF arrives THEN [s EXCEPT !.preview = next, !.layer.needs_repaint = TRUE]
             ELSE [s EXCEPT !.preview = next]
  BY <1>1, <1>2 DEF PreviewResult, Iterations, Previews
<1>5. /\ t \in [preview : {next}, layer : Layers, surface : {s.surface}, queued : {s.queued},
                running : {s.running}]
  <2> HIDE DEF next, arrives, t
  <2>1. CASE arrives
    <3> DEFINE l == [s.layer EXCEPT !.needs_repaint = TRUE]
    <3>1. l \in Layers
      BY <1>1 DEF Layers
    <3>2. t = [s EXCEPT !.preview = next, !.layer = l]
      BY <1>4, <2>1
    <3> HIDE DEF l
    <3> QED
      BY <1>1, <3>1, <3>2 DEF Iterations
  <2>2. CASE ~arrives
    BY <1>1, <1>4, <2>2 DEF Iterations
  <2> QED
    BY <2>1, <2>2
<1> DEFINE pic == [index |-> r.index, target |-> r.target]
<1>6. pic \in Images /\ pic.index = r.index /\ pic # Absent
  BY <1>2, AbsentAssumption DEF Images
<1>7. /\ next \in Previews
      /\ next.in_flight = IF ~r.told /\ p.enabled /\ r.index = p.in_flight THEN Absent ELSE p.in_flight
      /\ next.enabled = p.enabled
      /\ next.image = IF arrives THEN pic ELSE p.image
      /\ next.shown = IF arrives THEN r.index ELSE p.shown
  <2>1. CASE r.told \/ ~p.enabled
    BY <1>1, <2>1
  <2>2. CASE ~(r.told \/ ~p.enabled) /\ arrives
    <3>1. next = [q EXCEPT !.image = pic, !.shown = r.index]
      BY <2>2
    <3> HIDE DEF next, q, pic
    <3> QED
      BY <1>2, <1>3, <1>6, <2>2, <3>1 DEF Previews
  <2>3. CASE ~(r.told \/ ~p.enabled) /\ ~arrives
    <3>1. next = q
      BY <2>3
    <3> HIDE DEF next, q
    <3> QED
      BY <1>3, <2>3, <3>1
  <2> QED
    BY <2>1, <2>2, <2>3
<1>8. ShownExists(next, s.surface)
  <2>1. ShownExists(p, s.surface)
    BY DEF Sound
  <2> HIDE DEF next, pic, p, arrives
  <2> QED
    BY <1>6, <1>7, <2>1 DEF ShownExists
<1>9. Silent(next)
  <2>1. Silent(p)
    BY DEF Sound
  <2> HIDE DEF next, p
  <2> QED
    BY <1>7, <2>1 DEF Silent
<1>10. Sound(t)
  <2> HIDE DEF next, t
  <2> QED
    BY <1>5, <1>7, <1>8, <1>9 DEF Sound, Iterations
<1>11. ASSUME Expected(s, answers \cup {r}) PROVE Expected(t, answers)
  <2>1. SUFFICES ASSUME next.in_flight # Absent
                 PROVE  Expected(t, answers)
    BY <1>5 DEF Expected
  <2>2. next.in_flight = p.in_flight /\ (r.told \/ ~p.enabled \/ r.index # p.in_flight)
    BY <1>7, <2>1
  <2>3. p.enabled
    BY <2>1, <2>2, <1>7, <1>9 DEF Silent
  <2> HIDE DEF next, t
  <2> QED
    BY <1>5, <1>11, <2>1, <2>2, <2>3 DEF Expected
<1> QED
  BY <1>10, <1>11

ResultsFrom(f, s, answers) ==
  f = [k \in 0 .. Len(answers) |-> IF k = 0 THEN s ELSE PreviewResult(f[k - 1], answers[k])]

LEMMA ResultsAre ==
  ASSUME NEW S, NEW s \in S, NEW answers \in Seq(Job),
         \A k \in 1 .. Len(answers), t \in S : PreviewResult(t, answers[k]) \in S
  PROVE  /\ PreviewResults(s, answers)[0] = s
         /\ \A k \in 1 .. Len(answers) :
              PreviewResults(s, answers)[k] = PreviewResult(PreviewResults(s, answers)[k - 1], answers[k])
<1> DEFINE n == Len(answers)
           step == [p \in (1 .. n) \X S |-> PreviewResult(p[2], answers[p[1]])]
           after == PreviewResults(s, answers)
<1>1. n \in Nat
  BY LenProperties
<1>2. \A k \in 1 .. n, t \in S : step[<<k, t>>] = PreviewResult(t, answers[k])
  OBVIOUS
<1>3. \A k \in 1 .. n, t \in S : step[<<k, t>>] \in S
  BY <1>2
<1> HIDE DEF step
<1>4. PICK f \in [0 .. n -> S] : IsLoop(f, n, s, step)
  <2> HIDE DEF n
  <2> QED
    BY <1>1, <1>3, LoopExists
<1>5. \A k \in 0 .. n : (IF k = 0 THEN s ELSE step[<<k, f[k - 1]>>]) =
                        (IF k = 0 THEN s ELSE PreviewResult(f[k - 1], answers[k]))
  <2> SUFFICES ASSUME NEW k \in 0 .. n, k # 0
               PROVE  step[<<k, f[k - 1]>>] = PreviewResult(f[k - 1], answers[k])
    OBVIOUS
  <2>1. k \in 1 .. n /\ k - 1 \in 0 .. n
    BY <1>1
  <2> QED
    BY <1>2, <1>4, <2>1
<1>6. ResultsFrom(f, s, answers)
  BY <1>4, <1>5 DEF ResultsFrom, IsLoop
<1>7. ResultsFrom(after, s, answers)
  <2>1. after = CHOOSE g : ResultsFrom(g, s, answers)
    BY DEF PreviewResults, ResultsFrom
  <2> HIDE DEF after
  <2> QED
    BY <1>6, <2>1
<1> HIDE DEF after
<1>8. after = [k \in 0 .. n |-> IF k = 0 THEN s ELSE PreviewResult(after[k - 1], answers[k])]
  BY <1>7 DEF ResultsFrom
<1>9. 0 \in 0 .. n /\ \A k \in 1 .. n : k \in 0 .. n /\ k # 0
  BY <1>1
<1>10. after[0] = s /\ \A k \in 1 .. n : after[k] = PreviewResult(after[k - 1], answers[k])
  <2> HIDE DEF n
  <2> QED
    BY <1>8, <1>9
<1> QED
  BY <1>10 DEF after

\* When all have been delivered, nothing is waited for that has answered.
LEMMA AnswersKeep ==
  ASSUME PreviewInv
  PROVE  Sound(Drained) /\ Expected(Drained, {})
<1> DEFINE n == Len(results)
           S == {s \in Iterations : Sound(s)}
           after == PreviewResults(At, results)
           left(k) == {results[j] : j \in k + 1 .. n}
           T == {k \in 0 .. n : after[k] \in S /\ Expected(after[k], left(k))}
<1>1. results \in Seq(Job) /\ n \in Nat /\ DOMAIN results = 1 .. n
  BY LenProperties DEF PreviewInv, PreviewOk
<1>2. \A k \in 1 .. n : results[k] \in Job
  BY <1>1, ElementOfSeq
<1>3. At \in S
  BY DEF PreviewInv, Sound
<1>4. \A k \in 1 .. n, s \in S : PreviewResult(s, results[k]) \in S
  <2> SUFFICES ASSUME NEW k \in 1 .. n, NEW s \in S PROVE PreviewResult(s, results[k]) \in S
    OBVIOUS
  <2>1. Sound(PreviewResult(s, results[k]))
    BY <1>2, ResultKeeps
  <2> QED
    BY <2>1 DEF Sound
<1>5. after[0] = At /\ \A k \in 1 .. n : after[k] = PreviewResult(after[k - 1], results[k])
  <2> HIDE DEF S
  <2> QED
    BY <1>1, <1>3, <1>4, ResultsAre
<1> HIDE DEF after
<1>6. 0 \in T
  <2>1. left(0) = Delivered
    BY <1>1 DEF Delivered
  <2>2. Expected(after[0], left(0))
    BY <1>5, <2>1 DEF PreviewInv
  <2> HIDE DEF left
  <2> QED
    BY <1>1, <1>3, <1>5, <2>2
<1>7. ASSUME NEW k \in 1 .. n, k - 1 \in T PROVE k \in T
  <2>1. left(k - 1) = left(k) \cup {results[k]}
    <3>1. k + 1 .. n \subseteq k .. n /\ \A j \in k .. n : j = k \/ j \in k + 1 .. n
      BY <1>1
    <3>2. k \in k .. n /\ k - 1 + 1 = k
      BY <1>1
    <3> QED
      BY <3>1, <3>2
  <2>2. Sound(after[k - 1]) /\ Expected(after[k - 1], left(k) \cup {results[k]})
    BY <1>7, <2>1
  <2>3. Sound(after[k]) /\ Expected(after[k], left(k))
    <3> HIDE DEF left
    <3> QED
      BY <1>2, <1>5, <2>2, ResultKeeps
  <2>4. after[k] \in S
    BY <2>3 DEF Sound
  <2> QED
    BY <2>3, <2>4, <1>1
<1>8. n \in T
  <2>1. n \in 0 .. n
    BY <1>1
  <2> HIDE DEF T, n
  <2> QED
    BY <1>1, <1>6, <1>7, <2>1, Upwards
<1>9. left(n) = {}
  BY <1>1
<1>10. Drained = after[n]
  BY DEF Drained, At, after
<1> QED
  BY <1>8, <1>9, <1>10

LEMMA EmptyQueue == \E q \in Seq(Images) : q = <<>> /\ Len(q) <= 1
<1>1. <<>> \in Seq(Images) /\ Len(<<>>) <= 1
  OBVIOUS
<1> DEFINE q == <<>>
<1>2. q \in Seq(Images) /\ q = <<>> /\ Len(q) <= 1
  BY <1>1
<1> HIDE DEF q
<1> QED
  BY <1>2

\* A cancel reaches the newest job and leaves everything else alone.
LEMMA CancelRunningKeeps ==
  ASSUME NEW s, Sound(s)
  PROVE  /\ Sound(CancelRunning(s))
         /\ \E jobs : CancelRunning(s) = [s EXCEPT !.running = jobs]
<1> DEFINE cancelled == [s.running[newest] EXCEPT !.cancelled = TRUE]
           jobs == IF newest = Absent THEN s.running
                   ELSE [s.running EXCEPT ![newest] = cancelled]
           t == [s EXCEPT !.running = jobs]
<1>1. s \in Iterations /\ s.running \in [Workers -> Job \cup {Absent}]
      /\ newest \in Workers \cup {Absent} /\ JobsFit(s.running)
  BY DEF Sound, Iterations, JobsFit
<1>2. ASSUME newest # Absent
      PROVE  cancelled \in Job /\ cancelled # Absent /\ cancelled.cancelled /\ newest \in Workers
  <2>1. s.running[newest] \in Job /\ newest \in Workers
    BY <1>1, <1>2 DEF JobsFit
  <2>2. cancelled \in Job /\ cancelled.cancelled = TRUE
    BY <2>1 DEF Job
  <2> QED
    BY <2>1, <2>2, AbsentAssumption
<1>3. jobs \in [Workers -> Job \cup {Absent}] /\ JobsFit(jobs)
  <2> HIDE DEF cancelled
  <2> QED
    BY <1>1, <1>2 DEF JobsFit
<1>4. CancelRunning(s) = t
  BY <1>1 DEF CancelRunning, Iterations
<1>5. Sound(t)
  <2> HIDE DEF jobs
  <2>1. t \in Iterations /\ t.queued = s.queued /\ t.preview = s.preview /\ t.surface = s.surface
        /\ t.running = jobs
    BY <1>1, <1>3 DEF Iterations
  <2> HIDE DEF t
  <2> QED
    BY <1>3, <2>1 DEF Sound
<1> HIDE DEF jobs
<1> QED
  BY <1>4, <1>5

Cancelled(s, q) == [CancelRunning(s) EXCEPT !.queued = q]

LEMMA CancelKeeps ==
  ASSUME NEW s, Sound(s), NEW q \in Seq(Images), Len(q) <= 1,
         NEW t, t = Cancelled(s, q)
  PROVE  /\ Sound(t) /\ t.queued = q
         /\ t.preview = s.preview /\ t.layer = s.layer /\ t.surface = s.surface
<1>1. PICK jobs : CancelRunning(s) = [s EXCEPT !.running = jobs]
  BY CancelRunningKeeps
<1> DEFINE c == CancelRunning(s)
<1>2. Sound(c)
  BY CancelRunningKeeps
<1>3. c.preview = s.preview /\ c.layer = s.layer /\ c.surface = s.surface
  BY <1>1 DEF Sound, Iterations
<1>0. t = [c EXCEPT !.queued = q]
  BY DEF Cancelled
<1> HIDE DEF c
<1>4. t \in Iterations /\ t.queued = q /\ t.preview = c.preview /\ t.layer = c.layer
      /\ t.surface = c.surface /\ t.running = c.running
  BY <1>0, <1>2 DEF Sound, Iterations
<1>5. Sound(t)
  BY <1>2, <1>4 DEF Sound
<1> QED
  BY <1>3, <1>4, <1>5

\* A preview that waits for nothing more is sound where the old one was.
LEMMA PreviewChanges ==
  ASSUME NEW s, Sound(s), NEW p \in Previews, ShownExists(p, s.surface), Silent(p)
  PROVE  LET t == [s EXCEPT !.preview = p]
         IN  /\ Sound(t) /\ t.preview = p
             /\ t.layer = s.layer /\ t.queued = s.queued /\ t.running = s.running
             /\ t.surface = s.surface
             /\ (p.in_flight \in {Absent, s.preview.in_flight} /\ Expected(s, {}) => Expected(t, {}))
<1> DEFINE t == [s EXCEPT !.preview = p]
<1>1. t \in Iterations /\ t.preview = p /\ t.layer = s.layer /\ t.queued = s.queued
      /\ t.running = s.running /\ t.surface = s.surface
  BY DEF Sound, Iterations
<1> HIDE DEF t
<1>2. Sound(t)
  BY <1>1 DEF Sound
<1>3. ASSUME p.in_flight \in {Absent, s.preview.in_flight}, Expected(s, {}) PROVE Expected(t, {})
  BY <1>1, <1>3 DEF Expected
<1> QED
  BY <1>1, <1>2, <1>3 DEF t

\* The tick waits for what it submits, and for nothing it has cancelled.
LEMMA TickKeeps ==
  ASSUME NEW s, Sound(s), Expected(s, {}), NEW refused \in BOOLEAN
  PROVE  Sound(Ticked(s, refused)) /\ Expected(Ticked(s, refused), {})
<1> DEFINE p == s.preview
           none == [p EXCEPT !.due = "none"]
           wait == [none EXCEPT !.due = "wait"]
           t == [s EXCEPT !.preview.due = "none"]
<1>1. s \in Iterations /\ p \in Previews /\ ShownExists(p, s.surface) /\ Silent(p)
      /\ s.layer \in Layers
  BY DEF Sound, Iterations
<1>2. /\ none \in Previews /\ ShownExists(none, s.surface) /\ Silent(none)
      /\ none.in_flight = p.in_flight /\ none.wanted = p.wanted /\ none.enabled = p.enabled
  BY <1>1 DEF Previews, ShownExists, Silent
<1>3. /\ wait \in Previews /\ ShownExists(wait, s.surface) /\ Silent(wait)
      /\ wait.in_flight = p.in_flight
  <2> HIDE DEF none
  <2> QED
    BY <1>2 DEF Previews, ShownExists, Silent
<1>4. t = [s EXCEPT !.preview = none]
  OBVIOUS
<1>5. /\ Sound(t) /\ Expected(t, {}) /\ t.preview = none /\ t.layer = s.layer
      /\ t.surface = s.surface
  <2> HIDE DEF none, t, p
  <2> QED
    BY <1>2, <1>4, PreviewChanges DEF p
<1>6. CASE Submits(p) /\ refused
  <2>1. Ticked(s, refused) = [t EXCEPT !.preview = wait]
    <3>1. Ticked(s, refused) = [t EXCEPT !.preview.due = "wait"]
      BY <1>6 DEF Ticked, Submit
    <3> HIDE DEF none, t
    <3> QED
      BY <1>5, <3>1
  <2> HIDE DEF wait, none, t
  <2> QED
    BY <1>2, <1>3, <1>5, <2>1, PreviewChanges
<1>7. CASE Submits(p) /\ ~refused
  <2> DEFINE job == [index |-> p.wanted, target |-> s.layer.target]
             c == [CancelRunning(t) EXCEPT !.queued = <<job>>]
             asked == [none EXCEPT !.in_flight = p.wanted]
  <2>1. job \in Images /\ <<job>> \in Seq(Images) /\ Len(<<job>>) = 1
    BY <1>1 DEF Images, Previews, Layers
  <2>2. Sound(c) /\ c.queued = <<job>> /\ c.preview = none /\ c.surface = s.surface
    <3>1. PICK q \in Seq(Images) : q = <<job>> /\ Len(q) <= 1
      <4> DEFINE q == <<job>>
      <4>1. q \in Seq(Images) /\ q = <<job>> /\ Len(q) <= 1
        BY <2>1
      <4> HIDE DEF q, job
      <4> QED
        BY <4>1
    <3>2. c = Cancelled(t, q)
      BY <3>1 DEF Cancelled
    <3>3. Len(q) <= 1
      BY <3>1
    <3>4. Sound(c) /\ c.queued = q /\ c.preview = t.preview /\ c.surface = t.surface
      <4> HIDE DEF t, job, none, c
      <4> QED
        BY <1>5, <3>2, <3>3, CancelKeeps
    <3> HIDE DEF t, job, none, c
    <3> QED
      BY <1>5, <3>1, <3>4
  <2>3. asked \in Previews /\ ShownExists(asked, c.surface) /\ Silent(asked)
        /\ asked.in_flight = p.wanted
    <3>1. p.enabled /\ p.wanted \in Wallpapers
      BY <1>1, <1>7 DEF Submits, IsDue, Previews
    <3>2. ShownExists(none, c.surface)
      BY <1>2, <2>2
    <3> HIDE DEF none, c, p
    <3> QED
      BY <1>2, <3>1, <3>2 DEF Previews, ShownExists, Silent
  <2>4. Ticked(s, refused) = [c EXCEPT !.preview = asked]
    <3>1. SubmitPreview(t, job) = c
      <4>1. <<job>> \o <<>> = <<job>>
        BY <2>1, ConcatEmptySeq
      <4> QED
        BY <4>1 DEF SubmitPreview, DropQueuedPreviews
    <3>2. Ticked(s, refused) = [SubmitPreview(t, job) EXCEPT !.preview.in_flight = p.wanted]
      <4>1. none.wanted = p.wanted /\ t.preview = none /\ t.layer = s.layer
        BY <1>2, <1>5
      <4>2. Ticked(s, refused) = Submit(t, refused)
        BY <1>7 DEF Ticked
      <4> HIDE DEF none, t, p
      <4> QED
        BY <1>7, <4>1, <4>2 DEF Submit
    <3> HIDE DEF c, t, none, job
    <3> QED
      BY <2>2, <3>1, <3>2
  <2>5. Sound(Ticked(s, refused))
        /\ Ticked(s, refused).preview = asked /\ Ticked(s, refused).queued = <<job>>
    <3> HIDE DEF c, asked, job
    <3> QED
      BY <2>2, <2>3, <2>4, PreviewChanges
  <2>6. Expected(Ticked(s, refused), {})
    <3>1. <<job>>[1].index = p.wanted /\ 1 \in DOMAIN <<job>>
      BY DEF job
    <3> HIDE DEF asked, job
    <3> QED
      BY <2>3, <2>5, <3>1 DEF Expected
  <2> QED
    BY <2>5, <2>6
<1>8. CASE ~Submits(p) /\ IsDue(p) /\ p.wanted = p.shown /\ p.in_flight \notin {p.wanted, Absent}
  <2> DEFINE c == [CancelRunning(t) EXCEPT !.queued = <<>>]
             idle == [none EXCEPT !.in_flight = Absent]
  <2>1. Sound(c) /\ c.preview = none /\ c.surface = s.surface
    <3>1. PICK q \in Seq(Images) : q = <<>> /\ Len(q) <= 1
      BY EmptyQueue
    <3>2. c = Cancelled(t, q)
      BY <3>1 DEF Cancelled
    <3>3. Len(q) <= 1
      BY <3>1
    <3> HIDE DEF t, none, c
    <3> QED
      BY <1>5, <3>2, <3>3, CancelKeeps
  <2>2. idle \in Previews /\ ShownExists(idle, c.surface) /\ Silent(idle) /\ idle.in_flight = Absent
    <3>1. ShownExists(none, c.surface)
      BY <1>2, <2>1
    <3> HIDE DEF none, c
    <3> QED
      BY <1>2, <3>1 DEF Previews, ShownExists, Silent
  <2>3. Ticked(s, refused) = [c EXCEPT !.preview = idle]
    <3>1. Ticked(s, refused) = [CancelPreview(t) EXCEPT !.preview.in_flight = Absent]
      BY <1>8 DEF Ticked
    <3>2. CancelPreview(t) = c
      BY DEF CancelPreview, DropQueuedPreviews
    <3> HIDE DEF c, t, none
    <3> QED
      BY <2>1, <3>1, <3>2
  <2>4. Sound(Ticked(s, refused)) /\ Ticked(s, refused).preview = idle
    <3> HIDE DEF c, idle
    <3> QED
      BY <2>1, <2>2, <2>3, PreviewChanges
  <2> QED
    BY <2>2, <2>4 DEF Expected
<1>9. CASE ~Submits(p) /\ ~(IsDue(p) /\ p.wanted = p.shown /\ p.in_flight \notin {p.wanted, Absent})
  <2>1. Ticked(s, refused) \in {s, t}
    BY <1>9 DEF Ticked
  <2> QED
    BY <1>5, <2>1
<1> QED
  BY <1>6, <1>7, <1>8, <1>9

LEMMA DisableKeeps ==
  ASSUME NEW s, Sound(s)
  PROVE  Sound(Disable(s)) /\ Expected(Disable(s), {})
<1> DEFINE p == s.preview
           t == IF p.in_flight = Absent THEN s ELSE CancelPreview(s)
           off == [p EXCEPT !.in_flight = Absent, !.due = "none", !.image = Absent, !.enabled = FALSE]
<1>1. Sound(t) /\ t.preview = p
  <2>1. PICK q \in Seq(Images) : q = <<>> /\ Len(q) <= 1
    BY EmptyQueue
  <2>2. CancelPreview(s) = Cancelled(s, q)
    BY <2>1 DEF CancelPreview, DropQueuedPreviews, Cancelled
  <2>3. Len(q) <= 1
    BY <2>1
  <2>4. Sound(CancelPreview(s)) /\ CancelPreview(s).preview = p
    BY <2>2, <2>3, CancelKeeps
  <2> QED
    BY <2>4
<1>2. off \in Previews /\ ShownExists(off, t.surface) /\ Silent(off) /\ off.in_flight = Absent
  <2>1. p \in Previews
    BY DEF Sound, Iterations
  <2> QED
    BY <2>1 DEF Previews, ShownExists, Silent
<1>3. Disable(s) = [t EXCEPT !.preview = off]
  <2>1. Disable(s) = [t EXCEPT !.preview.in_flight = Absent, !.preview.due = "none",
                               !.preview.image = Absent, !.preview.enabled = FALSE]
    BY DEF Disable
  <2>2. t \in Iterations
    BY <1>1 DEF Sound
  <2> HIDE DEF t
  <2> QED
    BY <1>1, <2>1, <2>2 DEF Iterations
<1>4. Sound(Disable(s)) /\ Disable(s).preview = off
  <2> HIDE DEF off, t
  <2> QED
    BY <1>1, <1>2, <1>3, PreviewChanges
<1> QED
  BY <1>2, <1>4 DEF Expected

\* What is committed is on the surface, what is dropped is no longer taken for shown.
LEMMA RenderKeeps ==
  ASSUME NEW s, Sound(s), Expected(s, {}), NEW failed \in BOOLEAN
  PROVE  Sound(Rendered(s, failed)) /\ Expected(Rendered(s, failed), {})
<1> DEFINE p == s.preview
           image == p.image
           fits == image # Absent /\ image.target = s.layer.target
           r == Rendered(s, failed)
<1>1. s \in Iterations /\ p \in Previews /\ s.layer \in Layers /\ ShownExists(p, s.surface) /\ Silent(p)
      /\ s.surface \in Images \cup {Absent}
  BY DEF Sound, Iterations
<1>2. CASE r \in {s, Disable(s)}
  BY <1>2, DisableKeeps
<1>3. CASE r = [s EXCEPT !.preview = Stale(p), !.layer.needs_repaint = FALSE] /\ ~fits
  <2>1. /\ Stale(p) \in Previews /\ Stale(p).in_flight = p.in_flight /\ Stale(p).enabled = p.enabled
        /\ Stale(p).shown = Absent
    BY <1>1 DEF Stale, Previews
  <2>2. ShownExists(Stale(p), s.surface) /\ Silent(Stale(p))
    BY <1>1, <2>1 DEF ShownExists, Silent
  <2> DEFINE l == [s.layer EXCEPT !.needs_repaint = FALSE]
  <2>3. l \in Layers
    BY <1>1 DEF Layers
  <2>4. r = [s EXCEPT !.preview = Stale(p), !.layer = l]
    BY <1>3
  <2> HIDE DEF r, l
  <2>5. r \in Iterations /\ r.preview = Stale(p) /\ r.surface = s.surface /\ r.queued = s.queued
        /\ r.running = s.running
    BY <1>1, <2>1, <2>3, <2>4 DEF Iterations
  <2>6. Sound(r)
    BY <2>2, <2>5 DEF Sound
  <2>7. Expected(r, {})
    BY <2>1, <2>5 DEF Expected
  <2> QED
    BY <2>6, <2>7 DEF r
<1>4. CASE r = [s EXCEPT !.surface = image, !.preview.image = Absent,
                         !.layer.frame_callback = TRUE, !.layer.needs_repaint = FALSE] /\ fits
  <2> DEFINE l == [s.layer EXCEPT !.frame_callback = TRUE, !.needs_repaint = FALSE]
             q == [p EXCEPT !.image = Absent]
  <2>1. l \in Layers
    BY <1>1 DEF Layers
  <2>2. q \in Previews /\ q.in_flight = p.in_flight /\ q.enabled = p.enabled /\ q.shown = p.shown
        /\ q.image = Absent
    BY <1>1 DEF Previews
  <2>3. image \in Images /\ image # Absent
    BY <1>1, <1>4 DEF Previews
  <2>4. ShownExists(q, image) /\ Silent(q)
    BY <1>1, <2>2, <2>3 DEF ShownExists, Silent
  <2>5. r = [s EXCEPT !.surface = image, !.preview = q, !.layer = l]
    BY <1>1, <1>4 DEF Iterations
  <2> HIDE DEF r, l, q
  <2>6. r \in Iterations /\ r.preview = q /\ r.surface = image /\ r.queued = s.queued
        /\ r.running = s.running
    BY <1>1, <2>1, <2>2, <2>3, <2>5 DEF Iterations
  <2>7. Sound(r)
    BY <2>4, <2>6 DEF Sound
  <2>8. Expected(r, {})
    BY <2>2, <2>6 DEF Expected
  <2> QED
    BY <2>7, <2>8 DEF r
<1> QED
  BY <1>2, <1>3, <1>4 DEF Rendered

LEMMA IterateKeeps == PreviewInv /\ Iterate => PreviewInv'
<1> SUFFICES ASSUME PreviewInv, Iterate PROVE PreviewInv'
  OBVIOUS
<1>1. PICK refused \in BOOLEAN, failed \in BOOLEAN :
        LET end == Rendered(Ticked(Drained, refused), failed)
        IN  /\ preview' = end.preview /\ layer' = end.layer /\ surface' = end.surface
            /\ queued' = end.queued /\ running' = end.running
            /\ results' = <<>> /\ newest' = newest
  BY DEF Iterate
<1> DEFINE end == Rendered(Ticked(Drained, refused), failed)
<1>2. Sound(end) /\ Expected(end, {})
  BY AnswersKeep, TickKeeps, RenderKeeps
<1>3. end \in Iterations /\ Len(end.queued) <= 1
  BY <1>2 DEF Sound
<1>4. /\ preview' \in Previews /\ layer' \in Layers /\ surface' \in Images \cup {Absent}
      /\ queued' \in Seq(Images) /\ Len(queued') <= 1
      /\ running' \in [Workers -> Job \cup {Absent}]
  <2> HIDE DEF Previews, Layers
  <2> QED
    BY <1>1, <1>3 DEF Iterations
<1>5. results' \in Seq(Job) /\ DOMAIN results' = {}
  BY <1>1
<1>6. Sound(At)'
  <2>1. At' \in Iterations
    BY <1>4 DEF At, Iterations
  <2>2. ShownExists(preview', surface') /\ Silent(preview')
    BY <1>1, <1>2 DEF Sound
  <2>3. JobsFit(running)'
    BY <1>1, <1>2 DEF Sound, JobsFit
  <2> QED
    BY <1>4, <2>1, <2>2, <2>3 DEF Sound, At, ShownExists, Silent, JobsFit
<1>7. Expected(At, Delivered)'
  BY <1>1, <1>2 DEF Expected, At
<1>8. PreviewOk'
  <2>1. newest' \in Workers \cup {Absent}
    BY <1>6 DEF Sound, JobsFit
  <2> QED
    BY <1>4, <1>5, <2>1 DEF PreviewOk, Previews, Layers
<1> QED
  BY <1>6, <1>7, <1>8 DEF PreviewInv, Delivered

\* Events leave the pool alone, and what is waited for and shown.
LEMMA EventKeeps ==
  ASSUME PreviewInv, UNCHANGED <<surface, jobsOf>>,
         preview' \in Previews, layer' \in Layers,
         preview'.image = preview.image, preview'.shown = preview.shown,
         preview'.in_flight = preview.in_flight, preview'.enabled = preview.enabled
  PROVE  PreviewInv'
<1>1. PreviewOk'
  BY DEF PreviewInv, PreviewOk, Previews, Layers, jobsOf
<1>2. At' \in Iterations
  BY <1>1 DEF At, Iterations, PreviewOk, Previews, Layers
<1>3. /\ ShownExists(preview', surface') /\ Silent(preview') /\ JobsFit(running)'
      /\ Len(queued') <= 1
  BY DEF PreviewInv, Sound, At, ShownExists, Silent, JobsFit, jobsOf
<1>4. Sound(At)'
  BY <1>2, <1>3 DEF Sound, At, ShownExists, Silent, JobsFit
<1>5. Expected(At, Delivered)'
  BY DEF PreviewInv, Expected, At, Delivered, jobsOf
<1> QED
  BY <1>1, <1>4, <1>5 DEF PreviewInv, Delivered

\* A worker changes the pool only.
LEMMA WorkerKeeps ==
  ASSUME PreviewInv, Outside,
         queued' \in Seq(Images), Len(queued') <= 1,
         running' \in [Workers -> Job \cup {Absent}], results' \in Seq(Job),
         JobsFit(running)', Expected(At, Delivered)'
  PROVE  PreviewInv'
<1>1. PreviewOk'
  BY DEF PreviewInv, PreviewOk, Outside, JobsFit
<1>2. At' \in Iterations
  BY <1>1 DEF At, Iterations, PreviewOk, Previews, Layers
<1>3. ShownExists(preview', surface') /\ Silent(preview')
  BY DEF PreviewInv, Sound, At, Outside, ShownExists, Silent
<1>4. Sound(At)'
  BY <1>2, <1>3 DEF Sound, At, ShownExists, Silent, JobsFit
<1> QED
  BY <1>1, <1>4 DEF PreviewInv, Delivered

LEMMA TakePreviewKeeps == ASSUME NEW t \in Workers, PreviewInv, TakePreview(t) PROVE PreviewInv'
<1> DEFINE job == [index |-> Head(queued).index, target |-> Head(queued).target,
                   phase |-> "decoding", ok |-> FALSE, told |-> FALSE, cancelled |-> FALSE]
<1>1. queued \in Seq(Images) /\ queued # <<>> /\ Len(queued) <= 1
      /\ running \in [Workers -> Job \cup {Absent}] /\ results \in Seq(Job)
  BY DEF PreviewInv, PreviewOk, TakePreview
<1>2. Head(queued) \in Images /\ Head(queued) = queued[1] /\ DOMAIN queued = {1}
      /\ Tail(queued) \in Seq(Images) /\ Len(Tail(queued)) <= 1
  BY <1>1
<1>3. job \in Job /\ job # Absent /\ ~job.told /\ ~job.cancelled /\ job.index = queued[1].index
  <2>1. job \in Job
    BY <1>2 DEF Images, Job, Phases
  <2> QED
    BY <1>2, <2>1, AbsentAssumption
<1>4. /\ running' = [running EXCEPT ![t] = job] /\ queued' = Tail(queued)
      /\ newest' = t /\ results' = results /\ Outside
  BY DEF TakePreview
<1> HIDE DEF job
<1>5. running' \in [Workers -> Job \cup {Absent}]
  BY <1>1, <1>3, <1>4
<1>6. JobsFit(running)'
  BY <1>1, <1>3, <1>4 DEF PreviewInv, Sound, JobsFit, At
<1>7. Expected(At, Delivered)'
  <2>1. SUFFICES ASSUME preview.in_flight # Absent
                 PROVE  \/ \E w \in Workers : running'[w] # Absent /\ running'[w].index = preview.in_flight
                                              /\ ~running'[w].cancelled
                        \/ \E r \in Delivered : r.index = preview.in_flight /\ ~r.told
    BY <1>4 DEF Expected, At, Outside, Delivered
  <2>2. \/ \E k \in DOMAIN queued : queued[k].index = preview.in_flight
        \/ \E w \in Workers : running[w] # Absent /\ running[w].index = preview.in_flight
                              /\ ~running[w].cancelled
        \/ \E r \in Delivered : r.index = preview.in_flight /\ ~r.told
    BY <2>1 DEF PreviewInv, Expected, At, Delivered
  <2>3. ASSUME NEW k \in DOMAIN queued, queued[k].index = preview.in_flight
        PROVE  running'[t] # Absent /\ running'[t].index = preview.in_flight /\ ~running'[t].cancelled
    BY <1>1, <1>2, <1>3, <1>4, <2>3
  <2>4. ASSUME NEW w \in Workers, running[w] # Absent
        PROVE  running'[w] = running[w]
    BY <1>1, <1>4, <2>4 DEF TakePreview
  <2> QED
    BY <2>2, <2>3, <2>4
<1> QED
  BY <1>1, <1>2, <1>4, <1>5, <1>6, <1>7, WorkerKeeps

LEMMA DecodeKeeps ==
  ASSUME NEW t \in Workers, PreviewInv, Produce(t) \/ Flag(t)
  PROVE  PreviewInv'
<1>1. queued \in Seq(Images) /\ Len(queued) <= 1
      /\ running \in [Workers -> Job \cup {Absent}] /\ results \in Seq(Job)
      /\ JobsFit(running)
  BY DEF PreviewInv, PreviewOk, Sound, At
<1>2. running[t] # Absent /\ running[t] \in Job
  BY <1>1 DEF Produce, Flag, InPhase
<1>3. PICK job \in Job : /\ running' = [running EXCEPT ![t] = job]
                         /\ job.index = running[t].index /\ job.cancelled = running[t].cancelled
                         /\ (job.told => job.cancelled)
  <2>1. CASE Produce(t)
    <3>1. PICK ok \in BOOLEAN : running' = [running EXCEPT ![t].phase = "produced", ![t].ok = ok]
      BY <2>1 DEF Produce
    <3> DEFINE job == [running[t] EXCEPT !.phase = "produced", !.ok = ok]
    <3>2. job \in Job /\ job.index = running[t].index /\ job.cancelled = running[t].cancelled
          /\ job.told = running[t].told
      BY <1>2 DEF Job, Phases
    <3>3. running' = [running EXCEPT ![t] = job]
      BY <1>1, <3>1
    <3> HIDE DEF job
    <3> QED
      BY <1>1, <1>2, <3>2, <3>3 DEF JobsFit
  <2>2. CASE Flag(t)
    <3> DEFINE job == [running[t] EXCEPT !.phase = "flagged", !.told = running[t].cancelled]
    <3>2. job \in Job /\ job.index = running[t].index /\ job.cancelled = running[t].cancelled
          /\ job.told = running[t].cancelled
      BY <1>2 DEF Job, Phases
    <3>3. running' = [running EXCEPT ![t] = job]
      BY <1>1, <2>2 DEF Flag
    <3> HIDE DEF job
    <3> QED
      BY <3>2, <3>3
  <2> QED
    BY <2>1, <2>2
<1>4. queued' = queued /\ newest' = newest /\ results' = results /\ Outside /\ job # Absent
  BY AbsentAssumption DEF Produce, Flag
<1>5. running' \in [Workers -> Job \cup {Absent}] /\ JobsFit(running)'
  BY <1>1, <1>2, <1>3, <1>4 DEF JobsFit
<1>6. Expected(At, Delivered)'
  <2>1. SUFFICES ASSUME preview.in_flight # Absent
                 PROVE  \/ \E k \in DOMAIN queued : queued[k].index = preview.in_flight
                        \/ \E w \in Workers : running'[w] # Absent /\ running'[w].index = preview.in_flight
                                              /\ ~running'[w].cancelled
                        \/ \E r \in Delivered : r.index = preview.in_flight /\ ~r.told
    BY <1>4 DEF Expected, At, Outside, Delivered
  <2>2. \/ \E k \in DOMAIN queued : queued[k].index = preview.in_flight
        \/ \E w \in Workers : running[w] # Absent /\ running[w].index = preview.in_flight
                              /\ ~running[w].cancelled
        \/ \E r \in Delivered : r.index = preview.in_flight /\ ~r.told
    BY <2>1 DEF PreviewInv, Expected, At, Delivered
  <2>3. ASSUME NEW w \in Workers, running[w] # Absent
        PROVE  running'[w] # Absent /\ running'[w].index = running[w].index
               /\ running'[w].cancelled = running[w].cancelled
    BY <1>1, <1>3, <1>4, <2>3
  <2> QED
    BY <2>2, <2>3
<1> QED
  BY <1>1, <1>4, <1>5, <1>6, WorkerKeeps

\* A decode that was not told of a cancel answers for the one waited for.
LEMMA PublishPreviewKeeps ==
  ASSUME NEW t \in Workers, PreviewInv, PublishPreview(t)
  PROVE  PreviewInv'
<1>1. queued \in Seq(Images) /\ Len(queued) <= 1
      /\ running \in [Workers -> Job \cup {Absent}] /\ results \in Seq(Job)
      /\ JobsFit(running)
  BY DEF PreviewInv, PreviewOk, Sound, At
<1>2. running[t] # Absent /\ running[t] \in Job
  BY <1>1 DEF PublishPreview, InPhase
<1>3. /\ results' = Append(results, running[t]) /\ running' = [running EXCEPT ![t] = Absent]
      /\ newest' = IF newest = t THEN Absent ELSE newest
      /\ queued' = queued /\ Outside
  BY DEF PublishPreview
<1>4. running' \in [Workers -> Job \cup {Absent}] /\ JobsFit(running)'
  BY <1>1, <1>3 DEF JobsFit
<1>5. results' \in Seq(Job) /\ Delivered \cup {running[t]} \subseteq Delivered'
  <2>1. results' \in Seq(Job)
    BY <1>1, <1>2, <1>3
  <2>2. Len(results') = Len(results) + 1 /\ results'[Len(results) + 1] = running[t]
        /\ \A k \in 1 .. Len(results) : results'[k] = results[k]
    BY <1>1, <1>2, <1>3, AppendProperties
  <2>3. DOMAIN results = 1 .. Len(results) /\ DOMAIN results' = 1 .. Len(results')
        /\ Len(results) \in Nat
    BY <1>1, <2>1, LenProperties
  <2>4. Len(results) + 1 \in DOMAIN results' /\ DOMAIN results \subseteq DOMAIN results'
    BY <2>2, <2>3
  <2> QED
    BY <2>1, <2>2, <2>3, <2>4 DEF Delivered
<1>6. Expected(At, Delivered)'
  <2>1. SUFFICES ASSUME preview.in_flight # Absent
                 PROVE  \/ \E k \in DOMAIN queued : queued[k].index = preview.in_flight
                        \/ \E w \in Workers : running'[w] # Absent /\ running'[w].index = preview.in_flight
                                              /\ ~running'[w].cancelled
                        \/ \E r \in Delivered' : r.index = preview.in_flight /\ ~r.told
    BY <1>3 DEF Expected, At, Outside, Delivered
  <2>2. \/ \E k \in DOMAIN queued : queued[k].index = preview.in_flight
        \/ \E w \in Workers : running[w] # Absent /\ running[w].index = preview.in_flight
                              /\ ~running[w].cancelled
        \/ \E r \in Delivered : r.index = preview.in_flight /\ ~r.told
    BY <2>1 DEF PreviewInv, Expected, At, Delivered
  <2>3. ASSUME NEW w \in Workers, w # t PROVE running'[w] = running[w]
    BY <1>1, <1>3, <2>3
  <2>4. running[t].told => running[t].cancelled
    BY <1>1, <1>2 DEF JobsFit
  <2> QED
    BY <1>5, <2>2, <2>3, <2>4
<1> QED
  BY <1>1, <1>3, <1>4, <1>5, <1>6, WorkerKeeps

LEMMA PreviewNextKeeps == PreviewInv /\ [PreviewNext]_showing => PreviewInv'
<1> SUFFICES ASSUME PreviewInv, [PreviewNext]_showing PROVE PreviewInv'
  OBVIOUS
<1>1. preview \in Previews /\ layer \in Layers
  BY DEF PreviewInv, PreviewOk, Previews, Layers
<1>2. ASSUME NEW i \in Wallpapers, PreviewSelect(i) PROVE PreviewInv'
  <2> DEFINE p == IF ~preview.enabled \/ i = preview.wanted THEN preview
                  ELSE [preview EXCEPT !.wanted = i, !.due = "wait"]
  <2>1. p \in Previews /\ p.image = preview.image /\ p.shown = preview.shown
        /\ p.in_flight = preview.in_flight /\ p.enabled = preview.enabled
    BY <1>1 DEF Previews
  <2>2. preview' = p /\ layer' = layer /\ UNCHANGED <<surface, jobsOf>>
    BY <1>2 DEF PreviewSelect, Event
  <2> HIDE DEF p
  <2> QED
    BY <1>1, <2>1, <2>2, EventKeeps
<1>3. ASSUME NEW target \in Targets, Retarget(target) PROVE PreviewInv'
  <2>1. layer' \in Layers /\ preview' = preview /\ UNCHANGED <<surface, jobsOf>>
    BY <1>1, <1>3 DEF Retarget, Event, Layers
  <2> QED
    BY <1>1, <2>1, EventKeeps
<1>4. CASE Closed \/ FrameDone
  <2>1. layer' \in Layers /\ preview' = preview /\ UNCHANGED <<surface, jobsOf>>
    BY <1>1, <1>4 DEF Closed, FrameDone, Event, Layers
  <2> QED
    BY <1>1, <2>1, EventKeeps
<1>5. CASE Dwell
  <2> DEFINE p == [preview EXCEPT !.due = "now"]
  <2>1. p \in Previews /\ p.image = preview.image /\ p.shown = preview.shown
        /\ p.in_flight = preview.in_flight /\ p.enabled = preview.enabled
    BY <1>1 DEF Previews
  <2>2. preview' = p /\ layer' = layer /\ UNCHANGED <<surface, jobsOf>>
    BY <1>5 DEF Dwell
  <2> HIDE DEF p
  <2> QED
    BY <1>1, <2>1, <2>2, EventKeeps
<1>6. CASE Iterate
  BY <1>6, IterateKeeps
<1>7. ASSUME NEW t \in Workers, Worker(t) PROVE PreviewInv'
  BY <1>7, TakePreviewKeeps, DecodeKeeps, PublishPreviewKeeps DEF Worker
<1>8. CASE UNCHANGED showing
  <2>1. preview' = preview /\ layer' = layer /\ UNCHANGED <<surface, jobsOf>>
    BY <1>8 DEF showing
  <2> QED
    BY <1>1, <2>1, EventKeeps
<1> QED
  BY <1>2, <1>3, <1>4, <1>5, <1>6, <1>7, <1>8 DEF PreviewNext

(* What the preview remembers by an index exists, for any wallpapers,      *)
(* sizes and workers: the decode that is waited for is queued, running     *)
(* uncancelled or answered, however often it was superseded, resized or    *)
(* refused before (preview.c:81), and what is taken for shown is on the    *)
(* surface or about to be.                                                 *)
THEOREM WhatIsNamedExists == PreviewSpec => []NamesExist
<1>1. PreviewInv => NamesExist
  <2> SUFFICES ASSUME PreviewInv PROVE NamesExist
    OBVIOUS
  <2>1. Expected(At, Delivered) /\ ShownExists(preview, surface)
    BY DEF PreviewInv, Sound, At, Delivered
  <2>2. preview.in_flight # Absent =>
          \/ \E k \in DOMAIN queued : queued[k].index = preview.in_flight
          \/ \E t \in Workers : running[t] # Absent /\ running[t].index = preview.in_flight
                                /\ ~running[t].cancelled
          \/ \E k \in DOMAIN results : results[k].index = preview.in_flight /\ ~results[k].told
    BY <2>1 DEF Expected, At, Delivered
  <2>3. preview.enabled /\ preview.shown # Absent =>
          LET image == IF preview.image # Absent THEN preview.image ELSE surface
          IN  image # Absent /\ image.index = preview.shown
    BY <2>1 DEF ShownExists
  <2> QED
    BY <2>2, <2>3 DEF NamesExist
<1> QED
  BY <1>1, PreviewInitInv, PreviewNextKeeps, PTL DEF PreviewSpec
=============================================================================
