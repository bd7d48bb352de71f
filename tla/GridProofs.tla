----------------------------- MODULE GridProofs -----------------------------
(***************************************************************************)
(* What the operators of Grid return, for folders, layouts and cursors of  *)
(* any size: the proofs of the modules that are built from them, Thumbs    *)
(* and Panel, rest on it.                                                  *)
(***************************************************************************)
EXTENDS Grid, SequencesExt, FiniteSetTheorems, SequenceTheorems, WellFoundedInduction, TLAPS

-----------------------------------------------------------------------------
(* Induction.  The theorems of the library take an operator; as statements *)
(* about sets they can be used.                                            *)

LEMMA Least ==
  ASSUME NEW T, T \subseteq Nat, T # {}
  PROVE  \E m \in T : \A k \in T : m <= k
<1> DEFINE R == OpToRel(<, Nat)
<1>1. IsWellFoundedOn(R, Nat)
  BY NatLessThanWellFounded
<1>2. \A x, y \in Nat : x < y => <<x, y>> \in R
  BY DEF OpToRel
<1> HIDE DEF R
<1>3. PICK m \in T : \A y \in T : ~(<<y, m>> \in R)
  BY <1>1, WFMin
<1>4. ASSUME NEW k \in T PROVE m <= k
  <2>1. ~(k < m) /\ k \in Nat /\ m \in Nat
    BY <1>2, <1>3
  <2> QED
    BY <2>1
<1> QED
  BY <1>4

LEMMA Upwards ==
  ASSUME NEW n \in Nat, NEW T, 0 \in T, \A k \in 1 .. n : k - 1 \in T => k \in T
  PROVE  0 .. n \subseteq T
<1> DEFINE missed == (0 .. n) \ T
<1>1. SUFFICES ASSUME missed # {} PROVE FALSE
  OBVIOUS
<1>2. PICK m \in missed : \A k \in missed : m <= k
  <2>1. missed \subseteq Nat
    OBVIOUS
  <2> HIDE DEF missed
  <2> QED
    BY <1>1, <2>1, Least
<1>3. m \in 1 .. n /\ m - 1 \notin missed /\ m - 1 \in 0 .. n
  BY <1>2
<1> QED
  BY <1>2, <1>3

IsLoop(f, n, base, step) == f = [k \in 0 .. n |-> IF k = 0 THEN base ELSE step[<<k, f[k - 1]>>]]

\* There is the function that a loop of n steps over values of S defines.
LEMMA LoopExists ==
  ASSUME NEW S, NEW n \in Nat, NEW base \in S, NEW step, \A k \in 1 .. n, s \in S : step[<<k, s>>] \in S
  PROVE  \E f \in [0 .. n -> S] : IsLoop(f, n, base, step)
<1> DEFINE Is(f, m) == IsLoop(f, m, base, step)
           T == {m \in 0 .. n : \E f \in [0 .. m -> S] : Is(f, m)}
<1>1. 0 \in T
  <2>1. 0 .. 0 = {0} /\ [k \in 0 .. 0 |-> base] \in [0 .. 0 -> S]
    OBVIOUS
  <2>2. Is([k \in 0 .. 0 |-> base], 0)
    BY <2>1 DEF IsLoop
  <2> HIDE DEF Is
  <2>3. \E f \in [0 .. 0 -> S] : Is(f, 0)
    BY <2>1, <2>2
  <2> QED
    BY <2>3
<1>2. ASSUME NEW m \in 1 .. n, m - 1 \in T PROVE m \in T
  <2>1. PICK f \in [0 .. m - 1 -> S] : Is(f, m - 1)
    BY <1>2
  <2> DEFINE g == [k \in 0 .. m |-> IF k <= m - 1 THEN f[k] ELSE step[<<m, f[m - 1]>>]]
  <2>2. f[m - 1] \in S /\ step[<<m, f[m - 1]>>] \in S
    BY <2>1
  <2>3. g \in [0 .. m -> S]
    BY <2>1, <2>2
  <2>4. ASSUME NEW k \in 0 .. m PROVE g[k] = IF k = 0 THEN base ELSE step[<<k, g[k - 1]>>]
    <3>1. CASE k = 0
      BY <2>1, <3>1 DEF IsLoop
    <3>2. CASE k \in 1 .. m - 1
      <4>1. k \in 0 .. m - 1 /\ k - 1 \in 0 .. m - 1 /\ k # 0
        BY <3>2
      <4>2. f[k] = step[<<k, f[k - 1]>>]
        BY <2>1, <4>1 DEF IsLoop
      <4>3. g[k] = f[k] /\ g[k - 1] = f[k - 1]
        BY <4>1
      <4> HIDE DEF g
      <4> QED
        BY <4>1, <4>2, <4>3
    <3>3. CASE k = m
      <4>1. k # 0 /\ ~(k <= m - 1) /\ k - 1 = m - 1 /\ m - 1 \in 0 .. m /\ m - 1 <= m - 1
        BY <3>3
      <4> QED
        BY <3>3, <4>1
    <3> QED
      BY <3>1, <3>2, <3>3
  <2>5. Is(g, m)
    <3> HIDE DEF g
    <3> QED
      BY <2>3, <2>4 DEF IsLoop
  <2> HIDE DEF g, Is
  <2>6. \E h \in [0 .. m -> S] : Is(h, m)
    BY <2>3, <2>5
  <2> QED
    BY <2>6
<1>3. 0 .. n \subseteq T
  <2> HIDE DEF T
  <2> QED
    BY <1>1, <1>2, Upwards
<1>4. n \in T
  BY <1>3
<1> QED
  BY <1>4

-----------------------------------------------------------------------------
(* The window.                                                             *)

LayoutOk(l) == l.flow \in Flows /\ l.columns \in Nat \ {0} /\ l.rows \in Nat \ {0}

GridOk(g) == g \in [selected : Nat, cursor : Int, first_row : Nat]

\* The rows on screen begin with an item.
Scrolled(g, l, c) == l.flow = "grid" => g.first_row * l.columns < c

\* What matuwall_thumb_store_visible_ranges may give for c items.
RangesOk(r, flow, c) ==
  /\ r.first \in Nat /\ r.end \in Nat /\ r.wrap_end \in Nat
  /\ r.first < r.end /\ r.end <= c /\ r.wrap_end <= r.first
  /\ r.wrap_end > 0 => r.end = c
  /\ flow = "grid" => r.wrap_end = 0

LEMMA Quotient ==
  ASSUME NEW n \in Nat, NEW d \in Nat \ {0}
  PROVE  n \div d \in Nat /\ d * (n \div d) <= n /\ n < d * (n \div d) + d
OBVIOUS

LEMMA Remainder ==
  ASSUME NEW c \in Nat \ {0}, NEW a \in Int, -c <= a, a < 2 * c
  PROVE  a % c = IF a < 0 THEN a + c ELSE IF a < c THEN a ELSE a - c
OBVIOUS

LEMMA CarouselIndexType ==
  ASSUME NEW c \in Nat \ {0}, NEW slot \in Int
  PROVE  CarouselIndex(slot, c) \in 0 .. c - 1
<1>1. \A a \in Int : a % c \in 0 .. c - 1
  OBVIOUS
<1>2. CASE slot >= 0
  BY <1>1, <1>2 DEF CarouselIndex
<1>3. CASE slot < 0
  <2> DEFINE remainder == (-(slot + 1) + 1) % c
  <2>1. remainder \in 0 .. c - 1
    BY <1>1
  <2>2. CarouselIndex(slot, c) = IF remainder = 0 THEN 0 ELSE c - remainder
    BY <1>3 DEF CarouselIndex
  <2> HIDE DEF remainder
  <2> QED
    BY <2>1, <2>2
<1> QED
  BY <1>2, <1>3

LEMMA ScrollFacts ==
  ASSUME NEW c \in Nat \ {0}, NEW l, LayoutOk(l), NEW g, GridOk(g), g.selected < c
  PROVE  ScrollIntoView(g, l, c).first_row \in Nat /\ Scrolled(ScrollIntoView(g, l, c), l, c)
<1> DEFINE row == RowOf(l, g.selected)
           total == Rows(l, c)
           first == IF row < g.first_row THEN row
                    ELSE IF row >= g.first_row + l.rows THEN row - l.rows + 1
                    ELSE g.first_row
           max_first == IF total > l.rows THEN total - l.rows ELSE 0
           scrolled == ScrollIntoView(g, l, c)
<1>1. row \in Nat
  BY Quotient DEF RowOf, LayoutOk, GridOk
<1>2. total \in Nat /\ total > 0 /\ (total - 1) * l.columns < c
  <2> DEFINE n == c + l.columns - 1
  <2>1. n \in Nat /\ l.columns \in Nat \ {0} /\ n >= l.columns
    BY DEF LayoutOk
  <2>2. total = n \div l.columns
    BY DEF Rows
  <2>3. total \in Nat /\ l.columns * total <= n /\ n < l.columns * total + l.columns
    BY <2>1, <2>2, Quotient
  <2>4. total > 0
    BY <2>1, <2>3
  <2>5. (total - 1) * l.columns = l.columns * total - l.columns
    BY <2>1, <2>3
  <2> QED
    BY <2>1, <2>3, <2>4, <2>5
<1>3. first \in Nat /\ max_first \in Nat /\ max_first <= total - 1
  BY <1>1, <1>2 DEF LayoutOk, GridOk
<1>4. l.flow = "grid" => /\ scrolled.first_row \in Nat
                         /\ scrolled.first_row <= total - 1
  <2> HIDE DEF first, max_first, total
  <2>1. Smaller(first, max_first) \in Nat /\ Smaller(first, max_first) <= total - 1
    BY <1>2, <1>3 DEF Smaller
  <2>2. l.flow = "grid" => scrolled.first_row = Smaller(first, max_first)
    BY DEF ScrollIntoView, first, max_first, total, GridOk
  <2> QED
    BY <2>1, <2>2
<1>5. l.flow # "grid" => scrolled.first_row = 0
  BY DEF ScrollIntoView, GridOk
<1>6. ASSUME l.flow = "grid" PROVE scrolled.first_row * l.columns < c
  <2> HIDE DEF scrolled, total
  <2>1. scrolled.first_row * l.columns <= (total - 1) * l.columns
    <3>1. l.columns \in Nat /\ scrolled.first_row \in Nat /\ total - 1 \in Nat /\ scrolled.first_row <= total - 1
      BY <1>2, <1>4, <1>6 DEF LayoutOk
    <3> QED
      BY <3>1
  <2>2. scrolled.first_row * l.columns \in Nat /\ (total - 1) * l.columns \in Nat
    BY <1>2, <1>4, <1>6 DEF LayoutOk
  <2> QED
    BY <1>2, <2>1, <2>2
<1> QED
  BY <1>4, <1>5, <1>6 DEF Scrolled

LEMMA RangesAreOk ==
  ASSUME NEW c \in Nat \ {0}, NEW l, LayoutOk(l), NEW g, GridOk(g), Scrolled(g, l, c)
  PROVE  RangesOk(VisibleRanges(g, l, c), l.flow, c)
<1>1. CASE l.flow = "grid"
  <2> DEFINE top == g.first_row * l.columns
             area == l.rows * l.columns
  <2>1. top \in Nat /\ top < c /\ area \in Nat /\ area > 0
    BY <1>1 DEF LayoutOk, GridOk, Scrolled
  <2>2. VisibleRanges(g, l, c) = Interval(top, top + Smaller(area, c - top), 0)
    <3> HIDE DEF top, area
    <3> QED
      BY <1>1, <2>1 DEF VisibleRanges, top, area
  <2> HIDE DEF top, area
  <2> QED
    BY <1>1, <2>1, <2>2 DEF RangesOk, Interval, Smaller
<1>2. CASE l.flow # "grid"
  <2> DEFINE visible == Smaller(IF l.flow = "horizontal" THEN l.columns ELSE l.rows, c)
             before == visible \div 2
             start == IF g.cursor >= MinSlot + before THEN g.cursor - before ELSE MinSlot
             first == CarouselIndex(start, c)
  <2>1. visible \in Nat /\ visible > 0 /\ visible <= c
    BY DEF LayoutOk, Smaller
  <2>2. start \in Int
    <3>1. before \in Nat
      BY <2>1
    <3> HIDE DEF before
    <3> QED
      BY <3>1, SlotAssumption DEF GridOk
  <2>3. first \in 0 .. c - 1
    <3> HIDE DEF start
    <3> QED
      BY <2>2, CarouselIndexType
  <2>4. VisibleRanges(g, l, c) = IF visible <= c - first THEN Interval(first, first + visible, 0)
                                 ELSE Interval(first, c, visible - (c - first))
    <3>1. visible <= c - first \/ visible > c - first
      BY <2>1, <2>3
    <3> HIDE DEF first, visible
    <3> QED
      BY <1>2, <2>1, <2>3, <3>1 DEF VisibleRanges, first, visible
  <2> HIDE DEF first, visible
  <2> QED
    BY <1>2, <2>1, <2>3, <2>4 DEF RangesOk, Interval
<1> QED
  BY <1>1, <1>2

-----------------------------------------------------------------------------
(* The window.  Of a carousel, an item is reached from the first one on    *)
(* screen in Ahead(i, r, c) steps.                                         *)

Ahead(i, r, c) == IF i >= r.first THEN i - r.first ELSE i - r.first + c

LEMMA LookaheadFacts ==
  ASSUME NEW n \in Nat, NEW v \in Nat
  PROVE  /\ Lookahead(n, v) \in Nat /\ Lookahead(n, v) <= v
         /\ v <= n => v + 2 * Lookahead(n, v) <= n
         /\ v > n => Lookahead(n, v) = 0
BY DEF Lookahead, Smaller

LEMMA WindowMeans ==
  ASSUME NEW c \in Nat \ {0}, NEW l, NEW r, RangesOk(r, l.flow, c), NEW n \in Nat, NEW i \in 0 .. c - 1
  PROVE  LET v == Visible(r)
             a == Lookahead(n, v)
         IN  /\ v \in 1 .. c
             /\ l.flow = "grid" => (i \in Window(r, l, c, n) <=> r.first - a <= i /\ i < r.end + a)
             /\ l.flow # "grid" => /\ Ahead(i, r, c) \in 0 .. c - 1
                                   /\ InVisibleRange(i, r) <=> Ahead(i, r, c) < v
                                   /\ i \in Window(r, l, c, n) <=>
                                        Ahead(i, r, c) < v + a \/ c - Ahead(i, r, c) <= a
<1> DEFINE v == Visible(r)
           a == Lookahead(n, v)
<1>1. /\ r.first \in Nat /\ r.end \in Nat /\ r.wrap_end \in Nat
      /\ r.first < r.end /\ r.end <= c /\ r.wrap_end <= r.first
      /\ r.wrap_end > 0 => r.end = c
      /\ l.flow = "grid" => r.wrap_end = 0
  BY DEF RangesOk
<1>2. v = r.end - r.first + r.wrap_end /\ v \in 1 .. c
  BY <1>1 DEF Visible
<1>3. a \in Nat /\ a <= v
  <2>1. v \in Nat
    BY <1>2
  <2> HIDE DEF v
  <2> QED
    BY <2>1, LookaheadFacts
<1>4. i \in Window(r, l, c, n) <=> InWindow(i, r, l, c, n)
  BY DEF Window
<1> HIDE DEF v, a
<1>5. l.flow = "grid" => (InWindow(i, r, l, c, n) <=> r.first - a <= i /\ i < r.end + a)
  <2> DEFINE low == IF r.first > a THEN r.first - a ELSE 0
             high == r.end + Smaller(a, c - r.end)
  <2>1. l.flow = "grid" => (InWindow(i, r, l, c, n) <=> i >= low /\ i < high)
    BY <1>1, <1>2 DEF InWindow, v, a
  <2>2. high = IF a < c - r.end THEN r.end + a ELSE c
    BY <1>1, <1>3 DEF Smaller
  <2> HIDE DEF high
  <2> QED
    BY <1>1, <1>3, <2>1, <2>2
<1>6. Ahead(i, r, c) \in 0 .. c - 1
  BY <1>1 DEF Ahead
<1>7. l.flow # "grid" => (InVisibleRange(i, r) <=> Ahead(i, r, c) < v)
  BY <1>1, <1>2 DEF Ahead, InVisibleRange
<1>8. ASSUME l.flow # "grid"
      PROVE  InWindow(i, r, l, c, n) <=> Ahead(i, r, c) < v + a \/ c - Ahead(i, r, c) <= a
  <2> DEFINE span == v + 2 * a
             start == (r.first + c - a) % c
             away == (i + c - start) % c
  <2>1. InWindow(i, r, l, c, n) <=> span >= c \/ away < span
    BY <1>2, <1>8 DEF InWindow, v, a
  <2>2. CASE span >= c
    BY <1>2, <1>3, <1>6, <2>1, <2>2
  <2> DEFINE Wraps(x) == IF x < 0 THEN x + c ELSE IF x < c THEN x ELSE x - c
  <2>4. \A x \in Int : -c <= x /\ x < 2 * c => x % c = Wraps(x)
    BY Remainder
  <2>3. CASE span < c
    <3>1. start = IF r.first < a THEN r.first + c - a ELSE r.first - a
      <4>1. r.first + c - a \in Int /\ -c <= r.first + c - a /\ r.first + c - a < 2 * c
        BY <1>1, <1>2, <1>3, <2>3
      <4>2. start = Wraps(r.first + c - a)
        BY <2>4, <4>1
      <4> HIDE DEF start
      <4> QED
        BY <1>1, <1>2, <1>3, <2>3, <4>2
    <3>2. start \in 0 .. c - 1
      <4> HIDE DEF start
      <4> QED
        BY <1>1, <1>2, <1>3, <2>3, <3>1
    <3> HIDE DEF start
    <3>3. away = IF i < start THEN i + c - start ELSE i - start
      <4>1. i + c - start \in Int /\ -c <= i + c - start /\ i + c - start < 2 * c
        BY <3>2
      <4>2. away = Wraps(i + c - start)
        BY <2>4, <4>1
      <4> HIDE DEF away
      <4> QED
        BY <3>2, <4>2
    <3> HIDE DEF away
    <3> QED
      BY <1>1, <1>2, <1>3, <2>1, <2>3, <3>1, <3>3 DEF Ahead
  <2> QED
    BY <1>2, <1>3, <2>2, <2>3
<1> QED
  BY <1>2, <1>4, <1>5, <1>6, <1>7, <1>8 DEF v, a

\* What is on screen is in the window, and all of it if there is no room for more.
LEMMA VisibleInWindow ==
  ASSUME NEW c \in Nat \ {0}, NEW l, NEW r, RangesOk(r, l.flow, c), NEW n \in Nat, NEW i \in 0 .. c - 1
  PROVE  /\ InVisibleRange(i, r) => i \in Window(r, l, c, n)
         /\ Visible(r) > n /\ i \in Window(r, l, c, n) => InVisibleRange(i, r)
<1> DEFINE v == Visible(r)
           a == Lookahead(n, v)
           i_is_in == i \in Window(r, l, c, n)
<1>1. /\ v \in 1 .. c
      /\ l.flow = "grid" => (i_is_in <=> r.first - a <= i /\ i < r.end + a)
      /\ l.flow # "grid" => /\ Ahead(i, r, c) \in 0 .. c - 1
                            /\ InVisibleRange(i, r) <=> Ahead(i, r, c) < v
                            /\ i_is_in <=> Ahead(i, r, c) < v + a \/ c - Ahead(i, r, c) <= a
  BY WindowMeans
<1>2. a \in Nat /\ (v > n => a = 0)
  <2>1. v \in Nat
    BY <1>1
  <2> HIDE DEF v
  <2> QED
    BY <2>1, LookaheadFacts
<1>3. r.first \in Nat /\ r.end \in Nat /\ (l.flow = "grid" => r.wrap_end = 0)
  BY DEF RangesOk
<1>4. l.flow = "grid" => (InVisibleRange(i, r) <=> r.first <= i /\ i < r.end)
  BY <1>3 DEF InVisibleRange
<1> HIDE DEF v, a, i_is_in
<1>5. (InVisibleRange(i, r) => i_is_in) /\ (v > n /\ i_is_in => InVisibleRange(i, r))
  BY <1>1, <1>2, <1>3, <1>4
<1> QED
  BY <1>5 DEF v, i_is_in

\* The window fits in the memory as soon as what is on screen does.
LEMMA WindowFits ==
  ASSUME NEW c \in Nat \ {0}, NEW l, NEW r, RangesOk(r, l.flow, c), NEW n \in Nat, Visible(r) <= n
  PROVE  /\ IsFiniteSet(Window(r, l, c, n))
         /\ Cardinality(Window(r, l, c, n)) \in Nat /\ Cardinality(Window(r, l, c, n)) <= n
<1> DEFINE v == Visible(r)
           a == Lookahead(n, v)
           W == Window(r, l, c, n)
<1>1. /\ r.first \in Nat /\ r.end \in Nat /\ r.wrap_end \in Nat
      /\ r.first < r.end /\ r.end <= c /\ r.wrap_end <= r.first
  BY DEF RangesOk
<1>2. v = r.end - r.first + r.wrap_end /\ v \in Nat
  BY <1>1 DEF Visible
<1>3. a \in Nat /\ a <= v /\ v + 2 * a <= n
  <2>1. v <= n
    OBVIOUS
  <2> HIDE DEF v
  <2> QED
    BY <1>2, <2>1, LookaheadFacts
<1>4. W \subseteq 0 .. c - 1
  BY DEF Window
<1>5. \A i \in W : /\ l.flow = "grid" => r.first - a <= i /\ i < r.end + a
                   /\ l.flow # "grid" => /\ Ahead(i, r, c) \in 0 .. c - 1
                                         /\ Ahead(i, r, c) < v + a \/ c - Ahead(i, r, c) <= a
  BY <1>4, WindowMeans
<1>6. ASSUME NEW low \in Int, NEW high \in Int, low <= high, NEW f, f \in Injection(W, low .. high - 1)
      PROVE  IsFiniteSet(W) /\ Cardinality(W) \in Nat /\ Cardinality(W) <= high - low
  <2>1. IsFiniteSet(low .. high - 1) /\ Cardinality(low .. high - 1) = high - low
    BY <1>6, FS_Interval
  <2> HIDE DEF W
  <2> QED
    BY <1>6, <2>1, FS_Injection, FS_CardinalityType
<1> HIDE DEF v, a, W
<1>7. CASE l.flow = "grid"
  <2> DEFINE f == [i \in W |-> i]
  <2>1. \A i \in W : i \in r.first - a .. r.end + a - 1
    BY <1>1, <1>3, <1>4, <1>5, <1>7
  <2>2. f \in Injection(W, r.first - a .. r.end + a - 1)
    BY <2>1 DEF Injection, IsInjective
  <2>3. r.first - a \in Int /\ r.end + a \in Int /\ r.first - a <= r.end + a
    BY <1>1, <1>3
  <2>4. IsFiniteSet(W) /\ Cardinality(W) \in Nat /\ Cardinality(W) <= r.end + a - (r.first - a)
    <3> HIDE DEF f
    <3>1. PICK low, high : low = r.first - a /\ high = r.end + a
      OBVIOUS
    <3>2. low \in Int /\ high \in Int /\ low <= high
      BY <3>1, <2>2, <2>3
    <3>3. f \in Injection(W, low .. high - 1)
      BY <1>1, <1>3, <3>1, <2>2
    <3>4. IsFiniteSet(W) /\ Cardinality(W) \in Nat /\ Cardinality(W) <= high - low
      BY <1>6, <3>2, <3>3
    <3> QED
      BY <1>1, <1>2, <1>3, <3>1, <3>4
  <2> QED
    BY <1>1, <1>2, <1>3, <2>4 DEF W
<1>8. CASE l.flow # "grid" /\ v + 2 * a >= c
  <2> DEFINE f == [i \in W |-> i]
  <2>1. f \in Injection(W, 0 .. c - 1)
    BY <1>4 DEF Injection, IsInjective
  <2>2. IsFiniteSet(W) /\ Cardinality(W) \in Nat /\ Cardinality(W) <= c - 0
    <3> HIDE DEF f
    <3> QED
      BY <1>6, <2>1
  <2> QED
    BY <1>2, <1>3, <1>8, <2>2 DEF W
<1>9. CASE l.flow # "grid" /\ v + 2 * a < c
  <2> DEFINE At(i) == IF Ahead(i, r, c) < v + a THEN Ahead(i, r, c) ELSE Ahead(i, r, c) - c
             f == [i \in W |-> At(i)]
  <2>1. \A i \in W : At(i) \in -a .. v + a - 1
    BY <1>2, <1>3, <1>5, <1>9
  <2>2. \A i, j \in W : At(i) = At(j) => i = j
    <3> SUFFICES ASSUME NEW i \in W, NEW j \in W, At(i) = At(j) PROVE i = j
      OBVIOUS
    <3>1. i \in 0 .. c - 1 /\ j \in 0 .. c - 1
      BY <1>4
    <3>2. Ahead(i, r, c) = Ahead(j, r, c)
      BY <1>2, <1>3, <1>5, <1>9
    <3> QED
      BY <1>1, <3>1, <3>2 DEF Ahead
  <2> HIDE DEF At
  <2>3. f \in Injection(W, -a .. v + a - 1)
    BY <2>1, <2>2 DEF Injection, IsInjective
  <2>4. -a \in Int /\ v + a \in Int /\ -a <= v + a
    BY <1>2, <1>3
  <2>5. IsFiniteSet(W) /\ Cardinality(W) \in Nat /\ Cardinality(W) <= v + a - (-a)
    <3> HIDE DEF f
    <3>1. PICK low, high : low = -a /\ high = v + a
      OBVIOUS
    <3>2. low \in Int /\ high \in Int /\ low <= high
      BY <3>1, <2>3, <2>4
    <3>3. f \in Injection(W, low .. high - 1)
      BY <1>2, <1>3, <3>1, <2>3
    <3>4. IsFiniteSet(W) /\ Cardinality(W) \in Nat /\ Cardinality(W) <= high - low
      BY <1>6, <3>2, <3>3
    <3> QED
      BY <1>1, <1>2, <1>3, <3>1, <3>4
  <2> QED
    BY <1>2, <1>3, <2>5 DEF W
<1> QED
  BY <1>2, <1>3, <1>7, <1>8, <1>9

LEMMA ConcatFacts ==
  ASSUME NEW X, NEW s \in Seq(X), NEW t \in Seq(X)
  PROVE  /\ s \o t \in Seq(X)
         /\ Len(s \o t) = Len(s) + Len(t)
         /\ ToSet(s \o t) = ToSet(s) \union ToSet(t)
         /\ IsInjective(s) /\ IsInjective(t) /\ ToSet(s) \intersect ToSet(t) = {} => IsInjective(s \o t)
<1> DEFINE u == s \o t
<1>1. /\ u \in Seq(X) /\ Len(u) = Len(s) + Len(t) /\ Len(s) \in Nat /\ Len(t) \in Nat
      /\ DOMAIN s = 1 .. Len(s) /\ DOMAIN t = 1 .. Len(t) /\ DOMAIN u = 1 .. Len(s) + Len(t)
      /\ \A i \in 1 .. Len(s) + Len(t) : u[i] = IF i <= Len(s) THEN s[i] ELSE t[i - Len(s)]
  BY ConcatProperties, LenProperties
<1> HIDE DEF u
<1>2. ASSUME NEW e PROVE e \in ToSet(u) <=> e \in ToSet(s) \union ToSet(t)
  <2>1. ASSUME e \in ToSet(u) PROVE e \in ToSet(s) \union ToSet(t)
    <3>1. PICK i \in 1 .. Len(s) + Len(t) : e = u[i]
      BY <1>1, <2>1 DEF ToSet
    <3>2. CASE i <= Len(s)
      <4>1. i \in 1 .. Len(s) /\ e = s[i]
        BY <1>1, <3>1, <3>2
      <4> QED
        BY <1>1, <4>1 DEF ToSet
    <3>3. CASE ~(i <= Len(s))
      <4>1. i - Len(s) \in 1 .. Len(t) /\ e = t[i - Len(s)]
        BY <1>1, <3>1, <3>3
      <4> QED
        BY <1>1, <4>1 DEF ToSet
    <3> QED
      BY <3>2, <3>3
  <2>2. ASSUME e \in ToSet(s) PROVE e \in ToSet(u)
    <3>1. PICK i \in 1 .. Len(s) : e = s[i]
      BY <1>1, <2>2 DEF ToSet
    <3>2. i \in 1 .. Len(s) + Len(t) /\ u[i] = e
      BY <1>1, <3>1
    <3> QED
      BY <1>1, <3>2 DEF ToSet
  <2>3. ASSUME e \in ToSet(t) PROVE e \in ToSet(u)
    <3>1. PICK i \in 1 .. Len(t) : e = t[i]
      BY <1>1, <2>3 DEF ToSet
    <3>2. i + Len(s) \in 1 .. Len(s) + Len(t) /\ ~(i + Len(s) <= Len(s)) /\ i + Len(s) - Len(s) = i
      BY <1>1
    <3>3. u[i + Len(s)] = e
      BY <1>1, <3>1, <3>2
    <3> QED
      BY <1>1, <3>2, <3>3 DEF ToSet
  <2> QED
    BY <2>1, <2>2, <2>3
<1>3. ASSUME IsInjective(s), IsInjective(t), ToSet(s) \intersect ToSet(t) = {}
      PROVE  IsInjective(u)
  <2>1. ASSUME NEW i \in 1 .. Len(s) + Len(t), NEW j \in 1 .. Len(s) + Len(t), u[i] = u[j]
        PROVE  i = j
    <3>1. CASE i <= Len(s) /\ j <= Len(s)
      <4>1. i \in 1 .. Len(s) /\ j \in 1 .. Len(s) /\ s[i] = s[j]
        BY <1>1, <2>1, <3>1
      <4> QED
        BY <1>1, <1>3, <4>1 DEF IsInjective
    <3>2. CASE i > Len(s) /\ j > Len(s)
      <4>1. i - Len(s) \in 1 .. Len(t) /\ j - Len(s) \in 1 .. Len(t) /\ t[i - Len(s)] = t[j - Len(s)]
        BY <1>1, <2>1, <3>2
      <4>2. i - Len(s) = j - Len(s)
        BY <1>1, <1>3, <4>1 DEF IsInjective
      <4> QED
        BY <1>1, <4>2
    <3>3. ASSUME NEW k \in 1 .. Len(s) + Len(t), NEW m \in 1 .. Len(s) + Len(t),
                 k <= Len(s), m > Len(s), u[k] = u[m]
          PROVE  FALSE
      <4>1. k \in 1 .. Len(s) /\ m - Len(s) \in 1 .. Len(t) /\ s[k] = t[m - Len(s)]
        BY <1>1, <3>3
      <4>2. s[k] \in ToSet(s) /\ t[m - Len(s)] \in ToSet(t)
        BY <1>1, <4>1 DEF ToSet
      <4> QED
        BY <1>3, <4>1, <4>2
    <3> QED
      BY <1>1, <2>1, <3>1, <3>2, <3>3
  <2> QED
    BY <1>1, <2>1 DEF IsInjective
<1> QED
  BY <1>1, <1>2, <1>3 DEF u

LEMMA WantedFacts ==
  ASSUME NEW c \in Nat \ {0}, NEW l, NEW r, RangesOk(r, l.flow, c), NEW n \in Nat
  PROVE  /\ Wanted(r, l, c, n) \in Seq(Nat)
         /\ ToSet(Wanted(r, l, c, n)) \subseteq Window(r, l, c, n) \cup {c}
         /\ Window(r, l, c, n) \subseteq ToSet(Wanted(r, l, c, n))
<1> DEFINE v == Visible(r)
           a == Lookahead(n, v)
           W == Window(r, l, c, n)
           shown == r.end - r.first
           on_screen == [k \in 1 .. v |-> IF k <= shown THEN r.first + k - 1 ELSE k - 1 - shown]
           half(k) == (k - 1) \div 2
           beside == [k \in 1 .. 2 * a |->
                        LET offset == half(k)
                        IN  IF k % 2 = 1 THEN Smaller(r.end + offset, c)
                            ELSE IF offset < r.first THEN r.first - offset - 1 ELSE c]
           next == IF r.wrap_end > 0 \/ r.end = c THEN r.wrap_end ELSE r.end
           before == IF r.first = 0 THEN c - 1 ELSE r.first - 1
           around == [k \in 1 .. 2 * a |->
                        LET offset == half(k)
                        IN  IF k % 2 = 1 THEN (next + offset) % c ELSE (before - offset) % c]
<1>1. /\ r.first \in Nat /\ r.end \in Nat /\ r.wrap_end \in Nat
      /\ r.first < r.end /\ r.end <= c /\ r.wrap_end <= r.first
      /\ r.wrap_end > 0 => r.end = c
      /\ l.flow = "grid" => r.wrap_end = 0
  BY DEF RangesOk
<1>2. v = shown + r.wrap_end /\ v \in Nat /\ v \in 1 .. c /\ shown \in Nat
  BY <1>1 DEF Visible
<1>3. a \in Nat /\ a <= v
  <2>1. v \in Nat
    BY <1>2
  <2> HIDE DEF v
  <2> QED
    BY <2>1, LookaheadFacts
<1>4. W \subseteq 0 .. c - 1
  BY DEF Window
<1>5. \A i \in 0 .. c - 1 :
        /\ InVisibleRange(i, r) => i \in W
        /\ l.flow = "grid" => (i \in W <=> r.first - a <= i /\ i < r.end + a)
        /\ l.flow # "grid" => /\ Ahead(i, r, c) \in 0 .. c - 1
                              /\ InVisibleRange(i, r) <=> Ahead(i, r, c) < v
                              /\ i \in W <=> Ahead(i, r, c) < v + a \/ c - Ahead(i, r, c) <= a
  BY WindowMeans, VisibleInWindow
<1>6. Wanted(r, l, c, n) = IF v >= c THEN on_screen
                           ELSE IF l.flow = "grid" THEN on_screen \o beside ELSE on_screen \o around
  <2>1. v >= c \/ v < c
    BY <1>2
  <2> HIDE DEF on_screen, beside, around, v
  <2> QED
    BY <1>2, <2>1 DEF Wanted, on_screen, beside, around, v
<1> HIDE DEF v, a, W
<1>7. on_screen \in Seq(Nat) /\ ToSet(on_screen) = {i \in 0 .. c - 1 : InVisibleRange(i, r)}
  <2>1. \A k \in 1 .. v : on_screen[k] \in Nat
    BY <1>1, <1>2
  <2>2. on_screen \in Seq(Nat) /\ DOMAIN on_screen = 1 .. v
    <3>1. on_screen \in [1 .. v -> Nat]
      BY <2>1
    <3> HIDE DEF on_screen
    <3> QED
      BY <1>2, <3>1
  <2>3. \A k \in 1 .. v : on_screen[k] \in 0 .. c - 1 /\ InVisibleRange(on_screen[k], r)
    BY <1>1, <1>2 DEF InVisibleRange
  <2>4. ASSUME NEW i \in 0 .. c - 1, InVisibleRange(i, r) PROVE \E k \in 1 .. v : on_screen[k] = i
    <3>1. CASE r.first <= i /\ i < r.end
      <4> DEFINE k == i - r.first + 1
      <4>1. k \in 1 .. v /\ k <= shown /\ r.first + k - 1 = i
        BY <1>1, <1>2, <3>1
      <4> HIDE DEF k, shown
      <4>2. on_screen[k] = r.first + k - 1
        BY <4>1
      <4> HIDE DEF on_screen
      <4> QED
        BY <4>1, <4>2
    <3>2. CASE i < r.wrap_end
      <4> DEFINE k == i + shown + 1
      <4>1. k \in 1 .. v /\ ~(k <= shown) /\ k - 1 - shown = i
        BY <1>1, <1>2, <3>2
      <4> HIDE DEF k, shown
      <4>2. on_screen[k] = k - 1 - shown
        BY <4>1
      <4> HIDE DEF on_screen
      <4> QED
        BY <4>1, <4>2
    <3> QED
      BY <2>4, <3>1, <3>2 DEF InVisibleRange
  <2> HIDE DEF on_screen
  <2> QED
    BY <2>2, <2>3, <2>4 DEF ToSet
<1> HIDE DEF on_screen
<1>8. CASE v >= c
  <2>1. \A i \in 0 .. c - 1 : InVisibleRange(i, r)
    BY <1>1, <1>2, <1>8 DEF InVisibleRange
  <2> QED
    BY <1>4, <1>5, <1>6, <1>7, <1>8, <2>1 DEF W
<1>9. ASSUME NEW k \in 1 .. 2 * a
      PROVE  /\ half(k) \in 0 .. a - 1
             /\ k % 2 = 1 => k = 2 * half(k) + 1
             /\ k % 2 # 1 => k = 2 * half(k) + 2
  BY <1>3
<1>10. ASSUME NEW d \in 0 .. a - 1
       PROVE  /\ 2 * d + 1 \in 1 .. 2 * a /\ half(2 * d + 1) = d /\ (2 * d + 1) % 2 = 1
              /\ 2 * d + 2 \in 1 .. 2 * a /\ half(2 * d + 2) = d /\ (2 * d + 2) % 2 # 1
  BY <1>3
<1> HIDE DEF half
<1>11. CASE v < c /\ l.flow = "grid"
  <2>1. \A k \in 1 .. 2 * a : beside[k] \in Nat /\ beside[k] \in W \cup {c}
    <3> SUFFICES ASSUME NEW k \in 1 .. 2 * a PROVE beside[k] \in Nat /\ beside[k] \in W \cup {c}
      OBVIOUS
    <3>1. CASE k % 2 = 1
      <4>1. beside[k] = Smaller(r.end + half(k), c)
        BY <3>1
      <4> HIDE DEF beside
      <4>2. beside[k] = c \/ (beside[k] = r.end + half(k) /\ r.end + half(k) < c)
        BY <1>1, <1>3, <1>9, <4>1 DEF Smaller
      <4>3. r.end + half(k) \in Nat /\ r.first - a <= r.end + half(k) /\ r.end + half(k) < r.end + a
        BY <1>1, <1>3, <1>9
      <4>4. r.end + half(k) < c => r.end + half(k) \in 0 .. c - 1 /\ r.end + half(k) \in W
        <5> DEFINE i == r.end + half(k)
        <5>1. i < c => i \in 0 .. c - 1
          BY <4>3
        <5> HIDE DEF i
        <5>2. i < c => i \in W
          BY <1>5, <1>11, <4>3, <5>1 DEF i
        <5> QED
          BY <5>1, <5>2 DEF i
      <4> QED
        BY <4>2, <4>3, <4>4
    <3>2. CASE k % 2 # 1
      <4>1. beside[k] = IF half(k) < r.first THEN r.first - half(k) - 1 ELSE c
        BY <3>2
      <4> HIDE DEF beside
      <4>2. CASE half(k) < r.first
        <5> DEFINE i == r.first - half(k) - 1
        <5>1. i \in 0 .. c - 1 /\ r.first - a <= i /\ i < r.end + a
          BY <1>1, <1>3, <1>9, <4>2
        <5>2. beside[k] = i
          BY <4>1, <4>2
        <5> HIDE DEF i
        <5> QED
          BY <1>5, <1>11, <5>1, <5>2
      <4>3. CASE ~(half(k) < r.first)
        BY <4>1, <4>3
      <4> QED
        BY <4>2, <4>3
    <3> QED
      BY <3>1, <3>2
  <2>2. beside \in Seq(Nat) /\ DOMAIN beside = 1 .. 2 * a
    <3>1. beside \in [1 .. 2 * a -> Nat]
      BY <2>1
    <3>2. 2 * a \in Nat
      BY <1>3
    <3> HIDE DEF beside
    <3> QED
      BY <3>1, <3>2
  <2>3. ASSUME NEW i \in W, ~InVisibleRange(i, r) PROVE \E k \in 1 .. 2 * a : beside[k] = i
    <3>1. i \in 0 .. c - 1 /\ r.first - a <= i /\ i < r.end + a /\ ~(r.first <= i /\ i < r.end)
      BY <1>1, <1>4, <1>5, <1>11, <2>3 DEF InVisibleRange
    <3>2. CASE i >= r.end
      <4> DEFINE d == i - r.end
      <4>1. d \in 0 .. a - 1 /\ r.end + d = i
        BY <1>1, <1>3, <3>1, <3>2
      <4> HIDE DEF d
      <4>2. beside[2 * d + 1] = Smaller(r.end + d, c)
        BY <1>10, <4>1
      <4>3. beside[2 * d + 1] = i
        BY <1>1, <3>1, <4>1, <4>2 DEF Smaller
      <4> QED
        BY <1>10, <4>1, <4>3
    <3>3. CASE i < r.first
      <4> DEFINE d == r.first - i - 1
      <4>1. d \in 0 .. a - 1 /\ r.first - d - 1 = i /\ d < r.first
        BY <1>1, <1>3, <3>1, <3>3
      <4> HIDE DEF d
      <4>2. beside[2 * d + 2] = IF d < r.first THEN r.first - d - 1 ELSE c
        BY <1>10, <4>1
      <4> QED
        BY <1>10, <4>1, <4>2
    <3> QED
      BY <1>1, <3>1, <3>2, <3>3
  <2> HIDE DEF beside
  <2>4. ToSet(beside) \subseteq W \cup {c} /\ \A i \in W : InVisibleRange(i, r) \/ i \in ToSet(beside)
    BY <2>1, <2>2, <2>3 DEF ToSet
  <2>5. /\ on_screen \o beside \in Seq(Nat)
        /\ ToSet(on_screen \o beside) = ToSet(on_screen) \cup ToSet(beside)
    BY <1>7, <2>2, ConcatFacts
  <2>6. Wanted(r, l, c, n) = on_screen \o beside
    BY <1>2, <1>6, <1>11
  <2> QED
    BY <1>4, <1>5, <1>7, <2>4, <2>5, <2>6 DEF W
<1>12. CASE v < c /\ l.flow # "grid"
  <2> DEFINE Wraps(x) == IF x < 0 THEN x + c ELSE IF x < c THEN x ELSE x - c
  <2>0. \A x \in Int : -c <= x /\ x < 2 * c => x % c = Wraps(x)
    BY Remainder
  <2>1. ASSUME NEW d \in 0 .. a - 1
        PROVE  /\ (next + d) % c \in 0 .. c - 1
               /\ Ahead((next + d) % c, r, c) = IF v + d < c THEN v + d ELSE v + d - c
               /\ (before - d) % c \in 0 .. c - 1
               /\ Ahead((before - d) % c, r, c) = c - 1 - d
    <3>1. d \in Nat /\ d < a /\ a <= v /\ next \in 0 .. c - 1 /\ before \in 0 .. c - 1
      BY <1>1, <1>2, <1>3, <1>12
    <3>2. (next + d) % c = Wraps(next + d) /\ (before - d) % c = Wraps(before - d)
      <4> HIDE DEF next, before
      <4>0. v <= c /\ v \in Nat
        BY <1>2
      <4>1. next + d \in Int /\ -c <= next + d /\ next + d < 2 * c
        BY <1>3, <3>1, <4>0
      <4>2. before - d \in Int /\ -c <= before - d /\ before - d < 2 * c
        BY <1>3, <3>1, <4>0
      <4> QED
        BY <2>0, <4>1, <4>2
    <3>3. Wraps(next + d) \in 0 .. c - 1 /\ Wraps(before - d) \in 0 .. c - 1
      <4> HIDE DEF next, before
      <4> QED
        BY <1>2, <1>3, <1>12, <3>1
    <3>4. Ahead(Wraps(next + d), r, c) = IF v + d < c THEN v + d ELSE v + d - c
      BY <1>1, <1>2, <1>3, <1>12, <3>1 DEF Ahead
    <3>5. Ahead(Wraps(before - d), r, c) = c - 1 - d
      BY <1>1, <1>2, <1>3, <1>12, <3>1 DEF Ahead
    <3> HIDE DEF next, before, Wraps
    <3> QED
      BY <3>2, <3>3, <3>4, <3>5
  <2> HIDE DEF next, before
  <2>2. \A k \in 1 .. 2 * a : around[k] \in Nat /\ around[k] \in W
    <3> SUFFICES ASSUME NEW k \in 1 .. 2 * a PROVE around[k] \in Nat /\ around[k] \in W
      OBVIOUS
    <3>1. around[k] = (next + half(k)) % c \/ around[k] = (before - half(k)) % c
      OBVIOUS
    <3> HIDE DEF around
    <3>2. half(k) \in 0 .. a - 1
      BY <1>9
    <3>3. around[k] \in 0 .. c - 1
      BY <2>1, <3>1, <3>2
    <3>4. Ahead(around[k], r, c) < v + a \/ c - Ahead(around[k], r, c) <= a
      <4>1. CASE around[k] = (next + half(k)) % c
        BY <1>2, <1>3, <2>1, <3>2, <4>1
      <4>2. CASE around[k] = (before - half(k)) % c
        BY <1>2, <1>3, <2>1, <3>2, <4>2
      <4> QED
        BY <3>1, <4>1, <4>2
    <3> QED
      BY <1>5, <1>12, <3>3, <3>4
  <2>3. around \in Seq(Nat) /\ DOMAIN around = 1 .. 2 * a
    <3>1. around \in [1 .. 2 * a -> Nat]
      BY <2>2
    <3>2. 2 * a \in Nat
      BY <1>3
    <3> HIDE DEF around
    <3> QED
      BY <3>1, <3>2
  <2>4. ASSUME NEW i \in W, ~InVisibleRange(i, r) PROVE \E k \in 1 .. 2 * a : around[k] = i
    <3>1. i \in 0 .. c - 1 /\ Ahead(i, r, c) \in 0 .. c - 1 /\ Ahead(i, r, c) >= v
          /\ (Ahead(i, r, c) < v + a \/ c - Ahead(i, r, c) <= a)
      BY <1>2, <1>4, <1>5, <1>12, <2>4
    <3>2. \A j \in 0 .. c - 1 : Ahead(j, r, c) = Ahead(i, r, c) => j = i
      BY <1>1, <3>1 DEF Ahead
    <3>3. CASE Ahead(i, r, c) < v + a
      <4> DEFINE d == Ahead(i, r, c) - v
      <4>1. d \in 0 .. a - 1 /\ v + d = Ahead(i, r, c) /\ v + d < c
        BY <1>2, <1>3, <3>1, <3>3
      <4> HIDE DEF d
      <4>2. (next + d) % c = i
        BY <2>1, <3>2, <4>1
      <4>3. around[2 * d + 1] = (next + d) % c
        BY <1>10, <4>1
      <4> QED
        BY <1>10, <4>1, <4>2, <4>3
    <3>4. CASE c - Ahead(i, r, c) <= a
      <4> DEFINE d == c - 1 - Ahead(i, r, c)
      <4>1. d \in 0 .. a - 1 /\ c - 1 - d = Ahead(i, r, c)
        BY <1>2, <1>3, <3>1, <3>4
      <4> HIDE DEF d
      <4>2. (before - d) % c = i
        BY <2>1, <3>2, <4>1
      <4>3. around[2 * d + 2] = (before - d) % c
        BY <1>10, <4>1
      <4> QED
        BY <1>10, <4>1, <4>2, <4>3
    <3> QED
      BY <3>1, <3>3, <3>4
  <2> HIDE DEF around
  <2>5. ToSet(around) \subseteq W /\ \A i \in W : InVisibleRange(i, r) \/ i \in ToSet(around)
    BY <2>2, <2>3, <2>4 DEF ToSet
  <2>6. /\ on_screen \o around \in Seq(Nat)
        /\ ToSet(on_screen \o around) = ToSet(on_screen) \cup ToSet(around)
    BY <1>7, <2>3, ConcatFacts
  <2>7. Wanted(r, l, c, n) = on_screen \o around
    BY <1>2, <1>6, <1>12
  <2> QED
    BY <1>4, <1>5, <1>7, <2>5, <2>6, <2>7 DEF W
<1> QED
  BY <1>2, <1>8, <1>11, <1>12

-----------------------------------------------------------------------------
(* The selection stays among the items.                                    *)

LEMMA ScrollKeeps ==
  ASSUME NEW c \in Nat \ {0}, NEW l, LayoutOk(l), NEW g, GridOk(g), g.selected < c
  PROVE  LET h == ScrollIntoView(g, l, c) IN GridOk(h) /\ h.selected < c /\ Scrolled(h, l, c)
<1> DEFINE h == ScrollIntoView(g, l, c)
<1>1. h.first_row \in Nat /\ Scrolled(h, l, c)
  BY ScrollFacts
<1>2. PICK row : h = [g EXCEPT !.first_row = row]
  BY DEF ScrollIntoView
<1> HIDE DEF h
<1>3. h.first_row = row /\ h.selected = g.selected
  BY <1>2 DEF GridOk
<1>4. GridOk(h)
  BY <1>1, <1>2, <1>3 DEF GridOk
<1> QED
  BY <1>1, <1>3, <1>4 DEF h

LEMMA PlacedAt ==
  ASSUME NEW g, GridOk(g), NEW sel \in Nat, NEW cursor \in Int, NEW c, sel < c,
         NEW h, h = [g EXCEPT !.cursor = cursor, !.selected = sel]
  PROVE  GridOk(h) /\ h.selected < c
<1>1. h = [selected |-> sel, cursor |-> cursor, first_row |-> g.first_row] /\ g.first_row \in Nat
  BY DEF GridOk
<1> QED
  BY <1>1 DEF GridOk

LEMMA ShiftFacts ==
  ASSUME NEW row \in Nat, NEW amount \in Nat, NEW last \in Nat, NEW forward
  PROVE  ShiftRow(row, amount, last, forward) \in 0 .. last
<1> DEFINE from == Smaller(row, last)
<1>1. from \in 0 .. last
  BY DEF Smaller
<1> HIDE DEF from
<1>2. Smaller(from + amount, last) \in 0 .. last
  BY <1>1 DEF Smaller
<1>3. (IF amount < from THEN from - amount ELSE 0) \in 0 .. last
  BY <1>1
<1>4. ShiftRow(row, amount, last, forward) =
        IF forward THEN Smaller(from + amount, last) ELSE IF amount < from THEN from - amount ELSE 0
  BY DEF ShiftRow, from
<1> QED
  BY <1>2, <1>3, <1>4

LEMMA PageKeeps ==
  ASSUME NEW c \in Nat \ {0}, NEW l, LayoutOk(l), NEW g, GridOk(g), g.selected < c, NEW forward
  PROVE  GridOk(MovePage(g, l, c, forward)) /\ MovePage(g, l, c, forward).selected < c
<1> DEFINE last_row == RowOf(l, c - 1)
           row == ShiftRow(RowOf(l, g.selected), l.rows, last_row, forward)
           column == g.selected % l.columns
           max_first == IF last_row + 1 > l.rows THEN last_row + 1 - l.rows ELSE 0
           first == ShiftRow(g.first_row, l.rows, max_first, forward)
           selected == Smaller(row * l.columns + column, c - 1)
<1>1. c - 1 \in Nat /\ l.columns \in Nat \ {0} /\ l.rows \in Nat /\ g.selected \in Nat /\ g.first_row \in Nat
  BY DEF LayoutOk, GridOk
<1>2. last_row \in Nat /\ RowOf(l, g.selected) \in Nat
  BY <1>1, Quotient DEF RowOf
<1>3. row \in 0 .. last_row
  <2> HIDE DEF last_row
  <2> QED
    BY <1>1, <1>2, ShiftFacts
<1>4. max_first \in Nat
  BY <1>1, <1>2
<1>5. first \in 0 .. max_first
  <2> HIDE DEF max_first
  <2> QED
    BY <1>1, <1>4, ShiftFacts
<1>6. column \in Nat
  BY <1>1
<1> HIDE DEF last_row, row, column, max_first
<1>7. row * l.columns \in Nat
  BY <1>1, <1>2, <1>3
<1>8. selected \in Nat /\ selected < c
  BY <1>1, <1>6, <1>7 DEF Smaller
<1>9. first \in Nat
  BY <1>4, <1>5
<1>10. MovePage(g, l, c, forward) = [g EXCEPT !.selected = selected, !.first_row = first]
  BY DEF MovePage, last_row, row, column, max_first
<1> HIDE DEF selected, first
<1> QED
  BY <1>8, <1>9, <1>10 DEF GridOk

LEMMA StepKeeps ==
  ASSUME NEW c \in Nat \ {0}, NEW l, LayoutOk(l), NEW sel \in Nat, sel < c, NEW move \in {"left", "right", "up", "down"}
  PROVE  GridStep(sel, l, c, move) \in Nat /\ GridStep(sel, l, c, move) < c
<1>1. l.columns \in Nat \ {0}
  BY DEF LayoutOk
<1>2. CASE move = "left"
  BY <1>2 DEF GridStep
<1>3. CASE move = "right"
  BY <1>3 DEF GridStep, Smaller
<1>4. CASE move = "up"
  BY <1>1, <1>4 DEF GridStep
<1>5. CASE move = "down"
  <2>1. GridStep(sel, l, c, move) \in {sel + l.columns, c - 1, sel}
          /\ (GridStep(sel, l, c, move) = sel + l.columns => sel + l.columns <= c - 1 \/ GridStep(sel, l, c, move) \in {c - 1, sel})
    BY <1>5 DEF GridStep
  <2> QED
    BY <1>1, <2>1
<1> QED
  BY <1>2, <1>3, <1>4, <1>5

LEMMA SteppedKeeps ==
  ASSUME NEW c \in Nat \ {0}, NEW l, LayoutOk(l), NEW g, GridOk(g), g.selected < c, NEW move \in Moves
  PROVE  GridOk(Stepped(g, l, c, move)) /\ Stepped(g, l, c, move).selected < c
<1> DEFINE step == CarouselStep(l.flow, move)
           ahead == IF g.cursor + step \in MinSlot .. MaxSlot THEN g.cursor + step ELSE g.cursor
           moved == Stepped(g, l, c, move)
<1>1. step \in {-1, 0, 1} /\ g.cursor \in Int /\ g.selected \in Nat
  BY DEF CarouselStep, GridOk
<1> HIDE DEF step
<1>2. ahead \in Int
  BY <1>1
<1> HIDE DEF ahead
<1>3. CASE step # 0
  <2> DEFINE i == CarouselIndex(ahead, c)
  <2>1. moved = [g EXCEPT !.cursor = ahead, !.selected = i]
    <3>1. l.flow # "grid"
      BY <1>3 DEF CarouselStep, step
    <3> QED
      BY <1>3, <3>1 DEF Stepped, step, ahead
  <2>2. i \in 0 .. c - 1
    BY <1>2, CarouselIndexType
  <2> HIDE DEF moved, i
  <2>3. i \in Nat /\ i < c
    BY <2>2
  <2>4. GridOk(moved) /\ moved.selected < c
    BY <1>2, <2>1, <2>3, PlacedAt
  <2> QED
    BY <2>4 DEF moved
<1>4. CASE step = 0 /\ move \in {"first", "last"}
  <2> DEFINE i == IF move = "first" THEN 0 ELSE c - 1
  <2>1. moved = [g EXCEPT !.cursor = i, !.selected = i]
    <3>1. g = [selected |-> g.selected, cursor |-> g.cursor, first_row |-> g.first_row]
      BY DEF GridOk
    <3>2. moved = [g EXCEPT !.selected = i, !.cursor = i]
      BY <1>4 DEF Stepped, step
    <3> HIDE DEF moved, i
    <3> QED
      BY <3>1, <3>2
  <2>2. i \in Nat /\ i \in Int /\ i < c
    OBVIOUS
  <2> HIDE DEF moved, i
  <2>3. GridOk(moved) /\ moved.selected < c
    BY <2>1, <2>2, PlacedAt
  <2> QED
    BY <2>3 DEF moved
<1>6. CASE step = 0 /\ l.flow = "grid" /\ move \in {"page_up", "page_down"}
  <2>1. moved = MovePage(g, l, c, move = "page_down")
    BY <1>6 DEF Stepped, step
  <2> QED
    BY <2>1, PageKeeps
<1>7. CASE step = 0 /\ l.flow = "grid" /\ move \in {"left", "right", "up", "down"}
  <2> DEFINE sel == GridStep(g.selected, l, c, move)
  <2>1. moved = [g EXCEPT !.selected = sel]
    BY <1>7 DEF Stepped, step
  <2>2. sel \in Nat /\ sel < c
    BY <1>1, <1>7, StepKeeps
  <2> HIDE DEF moved, sel
  <2> QED
    BY <2>1, <2>2 DEF GridOk, moved
<1>8. CASE step = 0 /\ l.flow # "grid" /\ move \notin {"first", "last"}
  BY <1>8 DEF Stepped, step
<1> QED
  BY <1>3, <1>4, <1>6, <1>7, <1>8 DEF Moves

LEMMA MoveKeeps ==
  ASSUME NEW c \in Nat \ {0}, NEW l, LayoutOk(l), NEW g, GridOk(g), g.selected < c, NEW move \in Moves
  PROVE  LET h == GridMove(g, l, c, move) IN GridOk(h) /\ h.selected < c /\ Scrolled(h, l, c)
<1> DEFINE moved == Stepped(g, l, c, move)
           aligned == IF l.flow = "grid" THEN [moved EXCEPT !.cursor = moved.selected] ELSE moved
<1>1. GridOk(moved) /\ moved.selected < c
  BY SteppedKeeps
<1> HIDE DEF moved
<1>2. GridOk(aligned) /\ aligned.selected < c
  BY <1>1 DEF GridOk
<1>3. GridMove(g, l, c, move) = ScrollIntoView(aligned, l, c)
  BY DEF GridMove, moved
<1> HIDE DEF aligned
<1> QED
  BY <1>2, <1>3, ScrollKeeps

LEMMA SelectKeeps ==
  ASSUME NEW c \in Nat \ {0}, NEW l, LayoutOk(l), NEW g, GridOk(g), NEW index \in 0 .. c - 1, NEW slot \in Int
  PROVE  LET h == GridSelect(g, l, c, index, slot) IN GridOk(h) /\ h.selected < c /\ Scrolled(h, l, c)
<1> DEFINE names == l.flow # "grid" /\ CarouselIndex(slot, c) = index
           cursor == IF names THEN slot ELSE index
           picked == [g EXCEPT !.selected = index, !.cursor = cursor]
<1>1. cursor \in Int
  OBVIOUS
<1>2. GridSelect(g, l, c, index, slot) = ScrollIntoView(picked, l, c)
  BY DEF GridSelect
<1> HIDE DEF cursor
<1>3. picked = [g EXCEPT !.cursor = cursor, !.selected = index]
  <2>1. g = [selected |-> g.selected, cursor |-> g.cursor, first_row |-> g.first_row]
    BY DEF GridOk
  <2> QED
    BY <2>1
<1>4. index \in Nat /\ index < c
  OBVIOUS
<1> HIDE DEF picked
<1>5. GridOk(picked) /\ picked.selected < c
  BY <1>1, <1>3, <1>4, PlacedAt
<1> QED
  BY <1>2, <1>5, ScrollKeeps
=============================================================================
