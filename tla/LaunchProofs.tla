---------------------------- MODULE LaunchProofs ----------------------------
(***************************************************************************)
(* Proofs about the modules of a launch: Launch, from its configuration    *)
(* (Settings) over the walk (Scan) to what is built and taken down around  *)
(* the run (Session); and Instance, with which it shares no state: who may *)
(* show a panel.                                                           *)
(* They hold for any arguments and any file, any tree and limits of the    *)
(* walk, any number of launches and crashes, any keys, outputs and setups. *)
(***************************************************************************)
EXTENDS Launch, Instance,
        SequenceTheorems, FiniteSetTheorems, WellFoundedInduction, TLAPS

-----------------------------------------------------------------------------
(* Settings: what is configured is what was said.                          *)

(* Numbers.                                                                *)

LEMMA Least ==
  ASSUME NEW T, T \subseteq Nat, T # {}
  PROVE  \E m \in T : \A k \in T : m <= k
<1> DEFINE R == OpToRel(<, Nat)
<1>1. IsWellFoundedOn(R, Nat)
  BY NatLessThanWellFounded
<1>2. \A x, y \in Nat : x < y => <<x, y>> \in R
  BY DEF OpToRel
<1> HIDE DEF R
<1>3. PICK m \in T : \A y \in T : ~(<<y, m>> \in R)
  BY <1>1, WFMin
<1>4. ASSUME NEW k \in T PROVE m <= k
  <2>1. ~(k < m) /\ k \in Nat /\ m \in Nat
    BY <1>2, <1>3
  <2> QED
    BY <2>1
<1> QED
  BY <1>4

LEMMA Greatest ==
  ASSUME NEW n \in Nat, NEW T, T \subseteq 1 .. n, T # {}
  PROVE  \E m \in T : \A k \in T : k <= m
<1> DEFINE S == {i \in 0 .. n : n - i \in T}
<1>1. S \subseteq Nat /\ S # {}
  <2>1. PICK k \in T : TRUE
    OBVIOUS
  <2>2. n - k \in 0 .. n /\ n - (n - k) = k
    BY <2>1
  <2>3. n - (n - k) \in T
    BY <2>2
  <2>4. n - k \in S
    BY <2>2, <2>3
  <2>5. S \subseteq Nat
    OBVIOUS
  <2> HIDE DEF S
  <2> QED
    BY <2>4, <2>5
<1>2. PICK i \in S : \A j \in S : i <= j
  <2> HIDE DEF S
  <2> QED
    BY <1>1, Least
<1>3. ASSUME NEW k \in T PROVE k <= n - i
  <2>1. k \in 1 .. n /\ n - k \in 0 .. n /\ n - (n - k) = k
    OBVIOUS
  <2>2. n - k \in S
    BY <2>1
  <2>3. i <= n - k /\ i \in 0 .. n
    BY <1>2, <2>2
  <2> QED
    BY <2>1, <2>3
<1> QED
  BY <1>2, <1>3

-----------------------------------------------------------------------------
(* The last of some places of a sequence.                                  *)

IsLast(i, places) == i \in places /\ \A j \in places : j <= i

LEMMA LatestIs ==
  ASSUME NEW s, NEW places, places \subseteq Int, NEW i, IsLast(i, places)
  PROVE  Latest(s, places) = s[i]
<1> DEFINE c == CHOOSE k \in places : \A j \in places : j <= k
<1>1. c \in places /\ \A j \in places : j <= c
  BY DEF IsLast
<1>2. c <= i /\ i <= c /\ c \in Int /\ i \in Int
  BY <1>1 DEF IsLast
<1>3. c = i
  BY <1>2
<1> QED
  BY <1>3 DEF Latest

LEMMA LatestSame ==
  ASSUME NEW s, NEW t, NEW n \in Nat, NEW places, places \subseteq 1 .. n, places # {},
         \A i \in places : t[i] = s[i]
  PROVE  Latest(t, places) = Latest(s, places)
<1>1. PICK i \in places : IsLast(i, places)
  BY Greatest DEF IsLast
<1>2. t[i] = s[i] /\ places \subseteq Int
  OBVIOUS
<1> QED
  BY <1>1, <1>2, LatestIs

LEMMA LatestNew ==
  ASSUME NEW s, NEW n \in Nat, NEW places, places \subseteq 1 .. n
  PROVE  Latest(s, places \union {n + 1}) = s[n + 1]
<1>1. IsLast(n + 1, places \union {n + 1}) /\ places \union {n + 1} \subseteq Int
  BY DEF IsLast
<1> QED
  BY <1>1, LatestIs

LEMMA LatestIn ==
  ASSUME NEW X, NEW s \in Seq(X), NEW places, places \subseteq DOMAIN s, places # {}
  PROVE  \E i \in places : Latest(s, places) = s[i] /\ IsLast(i, places)
<1>1. Len(s) \in Nat /\ DOMAIN s = 1 .. Len(s)
  BY LenProperties
<1>2. PICK i \in places : IsLast(i, places)
  BY <1>1, Greatest DEF IsLast
<1>3. places \subseteq Int
  BY <1>1
<1> QED
  BY <1>2, <1>3, LatestIs
-----------------------------------------------------------------------------
(* The command line.                                                       *)

Names == Scalars \union Lists \union {"command", "config", "no-config"}

Spoken == [kind : {"key", "item", "no", "command", "config"}, of : Names,
           value : OptionValues \union {Default}]

Option == [values : [Scalars -> OptionValues \union {Default}],
           lists : [Lists -> [set : BOOLEAN, items : Seq(OptionValues)]],
           command : BOOLEAN, no_config : BOOLEAN, path_set : BOOLEAN]

\* What kind of option is about what.
Kinded ==
  \A i \in DOMAIN said :
    /\ said[i].kind = "key" <=> said[i].of \in Scalars
    /\ said[i].kind = "key" => said[i].value \in OptionValues
    /\ said[i].kind \in {"item", "no"} <=> said[i].of \in Lists
    /\ said[i].kind = "command" <=> said[i].of = "command"
    /\ said[i].kind = "config" <=> said[i].of \in {"config", "no-config"}

ValuesSaid ==
  \A k \in Scalars :
    options.values[k] = IF Sayings(k) # {} THEN Latest(said, Sayings(k)).value ELSE Default

ListsSaid ==
  \A l \in Lists :
    /\ options.lists[l].set <=> Sayings(l) # {}
    /\ options.lists[l].set => ItemsSaid(l, options.lists[l].items)

RestSaid ==
  /\ options.command <=> Sayings("command") # {}
  /\ options.path_set <=> About # {} /\ Latest(said, About).of = "config"
  /\ options.no_config <=> About # {} /\ Latest(said, About).of = "no-config"

(* What was parsed is what was said.                                       *)
SaidInv ==
  /\ said \in Seq(Spoken) /\ Kinded
  /\ options \in Option
  /\ ValuesSaid /\ ListsSaid /\ RestSaid

LEMMA SaidGrows ==
  ASSUME said \in Seq(Spoken), NEW o \in Spoken, said' = Append(said, o)
  PROVE  /\ said' \in Seq(Spoken) /\ Len(said) \in Nat
         /\ DOMAIN said = 1 .. Len(said) /\ DOMAIN said' = 1 .. Len(said) + 1
         /\ Len(said') = Len(said) + 1
         /\ \A i \in 1 .. Len(said) : said'[i] = said[i]
         /\ said'[Len(said) + 1] = o
BY AppendProperties, LenProperties

LEMMA SayingsGrow ==
  ASSUME said \in Seq(Spoken), NEW o \in Spoken, said' = Append(said, o)
  PROVE  /\ \A name : Sayings(name)' = IF o.of = name THEN Sayings(name) \union {Len(said) + 1}
                                       ELSE Sayings(name)
         /\ About' = IF o.kind = "config" THEN About \union {Len(said) + 1} ELSE About
         /\ \A name : Sayings(name) \subseteq 1 .. Len(said)
         /\ About \subseteq 1 .. Len(said)
<1>1. /\ Len(said) \in Nat
      /\ DOMAIN said = 1 .. Len(said) /\ DOMAIN said' = 1 .. Len(said) + 1
      /\ \A i \in 1 .. Len(said) : said'[i] = said[i]
      /\ said'[Len(said) + 1] = o
  BY SaidGrows
<1>2. \A i : i \in DOMAIN said' <=> i \in DOMAIN said \/ i = Len(said) + 1
  BY <1>1
<1>3. ASSUME NEW name
      PROVE  Sayings(name)' = IF o.of = name THEN Sayings(name) \union {Len(said) + 1} ELSE Sayings(name)
  BY <1>1, <1>2 DEF Sayings
<1>4. About' = IF o.kind = "config" THEN About \union {Len(said) + 1} ELSE About
  BY <1>1, <1>2 DEF About
<1> QED
  BY <1>1, <1>3, <1>4 DEF Sayings, About

\* The values places some places of s are items, in their order.
InOrder(s, places, items) ==
  \E place \in [DOMAIN items -> places] :
    /\ \A i \in places : \E k \in DOMAIN items : place[k] = i
    /\ \A j, k \in DOMAIN items : j < k => place[j] < place[k]
    /\ \A k \in DOMAIN items : items[k] = s[place[k]].value

LEMMA InOrderEmpty ==
  ASSUME NEW s PROVE InOrder(s, {}, <<>>)
<1>1. DOMAIN <<>> = {}
  OBVIOUS
<1>2. [k \in {} |-> k] \in [{} -> {}]
  OBVIOUS
<1> QED
  BY <1>1, <1>2 DEF InOrder

LEMMA InOrderSame ==
  ASSUME NEW s, NEW t, NEW places, NEW items, \A i \in places : t[i] = s[i], InOrder(s, places, items)
  PROVE  InOrder(t, places, items)
BY DEF InOrder

LEMMA InOrderGrows ==
  ASSUME NEW n \in Nat, NEW s, NEW t, NEW places, places \subseteq 1 .. n, NEW V, NEW items \in Seq(V),
         NEW v \in V, \A i \in places : t[i] = s[i], t[n + 1].value = v, InOrder(s, places, items)
  PROVE  InOrder(t, places \union {n + 1}, Append(items, v))
<1> DEFINE m == Len(items)
           more == Append(items, v)
<1>1. /\ m \in Nat /\ DOMAIN items = 1 .. m /\ DOMAIN more = 1 .. m + 1
      /\ \A k \in 1 .. m : more[k] = items[k]
      /\ more[m + 1] = v
  BY AppendProperties, LenProperties
<1>0. PICK place \in [DOMAIN items -> places] :
        /\ \A i \in places : \E k \in DOMAIN items : place[k] = i
        /\ \A j, k \in DOMAIN items : j < k => place[j] < place[k]
        /\ \A k \in DOMAIN items : items[k] = s[place[k]].value
  BY DEF InOrder
<1>2. /\ place \in [1 .. m -> places]
      /\ \A i \in places : \E k \in 1 .. m : place[k] = i
      /\ \A j, k \in 1 .. m : j < k => place[j] < place[k]
      /\ \A k \in 1 .. m : place[k] \in places /\ items[k] = s[place[k]].value
  BY <1>0, <1>1
<1> DEFINE longer == [k \in 1 .. m + 1 |-> IF k = m + 1 THEN n + 1 ELSE place[k]]
<1> HIDE DEF m, more
<1>3. \A k \in 1 .. m + 1 : k # m + 1 => k \in 1 .. m
  BY <1>1
<1>4. \A k \in 1 .. m : k \in 1 .. m + 1 /\ k # m + 1 /\ longer[k] = place[k]
  BY <1>1
<1>5. longer[m + 1] = n + 1 /\ m + 1 \in 1 .. m + 1
  BY <1>1
<1>6. longer \in [1 .. m + 1 -> places \union {n + 1}]
  BY <1>2, <1>3
<1> HIDE DEF longer
<1>7. \A i \in places \union {n + 1} : \E k \in 1 .. m + 1 : longer[k] = i
  BY <1>2, <1>4, <1>5
<1>8. ASSUME NEW j \in 1 .. m + 1, NEW k \in 1 .. m + 1, j < k PROVE longer[j] < longer[k]
  <2>0. j \in 1 .. m
    BY <1>1, <1>8
  <2>1. longer[j] = place[j] /\ place[j] \in places /\ place[j] \in 1 .. n
    BY <1>2, <1>4, <2>0
  <2>2. CASE k = m + 1
    BY <1>5, <2>1, <2>2
  <2>3. CASE k \in 1 .. m
    BY <1>2, <1>4, <1>8, <2>0, <2>1, <2>3
  <2> QED
    BY <1>3, <2>2, <2>3
<1>9. ASSUME NEW k \in 1 .. m + 1 PROVE more[k] = t[longer[k]].value
  <2>1. CASE k = m + 1
    BY <1>1, <1>5, <2>1
  <2>2. CASE k \in 1 .. m
    <3>1. place[k] \in places /\ items[k] = s[place[k]].value /\ longer[k] = place[k]
      BY <1>2, <1>4, <2>2
    <3>2. t[place[k]] = s[place[k]]
      BY <3>1
    <3>3. more[k] = items[k]
      BY <1>1, <2>2
    <3> QED
      BY <3>1, <3>2, <3>3
  <2> QED
    BY <1>3, <2>1, <2>2
<1>10. DOMAIN more = 1 .. m + 1
  BY <1>1
<1>11. /\ longer \in [DOMAIN more -> places \union {n + 1}]
       /\ \A i \in places \union {n + 1} : \E k \in DOMAIN more : longer[k] = i
       /\ \A j, k \in DOMAIN more : j < k => longer[j] < longer[k]
       /\ \A k \in DOMAIN more : more[k] = t[longer[k]].value
  BY <1>6, <1>7, <1>8, <1>9, <1>10
<1>12. InOrder(t, places \union {n + 1}, more)
  BY <1>11 DEF InOrder
<1> QED
  BY <1>12 DEF more

\* The places of Kept, in said as it is.
LEMMA ItemsAre ==
  \A l, items : ItemsSaid(l, items) <=> InOrder(said, Kept(l), items)
BY DEF ItemsSaid, InOrder

LEMMA KeptGrows ==
  ASSUME said \in Seq(Spoken), NEW o \in Spoken, said' = Append(said, o), NEW l
  PROVE  /\ Kept(l) \subseteq 1 .. Len(said)
         /\ o.of # l => Kept(l)' = Kept(l)
         /\ o.of = l /\ o.kind = "item" => Kept(l)' = Kept(l) \union {Len(said) + 1}
         /\ o.of = l /\ o.kind = "no" => Kept(l)' = {}
<1> DEFINE n == Len(said)
           S == Sayings(l)
<1>1. /\ n \in Nat
      /\ \A i \in 1 .. n : said'[i] = said[i]
      /\ said'[n + 1] = o
  BY SaidGrows
<1>2. S \subseteq 1 .. n /\ S' = IF o.of = l THEN S \union {n + 1} ELSE S
  BY SayingsGrow
<1>3. /\ Kept(l) = {i \in S : \A j \in S : i <= j => said[j].kind = "item"}
      /\ Kept(l)' = {i \in S' : \A j \in S' : i <= j => said'[j].kind = "item"}
  BY DEF Kept
<1>4. Kept(l) \subseteq 1 .. n
  BY <1>2, <1>3
<1>5. ASSUME o.of # l PROVE Kept(l)' = Kept(l)
  BY <1>1, <1>2, <1>3, <1>5
<1>6. ASSUME o.of = l, o.kind = "item" PROVE Kept(l)' = Kept(l) \union {n + 1}
  <2>1. S' = S \union {n + 1} /\ \A j \in S : j \in 1 .. n /\ j <= n + 1 /\ ~(n + 1 <= j)
    BY <1>1, <1>2, <1>6
  <2>2. n + 1 <= n + 1 /\ said'[n + 1].kind = "item" /\ \A j \in S : said'[j] = said[j]
    BY <1>1, <1>6, <2>1
  <2> HIDE DEF S, n
  <2>3. ASSUME NEW i PROVE i \in Kept(l)' <=> i \in Kept(l) \union {n + 1}
    BY <1>3, <2>1, <2>2
  <2> QED
    BY <2>3
<1>7. ASSUME o.of = l, o.kind = "no" PROVE Kept(l)' = {}
  <2>1. S' = S \union {n + 1} /\ \A j \in S' : j <= n + 1
    BY <1>1, <1>2, <1>7
  <2>2. said'[n + 1].kind # "item"
    BY <1>1, <1>7
  <2> HIDE DEF S, n
  <2> QED
    BY <1>3, <2>1, <2>2
<1> QED
  BY <1>4, <1>5, <1>6, <1>7

(* An option changes what its name stands for; Mentions is that, and what  *)
(* it leaves alone.                                                        *)
LEMMA Unmentioned ==
  ASSUME SaidInv, NEW o \in Spoken, said' = Append(said, o), NEW name, o.of # name
  PROVE  /\ Sayings(name)' = Sayings(name)
         /\ Sayings(name) # {} => Latest(said, Sayings(name))' = Latest(said, Sayings(name))
         /\ Kept(name)' = Kept(name)
         /\ \A i \in Kept(name) : said'[i] = said[i]
<1> DEFINE S == Sayings(name)
<1>1. /\ said \in Seq(Spoken) /\ Len(said) \in Nat
      /\ \A i \in 1 .. Len(said) : said'[i] = said[i]
  BY SaidGrows DEF SaidInv
<1>2. S' = S /\ S \subseteq 1 .. Len(said)
  BY <1>1, SayingsGrow
<1>3. Latest(said, S)' = Latest(said', S')
  BY DEF Latest
<1>4. Kept(name)' = Kept(name) /\ Kept(name) \subseteq 1 .. Len(said)
  BY <1>1, KeptGrows
<1>5. ASSUME S # {} PROVE Latest(said', S') = Latest(said, S)
  <2> HIDE DEF S
  <2>1. \A i \in S : said'[i] = said[i]
    BY <1>1, <1>2
  <2>2. Latest(said', S) = Latest(said, S)
    BY <1>1, <1>2, <1>5, <2>1, LatestSame
  <2> QED
    BY <1>2, <2>2
<1> QED
  BY <1>1, <1>2, <1>3, <1>4, <1>5

LEMMA Mentioned ==
  ASSUME SaidInv, NEW o \in Spoken, said' = Append(said, o)
  PROVE  Sayings(o.of)' # {} /\ Latest(said, Sayings(o.of))' = o
<1> DEFINE S == Sayings(o.of)
<1>1. said \in Seq(Spoken) /\ Len(said) \in Nat /\ said'[Len(said) + 1] = o
  BY SaidGrows DEF SaidInv
<1>2. S' = S \union {Len(said) + 1} /\ S \subseteq 1 .. Len(said)
  BY <1>1, SayingsGrow
<1>3. Latest(said, S)' = Latest(said', S')
  BY DEF Latest
<1>4. Latest(said', S \union {Len(said) + 1}) = o
  <2> HIDE DEF S
  <2>1. Latest(said', S \union {Len(said) + 1}) = said'[Len(said) + 1]
    BY <1>1, <1>2, LatestNew
  <2> QED
    BY <1>1, <2>1
<1> QED
  BY <1>2, <1>3, <1>4

LEMMA KindedStays ==
  ASSUME SaidInv, NEW o \in Spoken, said' = Append(said, o),
         o.kind = "key" <=> o.of \in Scalars, o.kind = "key" => o.value \in OptionValues,
         o.kind \in {"item", "no"} <=> o.of \in Lists,
         o.kind = "command" <=> o.of = "command",
         o.kind = "config" <=> o.of \in {"config", "no-config"}
  PROVE  said' \in Seq(Spoken) /\ Kinded'
<1>1. /\ said' \in Seq(Spoken) /\ Len(said) \in Nat
      /\ DOMAIN said = 1 .. Len(said) /\ DOMAIN said' = 1 .. Len(said) + 1
      /\ \A i \in 1 .. Len(said) : said'[i] = said[i]
      /\ said'[Len(said) + 1] = o
  BY SaidGrows DEF SaidInv
<1>2. \A i \in DOMAIN said' : i = Len(said) + 1 \/ i \in DOMAIN said
  BY <1>1
<1> QED
  BY <1>1, <1>2 DEF Kinded, SaidInv

LEMMA ValuesStay ==
  ASSUME SaidInv, NEW o \in Spoken, said' = Append(said, o),
         o.of \notin Scalars, \A k \in Scalars : options'.values[k] = options.values[k]
  PROVE  ValuesSaid'
<1>1. ASSUME NEW k \in Scalars
      PROVE  options'.values[k] = IF Sayings(k)' # {} THEN Latest(said, Sayings(k))'.value ELSE Default
  <2>1. options'.values[k] = IF Sayings(k) # {} THEN Latest(said, Sayings(k)).value ELSE Default
    BY DEF SaidInv, ValuesSaid
  <2> QED
    BY <2>1, Unmentioned
<1> QED
  BY <1>1 DEF ValuesSaid

LEMMA ListStays ==
  ASSUME SaidInv, NEW o \in Spoken, said' = Append(said, o),
         NEW l \in Lists, o.of # l, options'.lists[l] = options.lists[l]
  PROVE  /\ options'.lists[l].set <=> Sayings(l)' # {}
         /\ options'.lists[l].set => InOrder(said', Kept(l)', options'.lists[l].items)
<1>1. /\ options.lists[l].set <=> Sayings(l) # {}
      /\ options.lists[l].set => InOrder(said, Kept(l), options.lists[l].items)
  BY ItemsAre DEF SaidInv, ListsSaid
<1> QED
  BY <1>1, Unmentioned, InOrderSame

LEMMA ListsAre ==
  /\ ListsSaid <=> \A l \in Lists :
                     /\ options.lists[l].set <=> Sayings(l) # {}
                     /\ options.lists[l].set => InOrder(said, Kept(l), options.lists[l].items)
  /\ ListsSaid' <=> \A l \in Lists :
                      /\ options'.lists[l].set <=> Sayings(l)' # {}
                      /\ options'.lists[l].set => InOrder(said', Kept(l)', options'.lists[l].items)
<1>1. \A l, items : ItemsSaid(l, items)' <=> InOrder(said', Kept(l)', items)
  BY DEF ItemsSaid, InOrder
<1> QED
  BY <1>1, ItemsAre DEF ListsSaid, ItemsSaid, InOrder

LEMMA RestStays ==
  ASSUME SaidInv, NEW o \in Spoken, said' = Append(said, o),
         o.kind \in {"key", "item", "no"}, o.of \in Scalars \union Lists,
         options'.command = options.command, options'.path_set = options.path_set,
         options'.no_config = options.no_config
  PROVE  RestSaid'
<1>1. o.of # "command"
  BY NamesAssumption
<1>2. Sayings("command")' = Sayings("command")
  BY <1>1, Unmentioned
<1>3. said \in Seq(Spoken) /\ DOMAIN said = 1 .. Len(said)
  BY SaidGrows DEF SaidInv
<1>4. About' = About /\ About \subseteq DOMAIN said
  BY <1>3, SayingsGrow
<1>5. ASSUME About # {} PROVE Latest(said, About)' = Latest(said, About)
  <2>1. Latest(said, About)' = Latest(said', About)
    BY <1>4 DEF Latest
  <2>2. Len(said) \in Nat /\ \A i \in About : said'[i] = said[i]
    BY <1>3, <1>4, SaidGrows
  <2>3. Latest(said', About) = Latest(said, About)
    BY <1>3, <1>4, <1>5, <2>2, LatestSame
  <2> QED
    BY <2>1, <2>3
<1> QED
  BY <1>2, <1>4, <1>5 DEF RestSaid, SaidInv

(* Each option keeps what was parsed equal to what was said.               *)
LEMMA KeyKeeps ==
  ASSUME SaidInv, NEW k \in Scalars, NEW v \in OptionValues, KeyOption(k, v)
  PROVE  SaidInv'
<1> DEFINE o == [kind |-> "key", of |-> k, value |-> v]
<1>1. said' = Append(said, o) /\ options' = [options EXCEPT !.values[k] = v]
  BY DEF KeyOption, Say
<1>2. o \in Spoken /\ o.of = k /\ o.kind = "key" /\ o.value = v
  BY DEF Spoken, Names
<1>3. k \notin Lists /\ k \notin {"command", "config", "no-config"}
  BY NamesAssumption
<1>4. options \in Option
  BY DEF SaidInv
<1>5. /\ options' \in Option /\ options'.lists = options.lists /\ options'.command = options.command
      /\ options'.path_set = options.path_set /\ options'.no_config = options.no_config
      /\ options'.values = [options.values EXCEPT ![k] = v]
  BY <1>1, <1>4 DEF Option
<1> HIDE DEF o
<1>6. said' \in Seq(Spoken) /\ Kinded'
  BY <1>1, <1>2, <1>3, KindedStays
<1>7. ListsSaid'
  BY <1>1, <1>2, <1>3, <1>5, ListStays, ListsAre
<1>8. RestSaid'
  BY <1>1, <1>2, <1>5, RestStays
<1>9. ASSUME NEW j \in Scalars
      PROVE  options'.values[j] = IF Sayings(j)' # {} THEN Latest(said, Sayings(j))'.value ELSE Default
  <2>1. CASE j = k
    <3>1. Sayings(k)' # {} /\ Latest(said, Sayings(k))' = o
      BY <1>1, <1>2, Mentioned
    <3>2. options'.values[k] = v
      BY <1>4, <1>5 DEF Option
    <3> QED
      BY <1>2, <2>1, <3>1, <3>2
  <2>2. CASE j # k
    <3>1. options.values[j] = IF Sayings(j) # {} THEN Latest(said, Sayings(j)).value ELSE Default
      BY DEF SaidInv, ValuesSaid
    <3>2. options'.values[j] = options.values[j]
      BY <1>4, <1>5, <2>2 DEF Option
    <3> QED
      BY <1>1, <1>2, <2>2, <3>1, <3>2, Unmentioned
  <2> QED
    BY <2>1, <2>2
<1>10. ValuesSaid'
  BY <1>9 DEF ValuesSaid
<1> QED
  BY <1>5, <1>6, <1>7, <1>8, <1>10 DEF SaidInv

\* An option about a list, whatever it does to it.
LEMMA ListKeeps ==
  ASSUME SaidInv, NEW l \in Lists, NEW o \in Spoken, said' = Append(said, o),
         o.of = l, o.kind \in {"item", "no"}, NEW items \in Seq(OptionValues),
         options' = [options EXCEPT !.lists[l] = [set |-> TRUE, items |-> items]],
         InOrder(said', Kept(l)', items)
  PROVE  SaidInv'
<1>1. l \notin Scalars /\ l \notin {"command", "config", "no-config"}
  BY NamesAssumption
<1>2. options \in Option
  BY DEF SaidInv
<1>3. /\ options'.values = options.values /\ options'.command = options.command
      /\ options'.path_set = options.path_set /\ options'.no_config = options.no_config
      /\ options'.lists = [options.lists EXCEPT ![l] = [set |-> TRUE, items |-> items]]
  BY <1>2 DEF Option
<1>4. options' \in Option
  BY <1>2 DEF Option
<1>5. said' \in Seq(Spoken) /\ Kinded'
  BY <1>1, KindedStays
<1>6. ValuesSaid'
  BY <1>1, <1>3, ValuesStay
<1>7. RestSaid'
  BY <1>3, RestStays
<1>8. ASSUME NEW m \in Lists
      PROVE  /\ options'.lists[m].set <=> Sayings(m)' # {}
             /\ options'.lists[m].set => InOrder(said', Kept(m)', options'.lists[m].items)
  <2>1. CASE m = l
    <3>1. options'.lists[l] = [set |-> TRUE, items |-> items]
      BY <1>2, <1>3 DEF Option
    <3>2. Sayings(l)' # {}
      BY Mentioned
    <3> QED
      BY <2>1, <3>1, <3>2
  <2>2. CASE m # l
    <3>1. options'.lists[m] = options.lists[m]
      BY <1>2, <1>3, <2>2 DEF Option
    <3> QED
      BY <2>2, <3>1, ListStays
  <2> QED
    BY <2>1, <2>2
<1>9. ListsSaid'
  BY <1>8, ListsAre
<1> QED
  BY <1>4, <1>5, <1>6, <1>7, <1>9 DEF SaidInv

LEMMA ItemKeeps ==
  ASSUME SaidInv, NEW l \in Lists, NEW v \in OptionValues, ItemOption(l, v)
  PROVE  phase' = "exit" \/ (phase' = phase /\ SaidInv')
<1> DEFINE o == [kind |-> "item", of |-> l, value |-> v]
           before == IF options.lists[l].set THEN options.lists[l].items ELSE <<>>
<1>1. said' = Append(said, o) /\ o \in Spoken /\ o.of = l /\ o.kind = "item" /\ o.value = v
  BY DEF ItemOption, Say, Spoken, Names
<1>2. before \in Seq(OptionValues)
  BY DEF SaidInv, Option
<1>3. Append(before, v) \in Seq(OptionValues)
  BY <1>2, AppendProperties
<1>4. /\ said \in Seq(Spoken) /\ Len(said) \in Nat
      /\ \A i \in 1 .. Len(said) : said'[i] = said[i]
      /\ said'[Len(said) + 1] = o
  BY <1>1, SaidGrows DEF SaidInv
<1>5. Kept(l)' = Kept(l) \union {Len(said) + 1} /\ Kept(l) \subseteq 1 .. Len(said)
  BY <1>1, <1>4, KeptGrows
<1>6. InOrder(said, Kept(l), before)
  <2>1. CASE options.lists[l].set
    BY <2>1, ListsAre DEF SaidInv
  <2>2. CASE ~options.lists[l].set
    <3>1. Kept(l) = {}
      BY <2>2 DEF SaidInv, ListsSaid, Kept
    <3> QED
      BY <2>2, <3>1, InOrderEmpty
  <2> QED
    BY <2>1, <2>2
<1>7. InOrder(said', Kept(l)', Append(before, v))
  <2> HIDE DEF before, o
  <2>1. \A i \in Kept(l) : said'[i] = said[i]
    BY <1>4, <1>5
  <2>2. said'[Len(said) + 1].value = v
    BY <1>1, <1>4
  <2>3. InOrder(said', Kept(l) \union {Len(said) + 1}, Append(before, v))
    BY <1>2, <1>4, <1>5, <1>6, <2>1, <2>2, InOrderGrows
  <2> QED
    BY <1>5, <2>3
<1>8. \/ phase' = "exit"
      \/ /\ phase' = phase
         /\ options' = [options EXCEPT !.lists[l] = [set |-> TRUE, items |-> Append(before, v)]]
  BY DEF ItemOption, Continue
<1> HIDE DEF before, o
<1>9. ASSUME options' = [options EXCEPT !.lists[l] = [set |-> TRUE, items |-> Append(before, v)]]
      PROVE  SaidInv'
  BY <1>1, <1>3, <1>7, <1>9, ListKeeps
<1> QED
  BY <1>8, <1>9

LEMMA NoItemsKeeps ==
  ASSUME SaidInv, NEW l \in Lists, NoItemsOption(l)
  PROVE  SaidInv'
<1> DEFINE o == [kind |-> "no", of |-> l, value |-> Default]
<1>1. said' = Append(said, o) /\ o \in Spoken /\ o.of = l /\ o.kind = "no"
  BY DEF NoItemsOption, Say, Spoken, Names
<1>2. Kept(l)' = {}
  BY <1>1, KeptGrows DEF SaidInv
<1>3. InOrder(said', Kept(l)', <<>>)
  BY <1>2, InOrderEmpty
<1>4. options' = [options EXCEPT !.lists[l] = [set |-> TRUE, items |-> <<>>]]
  BY DEF NoItemsOption
<1>5. <<>> \in Seq(OptionValues)
  OBVIOUS
<1> HIDE DEF o
<1> QED
  BY <1>1, <1>3, <1>4, <1>5, ListKeeps

LEMMA CommandKeeps ==
  ASSUME SaidInv, CommandOption
  PROVE  SaidInv'
<1> DEFINE o == [kind |-> "command", of |-> "command", value |-> Default]
<1>1. said' = Append(said, o) /\ o \in Spoken /\ o.of = "command" /\ o.kind = "command"
  BY DEF CommandOption, Say, Spoken, Names
<1>2. options' = [options EXCEPT !.command = TRUE] /\ options \in Option
  BY DEF CommandOption, SaidInv
<1>3. /\ options' \in Option /\ options'.values = options.values /\ options'.lists = options.lists
      /\ options'.path_set = options.path_set /\ options'.no_config = options.no_config
      /\ options'.command
  BY <1>2 DEF Option
<1>4. "command" \notin Scalars \union Lists
  BY NamesAssumption
<1> HIDE DEF o
<1>5. said' \in Seq(Spoken) /\ Kinded'
  BY <1>1, <1>4, KindedStays
<1>6. ValuesSaid'
  BY <1>1, <1>3, <1>4, ValuesStay
<1>7. ListsSaid'
  BY <1>1, <1>3, <1>4, ListStays, ListsAre
<1>8. RestSaid'
  <2>1. Sayings("command")' # {}
    BY <1>1, Mentioned
  <2>2. said \in Seq(Spoken)
    BY DEF SaidInv
  <2>3. About' = About /\ About \subseteq 1 .. Len(said) /\ Len(said) \in Nat
    BY <1>1, <2>2, SayingsGrow, SaidGrows
  <2>4. \A i \in About : said'[i] = said[i]
    BY <1>1, <2>2, <2>3, SaidGrows
  <2>5. About # {} => Latest(said', About) = Latest(said, About)
    BY <2>3, <2>4, LatestSame
  <2>6. Latest(said, About)' = Latest(said', About)
    BY <2>3 DEF Latest
  <2> QED
    BY <1>3, <2>1, <2>3, <2>5, <2>6 DEF RestSaid, SaidInv
<1> QED
  BY <1>3, <1>5, <1>6, <1>7, <1>8 DEF SaidInv

\* An option about the file: the last one says which.
LEMMA AboutKeeps ==
  ASSUME SaidInv, NEW name \in {"config", "no-config"},
         said' = Append(said, [kind |-> "config", of |-> name, value |-> Default]),
         options' = [options EXCEPT !.path_set = (name = "config"), !.no_config = (name = "no-config")]
  PROVE  SaidInv'
<1> DEFINE o == [kind |-> "config", of |-> name, value |-> Default]
<1>1. said' = Append(said, o) /\ o \in Spoken /\ o.of = name /\ o.kind = "config"
  BY DEF Spoken, Names
<1>2. options \in Option
  BY DEF SaidInv
<1>3. /\ options' \in Option /\ options'.values = options.values /\ options'.lists = options.lists
      /\ options'.path_set = (name = "config") /\ options'.no_config = (name = "no-config")
      /\ options'.command = options.command
  BY <1>2 DEF Option
<1>4. name \notin Scalars \union Lists /\ name # "command"
  BY NamesAssumption
<1> HIDE DEF o
<1>5. said' \in Seq(Spoken) /\ Kinded'
  BY <1>1, <1>4, KindedStays
<1>6. ValuesSaid'
  BY <1>1, <1>3, <1>4, ValuesStay
<1>7. ListsSaid'
  BY <1>1, <1>3, <1>4, ListStays, ListsAre
<1>8. RestSaid'
  <2>1. Sayings("command")' = Sayings("command")
    BY <1>1, <1>4, Unmentioned
  <2>2. said \in Seq(Spoken)
    BY DEF SaidInv
  <2>3. /\ About' = About \union {Len(said) + 1} /\ About \subseteq 1 .. Len(said)
        /\ Len(said) \in Nat /\ said'[Len(said) + 1] = o
    BY <1>1, <2>2, SayingsGrow, SaidGrows
  <2>4. Latest(said', About \union {Len(said) + 1}) = o
    BY <2>3, LatestNew
  <2>5. Latest(said, About)' = o
    BY <2>3, <2>4 DEF Latest
  <2> QED
    BY <1>1, <1>3, <2>1, <2>3, <2>5 DEF RestSaid, SaidInv
<1> QED
  BY <1>3, <1>5, <1>6, <1>7, <1>8 DEF SaidInv

LEMMA ConfigKeeps ==
  ASSUME SaidInv, ConfigOption \/ NoConfigOption
  PROVE  SaidInv'
<1>1. CASE ConfigOption
  <2>1. /\ said' = Append(said, [kind |-> "config", of |-> "config", value |-> Default])
        /\ options' = [options EXCEPT !.path_set = ("config" = "config"),
                                      !.no_config = ("config" = "no-config")]
    BY <1>1 DEF ConfigOption, Say
  <2> QED
    BY <2>1, AboutKeeps
<1>2. CASE NoConfigOption
  <2>1. /\ said' = Append(said, [kind |-> "config", of |-> "no-config", value |-> Default])
        /\ options' = [options EXCEPT !.path_set = ("no-config" = "config"),
                                      !.no_config = ("no-config" = "no-config")]
    BY <1>2 DEF NoConfigOption, Say
  <2> QED
    BY <2>1, AboutKeeps
<1> QED
  BY <1>1, <1>2

-----------------------------------------------------------------------------
(* The file.                                                               *)

AnyValue == FileValues \union {Bad} \union Arrays

Line == [of : Scalars \union Lists, value : AnyValue]

ConfigShape ==
  config = [values |-> [k \in Scalars |-> config.values[k]], lists |-> [l \in Lists |-> config.lists[l]]]

\* The last good entry so far counts.
ReadSoFar ==
  /\ \A k \in Scalars :
       config.values[k] = IF Good(k) # {} THEN Latest(entries, Good(k)).value ELSE Default
  /\ \A l \in Lists :
       config.lists[l] = IF Good(l) # {} THEN Fitting(Latest(entries, Good(l)).value) ELSE <<>>

\* The last good entry that was read counts, if no line was broken.
ReadAll ==
  /\ \A k \in Scalars :
       config.values[k] = IF InFile(k) # {} THEN Latest(entries, InFile(k)).value ELSE Default
  /\ \A l \in Lists :
       config.lists[l] = IF InFile(l) # {} THEN Fitting(Latest(entries, InFile(l)).value) ELSE <<>>

(* What is configured is what was read.                                    *)
FileInv ==
  /\ entries \in Seq(Line) /\ ConfigShape
  /\ phase \in {"options", "load"} => file = "none" /\ entries = <<>>
  /\ phase = "file" => file = "open" /\ ~options.no_config /\ ReadSoFar
  /\ phase = "apply" => /\ ReadAll
                        /\ options.path_set => Used
                        /\ options.no_config => file = "none"

LEMMA EntriesGrow ==
  ASSUME entries \in Seq(Line), NEW e \in Line, entries' = Append(entries, e)
  PROVE  /\ entries' \in Seq(Line) /\ Len(entries) \in Nat
         /\ DOMAIN entries = 1 .. Len(entries) /\ DOMAIN entries' = 1 .. Len(entries) + 1
         /\ \A i \in 1 .. Len(entries) : entries'[i] = entries[i]
         /\ entries'[Len(entries) + 1] = e
BY AppendProperties, LenProperties

LEMMA GoodGrows ==
  ASSUME entries \in Seq(Line), NEW e \in Line, entries' = Append(entries, e), NEW name
  PROVE  /\ Good(name) \subseteq 1 .. Len(entries)
         /\ e.of = name /\ e.value # Bad =>
              /\ Good(name)' # {}
              /\ Latest(entries, Good(name))' = e
         /\ ~(e.of = name /\ e.value # Bad) =>
              /\ Good(name)' = Good(name)
              /\ Good(name) # {} => Latest(entries, Good(name))' = Latest(entries, Good(name))
<1> DEFINE n == Len(entries)
           G == Good(name)
<1>1. /\ n \in Nat /\ DOMAIN entries = 1 .. n /\ DOMAIN entries' = 1 .. n + 1
      /\ \A i \in 1 .. n : entries'[i] = entries[i]
      /\ entries'[n + 1] = e
  BY EntriesGrow
<1>2. \A i : i \in DOMAIN entries' <=> i \in DOMAIN entries \/ i = n + 1
  BY <1>1
<1>3. G' = IF e.of = name /\ e.value # Bad THEN G \union {n + 1} ELSE G
  BY <1>1, <1>2 DEF Good
<1>4. G \subseteq 1 .. n
  BY <1>1 DEF Good
<1>5. Latest(entries, G)' = Latest(entries', G')
  BY DEF Latest
<1> HIDE DEF n, G
<1>6. Latest(entries', G \union {n + 1}) = e
  BY <1>1, <1>4, LatestNew
<1>7. \A i \in G : entries'[i] = entries[i]
  BY <1>1, <1>4
<1>8. G # {} => Latest(entries', G) = Latest(entries, G)
  BY <1>1, <1>4, <1>7, LatestSame
<1>9. G' = G => Latest(entries', G') = Latest(entries', G)
  OBVIOUS
<1>10. G' = G \union {n + 1} => Latest(entries', G') = e /\ G' # {}
  BY <1>6
<1> QED
  BY <1>3, <1>4, <1>5, <1>8, <1>9, <1>10 DEF n, G

LEMMA LoadKeeps ==
  ASSUME SaidInv, FileInv, Load
  PROVE  phase' = "exit" \/ (FileInv' /\ UNCHANGED <<options, said>>)
<1>1. phase = "load" /\ file = "none" /\ entries = <<>> /\ entries' = entries /\ config' = Defaults
      /\ UNCHANGED <<options, said>>
  BY DEF Load, FileInv
<1>2. ConfigShape' /\ entries' \in Seq(Line)
  BY <1>1 DEF ConfigShape, Defaults, FileInv
<1>3. \A name : Good(name)' = {}
  BY <1>1 DEF Good
<1>4. ReadSoFar'
  BY <1>1, <1>3 DEF ReadSoFar, Defaults
<1>5. ~Used' => ReadAll'
  BY <1>1 DEF ReadAll, InFile, Defaults
<1>6. \/ phase' = "apply" /\ file' = "none" /\ options.no_config
      \/ phase' = "file" /\ file' = "open" /\ ~options.no_config
      \/ phase' = "exit"
      \/ phase' = "apply" /\ file' = "none" /\ ~options.path_set
  BY <1>1 DEF Load
<1>7. ~(options.no_config /\ options.path_set)
  BY DEF SaidInv, RestSaid
<1> QED
  BY <1>1, <1>2, <1>4, <1>5, <1>6, <1>7 DEF FileInv, Used

LEMMA KeyEntryKeeps ==
  ASSUME SaidInv, FileInv, NEW k \in Scalars, NEW v \in FileValues \union {Bad}, KeyEntry(k, v)
  PROVE  FileInv' /\ UNCHANGED <<options, said>>
<1> DEFINE e == [of |-> k, value |-> v]
<1>1. /\ phase = "file" /\ entries' = Append(entries, e) /\ UNCHANGED <<phase, options, file, said>>
      /\ config' = IF v = Bad THEN config ELSE [config EXCEPT !.values[k] = v]
  BY DEF KeyEntry, Read
<1>2. e \in Line /\ e.of = k /\ e.value = v
  BY DEF Line, AnyValue
<1>3. entries \in Seq(Line) /\ ConfigShape /\ ReadSoFar /\ file = "open" /\ ~options.no_config
  BY <1>1 DEF FileInv
<1> HIDE DEF e
<1>4. entries' \in Seq(Line)
  BY <1>1, <1>2, <1>3, EntriesGrow
<1>5. /\ ConfigShape' /\ config'.lists = config.lists
      /\ v = Bad => config'.values = config.values
      /\ v # Bad => \A j \in Scalars : config'.values[j] = IF j = k THEN v ELSE config.values[j]
  <2>1. CASE v = Bad
    BY <1>1, <1>3, <2>1 DEF ConfigShape
  <2>2. CASE v # Bad
    <3>1. config' = [config EXCEPT !.values[k] = v]
      BY <1>1, <2>2
    <3>2. config' = [values |-> config'.values, lists |-> config'.lists]
          /\ config'.values = [config.values EXCEPT ![k] = v] /\ config'.lists = config.lists
      BY <1>3, <3>1 DEF ConfigShape
    <3>3. config.values = [k0 \in Scalars |-> config.values[k0]] /\ config.lists = [l0 \in Lists |-> config.lists[l0]]
      BY <1>3 DEF ConfigShape
    <3>4. \A q \in Scalars : config'.values[q] = IF q = k THEN v ELSE config.values[q]
      BY <3>2, <3>3
    <3>5. config'.values = [q \in Scalars |-> config'.values[q]]
      BY <3>2, <3>3
    <3>6. config'.lists = [q \in Lists |-> config'.lists[q]]
      BY <3>2, <3>3
    <3> QED
      BY <2>2, <3>2, <3>4, <3>5, <3>6 DEF ConfigShape
  <2> QED
    BY <2>1, <2>2
<1>6. ASSUME NEW j \in Scalars
      PROVE  config'.values[j] = IF Good(j)' # {} THEN Latest(entries, Good(j))'.value ELSE Default
  <2>1. config.values[j] = IF Good(j) # {} THEN Latest(entries, Good(j)).value ELSE Default
    BY <1>3 DEF ReadSoFar
  <2>2. CASE j = k /\ v # Bad
    BY <1>1, <1>2, <1>3, <1>5, <2>2, GoodGrows
  <2>3. CASE ~(j = k /\ v # Bad)
    BY <1>1, <1>2, <1>3, <1>5, <2>1, <2>3, GoodGrows
  <2> QED
    BY <2>2, <2>3
<1>7. ASSUME NEW l \in Lists
      PROVE  config'.lists[l] = IF Good(l)' # {} THEN Fitting(Latest(entries, Good(l))'.value) ELSE <<>>
  <2>1. config.lists[l] = IF Good(l) # {} THEN Fitting(Latest(entries, Good(l)).value) ELSE <<>>
    BY <1>3 DEF ReadSoFar
  <2>2. l # k
    BY NamesAssumption
  <2> QED
    BY <1>1, <1>2, <1>3, <1>5, <2>1, <2>2, GoodGrows
<1>8. ReadSoFar'
  BY <1>6, <1>7 DEF ReadSoFar
<1> QED
  BY <1>1, <1>3, <1>4, <1>5, <1>8 DEF FileInv

LEMMA ListEntryKeeps ==
  ASSUME SaidInv, FileInv, NEW l \in Lists, NEW items \in Arrays \union {Bad}, ListEntry(l, items)
  PROVE  FileInv' /\ UNCHANGED <<options, said>>
<1> DEFINE e == [of |-> l, value |-> items]
<1>1. /\ phase = "file" /\ entries' = Append(entries, e) /\ UNCHANGED <<phase, options, file, said>>
      /\ config' = IF items = Bad THEN config ELSE [config EXCEPT !.lists[l] = Fitting(items)]
  BY DEF ListEntry, Read
<1>2. e \in Line /\ e.of = l /\ e.value = items
  BY DEF Line, AnyValue
<1>3. entries \in Seq(Line) /\ ConfigShape /\ ReadSoFar /\ file = "open" /\ ~options.no_config
  BY <1>1 DEF FileInv
<1> HIDE DEF e
<1>4. entries' \in Seq(Line)
  BY <1>1, <1>2, <1>3, EntriesGrow
<1>5. /\ ConfigShape' /\ config'.values = config.values
      /\ items = Bad => config'.lists = config.lists
      /\ items # Bad => \A m \in Lists : config'.lists[m] = IF m = l THEN Fitting(items) ELSE config.lists[m]
  <2>1. CASE items = Bad
    BY <1>1, <1>3, <2>1 DEF ConfigShape
  <2>2. CASE items # Bad
    <3>1. config' = [config EXCEPT !.lists[l] = Fitting(items)]
      BY <1>1, <2>2
    <3>2. config' = [values |-> config'.values, lists |-> config'.lists]
          /\ config'.lists = [config.lists EXCEPT ![l] = Fitting(items)] /\ config'.values = config.values
      BY <1>3, <3>1 DEF ConfigShape
    <3>3. config.values = [k0 \in Scalars |-> config.values[k0]] /\ config.lists = [l0 \in Lists |-> config.lists[l0]]
      BY <1>3 DEF ConfigShape
    <3>4. \A q \in Lists : config'.lists[q] = IF q = l THEN Fitting(items) ELSE config.lists[q]
      BY <3>2, <3>3
    <3>5. config'.lists = [q \in Lists |-> config'.lists[q]]
      BY <3>2, <3>3
    <3>6. config'.values = [q \in Scalars |-> config'.values[q]]
      BY <3>2, <3>3
    <3> QED
      BY <2>2, <3>2, <3>4, <3>5, <3>6 DEF ConfigShape
  <2> QED
    BY <2>1, <2>2
<1>6. ASSUME NEW k \in Scalars
      PROVE  config'.values[k] = IF Good(k)' # {} THEN Latest(entries, Good(k))'.value ELSE Default
  <2>1. config.values[k] = IF Good(k) # {} THEN Latest(entries, Good(k)).value ELSE Default
    BY <1>3 DEF ReadSoFar
  <2>2. l # k
    BY NamesAssumption
  <2> QED
    BY <1>1, <1>2, <1>3, <1>5, <2>1, <2>2, GoodGrows
<1>7. ASSUME NEW m \in Lists
      PROVE  config'.lists[m] = IF Good(m)' # {} THEN Fitting(Latest(entries, Good(m))'.value) ELSE <<>>
  <2>1. config.lists[m] = IF Good(m) # {} THEN Fitting(Latest(entries, Good(m)).value) ELSE <<>>
    BY <1>3 DEF ReadSoFar
  <2>2. CASE m = l /\ items # Bad
    BY <1>1, <1>2, <1>3, <1>5, <2>2, GoodGrows
  <2>3. CASE ~(m = l /\ items # Bad)
    BY <1>1, <1>2, <1>3, <1>5, <2>1, <2>3, GoodGrows
  <2> QED
    BY <2>2, <2>3
<1>8. ReadSoFar'
  BY <1>6, <1>7 DEF ReadSoFar
<1> QED
  BY <1>1, <1>3, <1>4, <1>5, <1>8 DEF FileInv

LEMMA FileEnds ==
  ASSUME SaidInv, FileInv, Broken \/ EndOfFile
  PROVE  phase' = "exit" \/ (FileInv' /\ UNCHANGED <<options, said>>)
<1>1. /\ phase = "file" /\ ConfigShape /\ ReadSoFar /\ ~options.no_config /\ entries \in Seq(Line)
      /\ UNCHANGED <<options, said, entries>>
  BY DEF Broken, EndOfFile, FileInv
<1>2. CASE Broken
  <2>1. config' = Defaults /\ file' = "broken" /\ phase' = IF options.path_set THEN "exit" ELSE "apply"
    BY <1>2 DEF Broken
  <2>2. ConfigShape' /\ ReadAll'
    BY <2>1 DEF ConfigShape, ReadAll, InFile, Used, Defaults
  <2> QED
    BY <1>1, <2>1, <2>2 DEF FileInv
<1>3. CASE EndOfFile
  <2>1. config' = config /\ Used' /\ phase' = "apply"
    BY <1>3 DEF EndOfFile, Used
  <2>2. \A name : InFile(name)' = Good(name)
    BY <1>1, <2>1 DEF InFile, Good
  <2>3. ConfigShape' /\ ReadAll'
    BY <1>1, <2>1, <2>2 DEF ConfigShape, ReadAll, ReadSoFar
  <2> QED
    BY <1>1, <2>1, <2>3 DEF FileInv
<1> QED
  BY <1>2, <1>3

\* Laying the options over the file gives what was said and read.
LEMMA ApplyResolves ==
  ASSUME SaidInv, FileInv, Apply
  PROVE  Resolved'
<1>1. /\ phase = "apply" /\ UNCHANGED <<options, file, said, entries>>
      /\ config' = [values |-> [k \in Scalars |-> Overridden(k)],
                    lists |-> [l \in Lists |-> IF options.lists[l].set THEN options.lists[l].items
                                               ELSE config.lists[l]]]
  BY DEF Apply
<1>2. ReadAll /\ (options.path_set => Used) /\ (options.no_config => file = "none")
  BY <1>1 DEF FileInv
<1>3. /\ \A name : Sayings(name)' = Sayings(name) /\ InFile(name)' = InFile(name)
      /\ About' = About /\ said' = said /\ entries' = entries /\ file' = file /\ Used' = Used
      /\ Latest(said, About)' = Latest(said, About)
  BY <1>1 DEF Sayings, InFile, Used, Good, About, Latest
<1>4. ASSUME NEW k \in Scalars
      PROVE  config'.values[k] =
               IF Sayings(k) # {} THEN Latest(said, Sayings(k)).value
               ELSE IF k = "backend" /\ Sayings("command") # {} THEN "command"
               ELSE IF InFile(k) # {} THEN Latest(entries, InFile(k)).value
               ELSE Default
  <2>1. config'.values[k] = Overridden(k)
    BY <1>1
  <2>2. options.values[k] = IF Sayings(k) # {} THEN Latest(said, Sayings(k)).value ELSE Default
    BY DEF SaidInv, ValuesSaid
  <2>3. options.command <=> Sayings("command") # {}
    BY DEF SaidInv, RestSaid
  <2>4. config.values[k] = IF InFile(k) # {} THEN Latest(entries, InFile(k)).value ELSE Default
    BY <1>2 DEF ReadAll
  <2>5. Sayings(k) # {} => Latest(said, Sayings(k)).value # Default
    <3>1. said \in Seq(Spoken) /\ Sayings(k) \subseteq DOMAIN said
      BY DEF SaidInv, Sayings
    <3>2. ASSUME Sayings(k) # {} PROVE Latest(said, Sayings(k)).value # Default
      <4>1. PICK i \in Sayings(k) : Latest(said, Sayings(k)) = said[i]
        BY <3>1, <3>2, LatestIn
      <4>2. said[i].of = k /\ said[i].kind = "key"
        BY <4>1 DEF Sayings, SaidInv, Kinded
      <4>3. said[i].value \in OptionValues
        BY <3>1, <4>1, <4>2 DEF SaidInv, Kinded
      <4> QED
        BY <4>1, <4>3, DefaultAssumption
    <3> QED
      BY <3>2
  <2> QED
    BY <2>1, <2>2, <2>3, <2>4, <2>5 DEF Overridden
<1>5. ASSUME NEW l \in Lists
      PROVE  IF Sayings(l) # {} THEN ItemsSaid(l, config'.lists[l])
             ELSE config'.lists[l] =
                    IF InFile(l) # {} THEN Fitting(Latest(entries, InFile(l)).value) ELSE <<>>
  <2>1. config'.lists[l] = IF options.lists[l].set THEN options.lists[l].items ELSE config.lists[l]
    BY <1>1
  <2>2. config.lists[l] = IF InFile(l) # {} THEN Fitting(Latest(entries, InFile(l)).value) ELSE <<>>
    BY <1>2 DEF ReadAll
  <2> QED
    BY <2>1, <2>2 DEF SaidInv, ListsSaid
<1>6. About # {} => IF Latest(said, About).of = "config" THEN Used ELSE file = "none"
  <2>1. ASSUME About # {}, Latest(said, About).of # "config" PROVE Latest(said, About).of = "no-config"
    <3>1. said \in Seq(Spoken) /\ About \subseteq DOMAIN said
      BY DEF SaidInv, About
    <3>2. PICK i \in About : Latest(said, About) = said[i]
      BY <2>1, <3>1, LatestIn
    <3> QED
      BY <2>1, <3>2 DEF SaidInv, Kinded, About
  <2> QED
    BY <1>2, <2>1 DEF SaidInv, RestSaid
<1>7. \A l, items : ItemsSaid(l, items)' <=> ItemsSaid(l, items)
  BY <1>3 DEF ItemsSaid, Kept
<1>8. \A k : Latest(said, Sayings(k))' = Latest(said, Sayings(k))
             /\ Latest(entries, InFile(k))' = Latest(entries, InFile(k))
  BY <1>3 DEF Latest
<1>9. ASSUME NEW l \in Lists
      PROVE  IF Sayings(l)' # {} THEN ItemsSaid(l, config.lists[l])'
             ELSE config'.lists[l] =
                    IF InFile(l)' # {} THEN Fitting(Latest(entries, InFile(l))'.value) ELSE <<>>
  <2>1. ItemsSaid(l, config.lists[l])' <=> ItemsSaid(l, config'.lists[l])
    BY <1>3 DEF ItemsSaid, Kept
  <2> QED
    BY <1>3, <1>5, <1>8, <2>1
<1>10. ASSUME NEW k \in Scalars
       PROVE  config'.values[k] =
               IF Sayings(k)' # {} THEN Latest(said, Sayings(k))'.value
               ELSE IF k = "backend" /\ Sayings("command")' # {} THEN "command"
               ELSE IF InFile(k)' # {} THEN Latest(entries, InFile(k))'.value
               ELSE Default
  BY <1>3, <1>4, <1>8
<1>11. About' # {} => IF Latest(said, About)'.of = "config" THEN Used' ELSE file' = "none"
  BY <1>3, <1>6
<1> QED
  BY <1>9, <1>10, <1>11 DEF Resolved

-----------------------------------------------------------------------------
(* The configuration of a launch.                                          *)

Reading == {"options", "load", "file", "apply"}

SettingsInv ==
  /\ phase \in Reading => SaidInv /\ FileInv
  /\ Resolved

LEMMA SettingsStart ==
  ASSUME SettingsInit PROVE SettingsInv
<1>1. Sayings("command") = {} /\ About = {} /\ \A name : Sayings(name) = {}
  BY DEF SettingsInit, Sayings, About
<1>2. SaidInv
  BY <1>1 DEF SettingsInit, SaidInv, Kinded, Option, ValuesSaid, ListsSaid, RestSaid
<1>3. FileInv
  BY DEF SettingsInit, FileInv, ConfigShape, Defaults
<1>4. Resolved
  BY DEF SettingsInit, Resolved
<1> QED
  BY <1>2, <1>3, <1>4 DEF SettingsInv

\* What was read does not change what was parsed, and the other way round.
LEMMA SaidSame ==
  ASSUME UNCHANGED said
  PROVE  /\ \A name : Sayings(name)' = Sayings(name)
         /\ \A name : Latest(said, Sayings(name))' = Latest(said, Sayings(name))
         /\ About' = About /\ Latest(said, About)' = Latest(said, About)
<1>1. /\ \A name : Sayings(name)' = Sayings(name)
      /\ About' = About
  BY DEF Sayings, About
<1> QED
  BY <1>1 DEF Latest

LEMMA ItemsSame ==
  ASSUME UNCHANGED said, NEW l
  PROVE  /\ \A items : ItemsSaid(l, items)' <=> ItemsSaid(l, items)
         /\ ItemsSaid(l, options.lists[l].items)' <=> ItemsSaid(l, options'.lists[l].items)
         /\ ItemsSaid(l, config.lists[l])' <=> ItemsSaid(l, config'.lists[l])
<1>1. Kept(l)' = Kept(l)
  BY SaidSame DEF Kept
<1> QED
  BY <1>1 DEF ItemsSaid

LEMMA SaidStays ==
  ASSUME SaidInv, UNCHANGED <<options, said>>
  PROVE  SaidInv'
<1>1. said' \in Seq(Spoken) /\ Kinded' /\ options' \in Option
  BY DEF SaidInv, Kinded
<1>2. ValuesSaid' /\ RestSaid'
  BY SaidSame DEF SaidInv, ValuesSaid, RestSaid
<1>3. ListsSaid'
  BY SaidSame, ItemsSame DEF SaidInv, ListsSaid
<1> QED
  BY <1>1, <1>2, <1>3 DEF SaidInv

LEMMA ReadSame ==
  ASSUME UNCHANGED <<file, entries>>
  PROVE  /\ Used' = Used
         /\ \A name : Good(name)' = Good(name) /\ InFile(name)' = InFile(name)
         /\ \A name : Latest(entries, Good(name))' = Latest(entries, Good(name))
         /\ \A name : Latest(entries, InFile(name))' = Latest(entries, InFile(name))
<1>1. Used' = Used /\ \A name : Good(name)' = Good(name) /\ InFile(name)' = InFile(name)
  BY DEF Good, InFile, Used
<1> QED
  BY <1>1 DEF Latest

LEMMA SettingsRest ==
  ASSUME SettingsInv, UNCHANGED settling
  PROVE  SettingsInv'
<1>1. UNCHANGED <<phase, options, config, file, said, entries>>
  BY DEF settling
<1>2. ASSUME FileInv PROVE FileInv'
  <2>1. ConfigShape'
    BY <1>1, <1>2 DEF FileInv, ConfigShape
  <2>2. ReadSoFar => ReadSoFar'
    BY <1>1, ReadSame DEF ReadSoFar
  <2>3. ReadAll => ReadAll'
    BY <1>1, ReadSame DEF ReadAll
  <2> QED
    BY <1>1, <1>2, <2>1, <2>2, <2>3, ReadSame DEF FileInv
<1>3. Resolved'
  BY <1>1, SaidSame, ItemsSame, ReadSame DEF SettingsInv, Resolved
<1> QED
  BY <1>1, <1>2, <1>3, SaidStays DEF SettingsInv, Reading

LEMMA FileStays ==
  ASSUME FileInv, phase \in {"options", "load"}, phase' \in {"options", "load"},
         UNCHANGED <<config, file, entries>>
  PROVE  FileInv'
BY DEF FileInv, ConfigShape

LEMMA OptionKeeps ==
  ASSUME SaidInv, FileInv,
         \/ \E k \in Scalars, v \in OptionValues : KeyOption(k, v)
         \/ \E l \in Lists, v \in OptionValues : ItemOption(l, v)
         \/ \E l \in Lists : NoItemsOption(l)
         \/ CommandOption \/ ConfigOption \/ NoConfigOption
  PROVE  phase' = "exit" \/ (phase' = "options" /\ SaidInv' /\ FileInv')
<1>1. phase = "options" /\ UNCHANGED <<config, file, entries>>
  BY DEF KeyOption, ItemOption, NoItemsOption, CommandOption, ConfigOption, NoConfigOption, Say
<1>2. phase' = "exit" \/ (phase' = phase /\ SaidInv')
  <2>1. ASSUME NEW k \in Scalars, NEW v \in OptionValues, KeyOption(k, v) PROVE phase' = phase /\ SaidInv'
    BY <2>1, KeyKeeps DEF KeyOption, Continue
  <2>2. ASSUME NEW l \in Lists, NoItemsOption(l) PROVE phase' = phase /\ SaidInv'
    BY <2>2, NoItemsKeeps DEF NoItemsOption, Continue
  <2>3. CASE CommandOption
    BY <2>3, CommandKeeps DEF CommandOption, Continue
  <2>4. CASE ConfigOption \/ NoConfigOption
    BY <2>4, ConfigKeeps DEF ConfigOption, NoConfigOption, Continue
  <2>5. ASSUME NEW l \in Lists, NEW v \in OptionValues, ItemOption(l, v)
        PROVE  phase' = "exit" \/ (phase' = phase /\ SaidInv')
    BY <2>5, ItemKeeps
  <2> QED
    BY <2>1, <2>2, <2>3, <2>4, <2>5
<1>3. phase' = phase => FileInv'
  BY <1>1, FileStays
<1> QED
  BY <1>1, <1>2, <1>3

LEMMA SettingsKeep ==
  ASSUME SettingsInv, SettingsNext
  PROVE  SettingsInv'
<1>1. CASE \/ \E k \in Scalars, v \in OptionValues : KeyOption(k, v)
           \/ \E l \in Lists, v \in OptionValues : ItemOption(l, v)
           \/ \E l \in Lists : NoItemsOption(l)
           \/ CommandOption \/ ConfigOption \/ NoConfigOption
  <2>1. phase = "options"
    BY <1>1 DEF KeyOption, ItemOption, NoItemsOption, CommandOption, ConfigOption, NoConfigOption, Say
  <2>2. phase' = "exit" \/ (phase' = "options" /\ SaidInv' /\ FileInv')
    BY <1>1, <2>1, OptionKeeps DEF SettingsInv, Reading
  <2> QED
    BY <2>2 DEF SettingsInv, Resolved, Reading
<1>2. CASE EndOption
  BY <1>2 DEF EndOption, SettingsInv, Resolved, Reading
<1>3. CASE Parsed
  <2>1. phase = "options" /\ phase' = "load" /\ UNCHANGED <<options, config, file, said, entries>>
    BY <1>3 DEF Parsed
  <2>2. SaidInv' /\ FileInv'
    BY <2>1, SaidStays, FileStays DEF SettingsInv, Reading
  <2> QED
    BY <2>1, <2>2 DEF SettingsInv, Resolved
<1>4. CASE Load \/ Broken \/ EndOfFile
  <2>1. phase \in {"load", "file"}
    BY <1>4 DEF Load, Broken, EndOfFile
  <2>2. phase' = "exit" \/ (FileInv' /\ UNCHANGED <<options, said>>)
    BY <1>4, <2>1, LoadKeeps, FileEnds DEF SettingsInv, Reading
  <2>3. phase' # "ready"
    BY <1>4 DEF Load, Broken, EndOfFile
  <2>4. phase' # "exit" => SaidInv'
    BY <2>1, <2>2, SaidStays DEF SettingsInv, Reading
  <2> QED
    BY <2>2, <2>3, <2>4 DEF SettingsInv, Resolved, Reading
<1>5. CASE \/ \E k \in Scalars, v \in FileValues \union {Bad} : KeyEntry(k, v)
           \/ \E l \in Lists, items \in Arrays \union {Bad} : ListEntry(l, items)
  <2>1. phase = "file" /\ phase' = "file"
    BY <1>5 DEF KeyEntry, ListEntry, Read
  <2>2. FileInv' /\ UNCHANGED <<options, said>>
    BY <1>5, <2>1, KeyEntryKeeps, ListEntryKeeps DEF SettingsInv, Reading
  <2>3. SaidInv'
    BY <2>1, <2>2, SaidStays DEF SettingsInv, Reading
  <2> QED
    BY <2>1, <2>2, <2>3 DEF SettingsInv, Resolved
<1>6. CASE Apply
  <2>1. phase = "apply" /\ phase' = "ready"
    BY <1>6 DEF Apply
  <2> QED
    BY <1>6, <2>1, ApplyResolves DEF SettingsInv, Reading
<1>7. CASE Done
  <2>1. phase \in {"ready", "exit"} /\ UNCHANGED settling
    BY <1>7 DEF Done
  <2> QED
    BY <2>1, SettingsRest
<1> QED
  BY <1>1, <1>2, <1>3, <1>4, <1>5, <1>6, <1>7 DEF SettingsNext

-----------------------------------------------------------------------------
(* Scan: the walk.                                                         *)

(* Numbers.                                                                *)

LEMMA Upwards ==
  ASSUME NEW n \in Nat, NEW T, 0 \in T, \A k \in 1 .. n : k - 1 \in T => k \in T
  PROVE  0 .. n \subseteq T
<1> DEFINE missed == (0 .. n) \ T
<1>1. SUFFICES ASSUME missed # {} PROVE FALSE
  OBVIOUS
<1>2. PICK m \in missed : \A k \in missed : m <= k
  <2>1. missed \subseteq Nat
    OBVIOUS
  <2> HIDE DEF missed
  <2> QED
    BY <1>1, <2>1, Least
<1>3. m \in 1 .. n /\ m - 1 \notin missed /\ m - 1 \in 0 .. n
  BY <1>2
<1> QED
  BY <1>2, <1>3

-----------------------------------------------------------------------------
(* The tree.                                                               *)

\* The function that Above is made of, for the nodes up to m.
IsAbove(f, m) ==
  f = [k \in 1 .. m |-> IF tree.parent[k] = Top THEN {} ELSE {tree.parent[k]} \union f[tree.parent[k]]]

LEMMA TreeType ==
  ASSUME tree \in Trees, NEW n \in Nodes
  PROVE  /\ n \in Nat \ {0} /\ n \in 1 .. Size /\ Size \in Nat
         /\ tree.parent[n] # Top => /\ tree.parent[n] \in Nodes /\ tree.parent[n] < n
                                    /\ tree.parent[n] \in 1 .. n - 1
                                    /\ tree.kind[tree.parent[n]] = "dir"
BY LimitsAssumption DEF Trees, Nodes, Top

LEMMA AboveExists ==
  ASSUME tree \in Trees
  PROVE  \E f : IsAbove(f, Size)
<1> DEFINE T == {m \in 0 .. Size : \E f : IsAbove(f, m)}
<1>1. Size \in Nat
  BY LimitsAssumption
<1>2. 0 \in T
  <2>1. 1 .. 0 = {} /\ 0 \in 0 .. Size
    BY <1>1
  <2>2. [k \in {} |-> k] = [k \in {} |-> IF tree.parent[k] = Top THEN {}
                                         ELSE {tree.parent[k]} \union [j \in {} |-> j][tree.parent[k]]]
    OBVIOUS
  <2>3. IsAbove([k \in {} |-> k], 0)
    BY <2>1, <2>2 DEF IsAbove
  <2> QED
    BY <2>1, <2>3
<1>3. ASSUME NEW m \in 1 .. Size, m - 1 \in T PROVE m \in T
  <2>1. PICK f : IsAbove(f, m - 1)
    BY <1>3
  <2> DEFINE p == tree.parent[m]
             g == [k \in 1 .. m |-> IF k = m THEN IF p = Top THEN {} ELSE {p} \union f[p] ELSE f[k]]
  <2>2. m \in Nodes /\ m \in Nat /\ m - 1 \in Nat
    BY <1>1 DEF Nodes
  <2>3. ASSUME NEW k \in 1 .. m
        PROVE  g[k] = IF tree.parent[k] = Top THEN {} ELSE {tree.parent[k]} \union g[tree.parent[k]]
    <3>1. k \in Nodes
      BY <1>1 DEF Nodes
    <3>2. tree.parent[k] # Top => tree.parent[k] \in 1 .. k - 1
      BY <3>1, TreeType
    <3>3. tree.parent[k] # Top => tree.parent[k] \in 1 .. m /\ tree.parent[k] # m
      BY <2>2, <3>2
    <3>4. tree.parent[k] # Top => g[tree.parent[k]] = f[tree.parent[k]]
      BY <3>3
    <3>5. CASE k = m
      <4>1. g[m] = IF p = Top THEN {} ELSE {p} \union f[p]
        BY <3>5
      <4> QED
        BY <3>4, <3>5, <4>1
    <3>6. CASE k # m
      <4>1. k \in 1 .. m - 1 /\ g[k] = f[k]
        BY <2>2, <3>6
      <4>2. f[k] = IF tree.parent[k] = Top THEN {} ELSE {tree.parent[k]} \union f[tree.parent[k]]
        BY <2>1, <4>1 DEF IsAbove
      <4> QED
        BY <3>4, <4>1, <4>2
    <3> QED
      BY <3>5, <3>6
  <2>4. g = [k \in 1 .. m |-> g[k]]
    OBVIOUS
  <2> HIDE DEF g
  <2>5. IsAbove(g, m)
    BY <2>3, <2>4 DEF IsAbove
  <2> QED
    BY <1>1, <2>5
<1> HIDE DEF T
<1>4. 0 .. Size \subseteq T
  BY <1>1, <1>2, <1>3, Upwards
<1>5. Size \in T
  BY <1>1, <1>4
<1> QED
  BY <1>5 DEF T

LEMMA AboveIs ==
  ASSUME tree \in Trees
  PROVE  \A n \in Nodes :
           Above(n) = IF tree.parent[n] = Top THEN {} ELSE {tree.parent[n]} \union Above(tree.parent[n])
<1> DEFINE F == CHOOSE f : f = [m \in Nodes |-> IF tree.parent[m] = Top THEN {}
                                               ELSE {tree.parent[m]} \union f[tree.parent[m]]]
<1>1. \E f : f = [m \in Nodes |-> IF tree.parent[m] = Top THEN {}
                                  ELSE {tree.parent[m]} \union f[tree.parent[m]]]
  BY AboveExists DEF IsAbove, Nodes
<1>2. F = [m \in Nodes |-> IF tree.parent[m] = Top THEN {} ELSE {tree.parent[m]} \union F[tree.parent[m]]]
  BY <1>1
<1>3. \A n : Above(n) = F[n]
  BY DEF Above
<1> HIDE DEF F
<1>4. \A n \in Nodes : F[n] = IF tree.parent[n] = Top THEN {} ELSE {tree.parent[n]} \union F[tree.parent[n]]
  BY <1>2
<1> QED
  BY <1>3, <1>4

LEMMA AboveSame ==
  ASSUME tree' = tree
  PROVE  /\ \A n : Above(n)' = Above(n)
         /\ \A n : Depth(n)' = Depth(n)
<1>1. \A n : Above(n)' = Above(n)
  BY DEF Above
<1> QED
  BY <1>1 DEF Depth

\* A node is a step further down than its parent.
LEMMA DepthIs ==
  ASSUME tree \in Trees
  PROVE  /\ \A n \in Nodes : Above(n) \subseteq 1 .. n - 1 /\ Depth(n) \in Nat
         /\ \A n \in Nodes : Depth(n) = IF tree.parent[n] = Top THEN 0 ELSE Depth(tree.parent[n]) + 1
<1> DEFINE T == {m \in 0 .. Size : \A n \in 1 .. m : Above(n) \subseteq 1 .. n - 1}
<1>1. Size \in Nat
  BY LimitsAssumption
<1>2. 0 \in T
  BY <1>1
<1>3. ASSUME NEW m \in 1 .. Size, m - 1 \in T PROVE m \in T
  <2>1. m \in Nodes /\ m \in Nat
    BY <1>1 DEF Nodes
  <2>2. ASSUME NEW n \in 1 .. m PROVE Above(n) \subseteq 1 .. n - 1
    <3>1. CASE n \in 1 .. m - 1
      BY <1>3, <3>1
    <3>2. CASE n = m
      <4>1. Above(m) = IF tree.parent[m] = Top THEN {} ELSE {tree.parent[m]} \union Above(tree.parent[m])
        BY <2>1, AboveIs
      <4>2. CASE tree.parent[m] = Top
        BY <3>2, <4>1, <4>2
      <4>3. CASE tree.parent[m] # Top
        <5>1. tree.parent[m] \in 1 .. m - 1
          BY <2>1, <4>3, TreeType
        <5>2. Above(tree.parent[m]) \subseteq 1 .. tree.parent[m] - 1
          BY <1>3, <5>1
        <5>3. 1 .. tree.parent[m] - 1 \subseteq 1 .. m - 1
          BY <2>1, <5>1
        <5> QED
          BY <3>2, <4>1, <4>3, <5>1, <5>2, <5>3
      <4> QED
        BY <4>2, <4>3
    <3>3. n \in 1 .. m - 1 \/ n = m
      BY <2>1
    <3> QED
      BY <3>1, <3>2, <3>3
  <2>3. m \in 0 .. Size
    BY <1>1
  <2> QED
    BY <2>2, <2>3
<1> HIDE DEF T
<1>4. 0 .. Size \subseteq T
  BY <1>1, <1>2, <1>3, Upwards
<1>5. \A n \in Nodes : Above(n) \subseteq 1 .. n - 1
  BY <1>1, <1>4 DEF T, Nodes
<1>6. ASSUME NEW n \in Nodes PROVE IsFiniteSet(Above(n)) /\ Depth(n) \in Nat
  <2>1. IsFiniteSet(1 .. n - 1)
    BY TreeType, FS_Interval
  <2> QED
    BY <1>5, <2>1, FS_Subset, FS_CardinalityType DEF Depth
<1>7. ASSUME NEW n \in Nodes
      PROVE  Depth(n) = IF tree.parent[n] = Top THEN 0 ELSE Depth(tree.parent[n]) + 1
  <2>1. CASE tree.parent[n] = Top
    BY <2>1, AboveIs, FS_EmptySet DEF Depth
  <2>2. CASE tree.parent[n] # Top
    <3> DEFINE p == tree.parent[n]
    <3>1. p \in Nodes /\ p \in Nat
      BY <2>2, TreeType
    <3>2. Above(n) = Above(p) \union {p}
      BY <2>2, AboveIs
    <3>3. p \notin Above(p)
      <4>1. Above(p) \subseteq 1 .. p - 1
        BY <1>5, <3>1
      <4> QED
        BY <3>1, <4>1
    <3>4. Cardinality(Above(p) \union {p}) = Cardinality(Above(p)) + 1
      BY <1>6, <3>1, <3>3, FS_AddElement
    <3> QED
      BY <2>2, <3>2, <3>4 DEF Depth
  <2> QED
    BY <2>1, <2>2
<1> QED
  BY <1>5, <1>6, <1>7

-----------------------------------------------------------------------------
(* The walk.                                                               *)

WalkRecords ==
  [dirs : Seq(Nodes), head : Nat, entries : Nat, unreadable : SUBSET Nodes, capped : BOOLEAN,
   lost : SUBSET Nodes]

WalkTypes ==
  /\ tree \in Trees /\ recursive \in BOOLEAN /\ at \in {"read", "open"}
  /\ walk \in WalkRecords
  /\ level \in [depth : Nat, end : Nat]
  /\ scan \in [paths : SUBSET Nodes, truncated : BOOLEAN, result : {"none"}]

\* The directories that were opened.
Opened == {walk.dirs[i] : i \in 1 .. walk.head} \ walk.unreadable

MayEnter(n) == tree.kind[n] = "dir" /\ recursive /\ Depth(n) < MaxDepth

\* Its directory has been read so far that it was handled.
Seen(n) ==
  /\ tree.parent[n] \in {Top} \union Opened /\ n \notin left \union walk.lost
  /\ ~(scan.truncated /\ tree.parent[n] = dir)

\* The queue: directories of opened directories, each once.
QueueInv ==
  /\ walk.head \in 0 .. Len(walk.dirs)
  /\ \A i, j \in DOMAIN walk.dirs : walk.dirs[i] = walk.dirs[j] => i = j
  /\ \A i \in DOMAIN walk.dirs : MayEnter(walk.dirs[i]) /\ Above(walk.dirs[i]) \subseteq Opened
  /\ \A q \in walk.unreadable : \E i \in 1 .. walk.head : walk.dirs[i] = q
  /\ walk.capped => Len(walk.dirs) = MaxDirs

AtTop == at = "read" /\ dir = Top

\* The queue holds the rest of a level and then the next one.
LevelInv ==
  IF AtTop THEN walk.head = 0 /\ \A i \in DOMAIN walk.dirs : Depth(walk.dirs[i]) = 0
  ELSE /\ level.depth > 0 /\ level.end \in walk.head .. Len(walk.dirs)
       /\ \A i \in 1 .. walk.head : Depth(walk.dirs[i]) <= level.depth - 1
       /\ \A i \in walk.head + 1 .. level.end : Depth(walk.dirs[i]) = level.depth - 1
       /\ \A i \in level.end + 1 .. Len(walk.dirs) : Depth(walk.dirs[i]) = level.depth
       /\ walk.head > 0 => Depth(walk.dirs[walk.head]) = level.depth - 1

\* What is read is the directory opened last.
ReadInv ==
  /\ left \subseteq Nodes /\ \A n \in left : tree.parent[n] = dir
  /\ at = "read" \/ scan.truncated =>
       IF walk.head = 0 THEN dir = Top ELSE dir = walk.dirs[walk.head] /\ dir \in Opened
  /\ at = "open" \/ scan.truncated => left = {}
  /\ \A i \in DOMAIN walk.dirs : walk.dirs[i] \notin left

FoundInv ==
  /\ \A n \in scan.paths : tree.kind[n] = "image" /\ Above(n) \subseteq Opened
  /\ \A n \in Nodes : Seen(n) /\ tree.kind[n] = "image" => n \in scan.paths

\* A directory that was dropped is as deep as any that was not.
EnteredInv ==
  \A n \in Nodes :
    Seen(n) /\ MayEnter(n) =>
      \/ \E i \in DOMAIN walk.dirs : walk.dirs[i] = n
      \/ walk.capped /\ \A i \in DOMAIN walk.dirs : Depth(walk.dirs[i]) <= Depth(n)

\* What was lost has been neither taken nor entered, nor will it be.
LostInv ==
  /\ \A n \in walk.lost : tree.parent[n] \in {Top} \union Opened /\ n \notin left
  /\ \A n \in left \union walk.lost :
       n \notin scan.paths /\ \A i \in DOMAIN walk.dirs : walk.dirs[i] # n

(* The walk while it is under way.                                         *)
WalkInv == WalkTypes /\ QueueInv /\ LevelInv /\ ReadInv /\ FoundInv /\ EnteredInv /\ LostInv

\* What the walk cannot come to, and what is below it.
Closed == walk.unreadable \union walk.lost

LEMMA DirsType ==
  ASSUME WalkTypes
  PROVE  /\ Len(walk.dirs) \in Nat /\ DOMAIN walk.dirs = 1 .. Len(walk.dirs)
         /\ \A i \in DOMAIN walk.dirs : walk.dirs[i] \in Nodes
         /\ walk.dirs \in Seq(Nodes)
<1>1. walk.dirs \in Seq(Nodes)
  BY DEF WalkTypes, WalkRecords
<1>2. Len(walk.dirs) \in Nat /\ DOMAIN walk.dirs = 1 .. Len(walk.dirs)
  BY <1>1, LenProperties
<1>3. \A i \in DOMAIN walk.dirs : walk.dirs[i] \in Nodes
  BY <1>1, <1>2
<1> QED
  BY <1>1, <1>2, <1>3 DEF Nodes, Top

\* A member of the queue has been opened once it is behind the head.
LEMMA OpenedAre ==
  ASSUME WalkTypes, walk.head \in 0 .. Len(walk.dirs)
  PROVE  /\ Opened \subseteq Nodes /\ Top \notin Opened
         /\ \A q \in Opened : \E i \in DOMAIN walk.dirs : i <= walk.head /\ walk.dirs[i] = q
         /\ \A i \in DOMAIN walk.dirs :
              i <= walk.head /\ walk.dirs[i] \notin walk.unreadable => walk.dirs[i] \in Opened
         /\ Opened \intersect walk.unreadable = {}
<1>1. /\ Len(walk.dirs) \in Nat /\ DOMAIN walk.dirs = 1 .. Len(walk.dirs)
      /\ \A i \in DOMAIN walk.dirs : walk.dirs[i] \in Nodes
  BY DirsType
<1>2. walk.head \in Nat /\ \A i : i \in 1 .. walk.head <=> i \in DOMAIN walk.dirs /\ i <= walk.head
  BY <1>1
<1>3. Top \notin Nodes
  BY DEF Nodes, Top
<1> QED
  BY <1>1, <1>2, <1>3 DEF Opened

\* An entry that is not handled yet: how deep, and what is above it.
LEMMA LeftIs ==
  ASSUME WalkInv, at = "read", NEW n \in left
  PROVE  /\ n \in Nodes /\ tree.parent[n] = dir /\ dir \in {Top} \union Opened
         /\ Depth(n) = IF dir = Top THEN 0 ELSE level.depth
         /\ Above(n) \subseteq Opened
         /\ dir # Top => recursive
         /\ \A i \in DOMAIN walk.dirs : Depth(walk.dirs[i]) <= Depth(n)
         /\ \A i \in DOMAIN walk.dirs : walk.dirs[i] # n
         /\ ~scan.truncated
<1>0. WalkTypes /\ QueueInv /\ LevelInv /\ ReadInv /\ tree \in Trees
  BY DEF WalkInv, WalkTypes
<1>1. n \in Nodes /\ tree.parent[n] = dir /\ ~scan.truncated /\ \A i \in DOMAIN walk.dirs : walk.dirs[i] # n
  BY <1>0 DEF ReadInv
<1>2. /\ Len(walk.dirs) \in Nat /\ DOMAIN walk.dirs = 1 .. Len(walk.dirs)
      /\ \A i \in DOMAIN walk.dirs : walk.dirs[i] \in Nodes
      /\ walk.head \in 0 .. Len(walk.dirs)
  BY <1>0, DirsType DEF QueueInv
<1>3. CASE dir = Top
  <2>1. Above(n) = {} /\ Depth(n) = 0
    BY <1>0, <1>1, <1>3, AboveIs, DepthIs
  <2>2. \A i \in DOMAIN walk.dirs : Depth(walk.dirs[i]) = 0
    BY <1>0, <1>3 DEF LevelInv, AtTop
  <2> QED
    BY <1>1, <1>3, <2>1, <2>2
<1>4. CASE dir # Top
  <2>1. walk.head # 0 /\ dir = walk.dirs[walk.head] /\ dir \in Opened
    BY <1>0, <1>4 DEF ReadInv
  <2>2. walk.head \in DOMAIN walk.dirs /\ dir \in Nodes /\ walk.head > 0
    BY <1>2, <2>1
  <2>3. Depth(dir) = level.depth - 1 /\ level.depth \in Nat
    BY <1>0, <1>4, <2>1, <2>2 DEF LevelInv, AtTop, WalkTypes
  <2>4. Depth(n) = Depth(dir) + 1 /\ Above(n) = {dir} \union Above(dir)
    BY <1>0, <1>1, <1>4, AboveIs, DepthIs
  <2>5. MayEnter(dir) /\ Above(dir) \subseteq Opened
    BY <1>0, <2>1, <2>2 DEF QueueInv
  <2>6. ASSUME NEW i \in DOMAIN walk.dirs PROVE Depth(walk.dirs[i]) <= level.depth
    <3>1. Depth(walk.dirs[i]) \in Nat /\ level.end \in Nat
      BY <1>0, <1>2, DepthIs DEF WalkTypes
    <3>2. i \in 1 .. walk.head \/ i \in walk.head + 1 .. level.end \/ i \in level.end + 1 .. Len(walk.dirs)
      BY <1>0, <1>2, <1>4, <3>1 DEF LevelInv, AtTop
    <3>3. \/ Depth(walk.dirs[i]) <= level.depth - 1
          \/ Depth(walk.dirs[i]) = level.depth - 1
          \/ Depth(walk.dirs[i]) = level.depth
      BY <1>0, <1>4, <3>2 DEF LevelInv, AtTop
    <3> QED
      BY <2>3, <3>1, <3>3
  <2> QED
    BY <1>1, <1>4, <2>1, <2>3, <2>4, <2>5, <2>6 DEF MayEnter
<1> QED
  BY <1>3, <1>4

\* Directories whose parents are opened before them.
LEMMA AllOpened ==
  ASSUME NEW Q, Q \subseteq Nodes,
         \A q \in Q : tree.parent[q] = Top \/ (tree.parent[q] \in Q /\ tree.parent[q] < q),
         \A q \in Q : tree.parent[q] \in {Top} \union Opened => q \in Opened
  PROVE  Q \subseteq Opened
<1> DEFINE missed == Q \ Opened
<1>1. SUFFICES ASSUME missed # {} PROVE FALSE
  OBVIOUS
<1>2. missed \subseteq Nat
  <2>1. Nodes \subseteq Nat
    BY LimitsAssumption DEF Nodes
  <2> QED
    BY <2>1
<1>3. PICK q \in missed : \A k \in missed : q <= k
  <2> HIDE DEF missed
  <2> QED
    BY <1>1, <1>2, Least
<1>4. tree.parent[q] \in Q /\ tree.parent[q] < q /\ tree.parent[q] \notin Opened
  BY <1>3
<1>5. tree.parent[q] \in missed /\ q \in Nat /\ tree.parent[q] \in Nat
  BY <1>2, <1>3, <1>4
<1> QED
  BY <1>3, <1>4, <1>5

\* What is above a visible node can be entered.
LEMMA AboveVisible ==
  ASSUME tree \in Trees, recursive \in BOOLEAN, NEW n \in Nodes, NEW p, p = tree.parent[n], p # Top,
         recursive, Depth(n) <= MaxDepth, Above(n) \intersect Closed = {}
  PROVE  /\ p \in Nodes /\ p < n /\ MayEnter(p) /\ Depth(n) = Depth(p) + 1
         /\ Above(p) \intersect Closed = {} /\ p \notin Closed
<1>1. p \in Nodes /\ p < n /\ tree.kind[p] = "dir"
  BY TreeType
<1>2. Depth(n) = Depth(p) + 1 /\ Depth(p) \in Nat /\ Above(n) = {p} \union Above(p)
  BY <1>1, DepthIs, AboveIs
<1>3. Depth(p) < MaxDepth
  BY <1>2, LimitsAssumption
<1> QED
  BY <1>1, <1>2, <1>3 DEF MayEnter

LEMMA PathsAreVisible ==
  ASSUME WalkInv
  PROVE  \A n \in scan.paths : n \in Nodes /\ Visible(n) /\ (recursive \/ tree.parent[n] = Top)
<1>0. WalkTypes /\ QueueInv /\ FoundInv /\ LostInv /\ tree \in Trees /\ recursive \in BOOLEAN
  BY DEF WalkInv, WalkTypes
<1> SUFFICES ASSUME NEW n \in scan.paths
             PROVE  n \in Nodes /\ Visible(n) /\ (recursive \/ tree.parent[n] = Top)
  OBVIOUS
<1>1. n \in Nodes /\ tree.kind[n] = "image" /\ Above(n) \subseteq Opened
  BY <1>0 DEF FoundInv, WalkTypes
<1>2. /\ Above(n) \intersect walk.unreadable = {}
      /\ ({n} \union Above(n)) \intersect walk.lost = {}
  <2>1. Opened \intersect walk.unreadable = {}
    BY <1>0, OpenedAre DEF QueueInv
  <2>2. Opened \intersect walk.lost = {}
    BY <1>0, OpenedAre DEF QueueInv, LostInv
  <2>3. n \notin walk.lost
    BY <1>0 DEF LostInv
  <2> QED
    BY <1>1, <2>1, <2>2, <2>3
<1>3. CASE tree.parent[n] = Top
  <2>1. Depth(n) = 0
    BY <1>0, <1>1, <1>3, DepthIs
  <2> QED
    BY <1>1, <1>2, <1>3, <2>1, LimitsAssumption DEF Visible
<1>4. CASE tree.parent[n] # Top
  <2> DEFINE p == tree.parent[n]
  <2>1. p \in Nodes /\ Depth(n) = Depth(p) + 1 /\ p \in Above(n) /\ Depth(p) \in Nat
    BY <1>0, <1>1, <1>4, TreeType, AboveIs, DepthIs
  <2>2. p \in Opened
    BY <1>1, <2>1
  <2>3. PICK i \in DOMAIN walk.dirs : walk.dirs[i] = p
    BY <1>0, <2>2, OpenedAre DEF QueueInv
  <2>4. MayEnter(p)
    BY <1>0, <2>3 DEF QueueInv
  <2>5. recursive /\ Depth(n) <= MaxDepth
    BY <2>1, <2>4, LimitsAssumption DEF MayEnter
  <2> QED
    BY <1>1, <1>2, <2>5 DEF Visible
<1> QED
  BY <1>3, <1>4

\* Whatever the walk has come to, it came to what is nearer first.
LEMMA WalkIsNearestFirst ==
  ASSUME WalkInv
  PROVE  NearestFirst
<1>0. WalkTypes /\ QueueInv /\ LevelInv /\ ReadInv /\ FoundInv /\ EnteredInv
      /\ tree \in Trees /\ recursive \in BOOLEAN
  BY DEF WalkInv, WalkTypes
<1>1. /\ Len(walk.dirs) \in Nat /\ DOMAIN walk.dirs = 1 .. Len(walk.dirs)
      /\ \A i \in DOMAIN walk.dirs : walk.dirs[i] \in Nodes
      /\ walk.head \in 0 .. Len(walk.dirs)
  BY <1>0, DirsType DEF QueueInv
<1> SUFFICES ASSUME NEW n \in scan.paths, NEW m \in Nodes, Visible(m), Depth(m) < Depth(n)
             PROVE  m \in scan.paths
  BY DEF NearestFirst
<1> DEFINE p == tree.parent[n]
           d == level.depth
<1>2. n \in Nodes /\ Visible(n) /\ Above(n) \subseteq Opened /\ Depth(n) \in Nat /\ Depth(m) \in Nat
  BY <1>0, PathsAreVisible, DepthIs DEF FoundInv
<1>3. p # Top /\ p \in Opened /\ Depth(n) = Depth(p) + 1 /\ p \in Nodes
  <2>1. p # Top
    BY <1>0, <1>2, DepthIs
  <2>2. p \in Nodes
    BY <1>0, <1>2, <2>1, TreeType
  <2> QED
    BY <1>0, <1>2, <2>1, <2>2, AboveIs, DepthIs
<1>4. PICK i \in DOMAIN walk.dirs : i <= walk.head /\ walk.dirs[i] = p
  BY <1>0, <1>1, <1>3, OpenedAre
<1>5. walk.head \in Nat \ {0} /\ i \in 1 .. walk.head /\ walk.head \in DOMAIN walk.dirs
  BY <1>1, <1>4
<1>6. ~AtTop /\ recursive /\ d \in Nat
  BY <1>0, <1>4, <1>5 DEF LevelInv, QueueInv, MayEnter, WalkTypes
<1>7. Depth(p) <= d - 1 /\ Depth(walk.dirs[walk.head]) = d - 1
  BY <1>0, <1>4, <1>5, <1>6 DEF LevelInv
<1>8. Depth(m) < d
  <2>1. Depth(p) \in Nat
    BY <1>0, <1>3, DepthIs
  <2> QED
    BY <1>2, <1>3, <1>6, <1>7, <2>1
\* Nothing but the entries of the directory opened last is unread.
<1>9. ASSUME NEW q \in Nodes, tree.parent[q] \in {Top} \union Opened, Depth(q) < d, q \notin walk.lost
      PROVE  Seen(q)
  <2>1. tree.parent[q] # walk.dirs[walk.head]
    <3>1. ASSUME tree.parent[q] = walk.dirs[walk.head] PROVE FALSE
      <4>1. tree.parent[q] \in Nodes /\ tree.parent[q] # Top
        BY <1>1, <1>5, <3>1 DEF Nodes, Top
      <4>2. Depth(q) = Depth(tree.parent[q]) + 1
        BY <1>0, <4>1, DepthIs
      <4> QED
        BY <1>6, <1>7, <1>9, <3>1, <4>2
    <3> QED
      BY <3>1
  <2>2. at = "read" \/ scan.truncated => dir = walk.dirs[walk.head]
    BY <1>0, <1>5 DEF ReadInv
  <2>3. q \notin left
    <3>1. ASSUME q \in left PROVE FALSE
      <4>1. tree.parent[q] = dir /\ left # {}
        BY <1>0, <3>1 DEF ReadInv
      <4>2. at = "read"
        BY <1>0, <4>1 DEF ReadInv, WalkTypes
      <4> QED
        BY <2>1, <2>2, <4>1, <4>2
    <3> QED
      BY <3>1
  <2> QED
    BY <1>9, <2>1, <2>2, <2>3 DEF Seen
<1> DEFINE Q == {q \in Nodes : /\ MayEnter(q) /\ Depth(q) < d - 1
                               /\ Above(q) \intersect Closed = {} /\ q \notin Closed}
<1>10. Q \subseteq Opened
  <2>1. ASSUME NEW q \in Q
        PROVE  tree.parent[q] = Top \/ (tree.parent[q] \in Q /\ tree.parent[q] < q)
    <3>1. ASSUME tree.parent[q] # Top PROVE tree.parent[q] \in Q /\ tree.parent[q] < q
      <4>1. Depth(q) <= MaxDepth /\ Depth(q) \in Nat
        BY <1>0, DepthIs, LimitsAssumption DEF MayEnter
      <4>2. /\ tree.parent[q] \in Nodes /\ tree.parent[q] < q /\ MayEnter(tree.parent[q])
            /\ Depth(q) = Depth(tree.parent[q]) + 1
            /\ Above(tree.parent[q]) \intersect Closed = {}
            /\ tree.parent[q] \notin Closed
        BY <1>0, <1>6, <3>1, <4>1, AboveVisible
      <4>3. Depth(tree.parent[q]) \in Nat
        BY <1>0, <4>2, DepthIs
      <4>4. Depth(tree.parent[q]) < d - 1
        BY <1>6, <4>2, <4>3
      <4> QED
        BY <4>2, <4>4
    <3> QED
      BY <3>1
  <2>2. ASSUME NEW q \in Q, tree.parent[q] \in {Top} \union Opened
        PROVE  q \in Opened
    <3>1. Depth(q) \in Nat /\ Depth(q) < d - 1
      BY <1>0, DepthIs
    <3>2. Seen(q) /\ MayEnter(q)
      BY <1>6, <1>9, <2>2, <3>1 DEF Closed
    <3>3. PICK k \in DOMAIN walk.dirs : walk.dirs[k] = q
      <4>1. Depth(walk.dirs[walk.head]) > Depth(q)
        BY <1>6, <1>7, <3>1
      <4>2. ~(Depth(walk.dirs[walk.head]) <= Depth(q))
        BY <1>6, <1>7, <3>1
      <4> QED
        BY <1>0, <1>5, <3>2, <4>2 DEF EnteredInv
    <3>4. k <= walk.head
      <4>1. ASSUME ~(k <= walk.head) PROVE FALSE
        <5>1. k \in walk.head + 1 .. level.end \/ k \in level.end + 1 .. Len(walk.dirs)
          BY <1>0, <1>1, <1>6, <4>1 DEF LevelInv
        <5>2. Depth(walk.dirs[k]) = d - 1 \/ Depth(walk.dirs[k]) = d
          BY <1>0, <1>6, <5>1 DEF LevelInv
        <5> QED
          BY <1>6, <3>1, <3>3, <5>2
      <4> QED
        BY <4>1
    <3> QED
      BY <1>0, <1>1, <3>3, <3>4, OpenedAre DEF Closed
  <2>3. Q \subseteq Nodes
    OBVIOUS
  <2> HIDE DEF Q
  <2> QED
    BY <2>1, <2>2, <2>3, AllOpened
<1>11. tree.parent[m] \in {Top} \union Opened
  <2>1. ASSUME tree.parent[m] # Top PROVE tree.parent[m] \in Q
    <3>1. Depth(m) <= MaxDepth /\ Above(m) \intersect Closed = {}
      BY <1>6 DEF Visible, Closed
    <3>2. /\ tree.parent[m] \in Nodes /\ MayEnter(tree.parent[m])
          /\ Depth(m) = Depth(tree.parent[m]) + 1
          /\ Above(tree.parent[m]) \intersect Closed = {}
          /\ tree.parent[m] \notin Closed
      BY <1>0, <1>6, <2>1, <3>1, AboveVisible
    <3>3. Depth(tree.parent[m]) \in Nat
      BY <1>0, <3>2, DepthIs
    <3>4. Depth(tree.parent[m]) < d - 1
      BY <1>6, <1>8, <3>2, <3>3
    <3> QED
      BY <3>2, <3>4
  <2> QED
    BY <1>10, <2>1
<1>12. Seen(m) /\ tree.kind[m] = "image"
  BY <1>8, <1>9, <1>11 DEF Visible
<1> QED
  BY <1>0, <1>12 DEF FoundInv

\* A walk that came to the end of its queue has been everywhere.
LEMMA WalkIsComplete ==
  ASSUME WalkInv, at = "open", ~scan.truncated, ~walk.capped, ~(walk.head < Len(walk.dirs))
  PROVE  scan.paths = {n \in Nodes : Visible(n)}
<1>0. WalkTypes /\ QueueInv /\ ReadInv /\ FoundInv /\ EnteredInv /\ tree \in Trees /\ recursive \in BOOLEAN
  BY DEF WalkInv, WalkTypes
<1>1. /\ Len(walk.dirs) \in Nat /\ DOMAIN walk.dirs = 1 .. Len(walk.dirs)
      /\ walk.head = Len(walk.dirs) /\ walk.head \in 0 .. Len(walk.dirs)
  BY <1>0, DirsType DEF QueueInv
<1>2. \A q \in Nodes : tree.parent[q] \in {Top} \union Opened /\ q \notin walk.lost => Seen(q)
  BY <1>0 DEF ReadInv, Seen
<1> DEFINE Q == {q \in Nodes : /\ MayEnter(q)
                               /\ Above(q) \intersect Closed = {} /\ q \notin Closed}
<1>3. Q \subseteq Opened
  <2>1. ASSUME NEW q \in Q
        PROVE  tree.parent[q] = Top \/ (tree.parent[q] \in Q /\ tree.parent[q] < q)
    <3>1. ASSUME tree.parent[q] # Top PROVE tree.parent[q] \in Q /\ tree.parent[q] < q
      <4>1. Depth(q) <= MaxDepth /\ recursive
        BY <1>0, DepthIs, LimitsAssumption DEF MayEnter
      <4> QED
        BY <1>0, <3>1, <4>1, AboveVisible
    <3> QED
      BY <3>1
  <2>2. ASSUME NEW q \in Q, tree.parent[q] \in {Top} \union Opened
        PROVE  q \in Opened
    <3>1. Seen(q) /\ MayEnter(q)
      BY <1>2, <2>2 DEF Closed
    <3>2. PICK k \in DOMAIN walk.dirs : walk.dirs[k] = q
      BY <1>0, <3>1 DEF EnteredInv
    <3> QED
      BY <1>0, <1>1, <3>2, OpenedAre DEF Closed
  <2>3. Q \subseteq Nodes
    OBVIOUS
  <2> HIDE DEF Q
  <2> QED
    BY <2>1, <2>2, <2>3, AllOpened
<1>4. ASSUME NEW m \in Nodes, Visible(m) PROVE m \in scan.paths
  <2>1. Depth(m) \in Nat
    BY <1>0, DepthIs
  <2>2. tree.parent[m] \in {Top} \union Opened
    <3>1. ASSUME tree.parent[m] # Top PROVE tree.parent[m] \in Q
      <4>0. tree.parent[m] \in Nodes /\ Depth(m) = Depth(tree.parent[m]) + 1
            /\ Depth(tree.parent[m]) \in Nat
        BY <1>0, <3>1, TreeType, DepthIs
      <4>1. Depth(m) <= MaxDepth /\ recursive /\ Above(m) \intersect Closed = {}
        BY <1>0, <1>4, <2>1, <4>0 DEF Visible, Closed
      <4> QED
        BY <1>0, <3>1, <4>1, AboveVisible
    <3> QED
      BY <1>3, <3>1
  <2>3. Seen(m) /\ tree.kind[m] = "image"
    BY <1>2, <1>4, <2>2 DEF Visible
  <2> QED
    BY <1>0, <2>3 DEF FoundInv
<1>5. \A n \in scan.paths : n \in Nodes /\ Visible(n)
  BY PathsAreVisible
<1> QED
  BY <1>4, <1>5

-----------------------------------------------------------------------------
(* The steps of the walk.                                                  *)

\* The entries that were spent are a number, the directory is what it was.
LEMMA EntryTypes ==
  ASSUME WalkInv, NEW n \in Nodes, ReadEntry(n)
  PROVE  /\ at = "read" /\ n \in left /\ Spent \in Nat
         /\ tree' = tree /\ recursive' = recursive /\ at' = at /\ dir' = dir /\ level' = level
         /\ \/ /\ walk' = [walk EXCEPT !.entries = Spent] /\ left' = {}
               /\ scan' = [scan EXCEPT !.truncated = TRUE]
            \/ /\ Descended(n) /\ Len(walk.dirs) = MaxDirs /\ scan' = scan /\ left' = left \ {n}
               /\ walk' = [walk EXCEPT !.entries = Spent, !.capped = TRUE]
            \/ /\ Descended(n) /\ Len(walk.dirs) # MaxDirs /\ scan' = scan /\ left' = left \ {n}
               /\ walk' = [walk EXCEPT !.entries = Spent, !.dirs = Append(@, n)]
            \/ /\ tree.kind[n] = "image" /\ left' = left \ {n}
               /\ scan' = [scan EXCEPT !.paths = @ \union {n}]
               /\ walk' = [walk EXCEPT !.entries = Spent]
            \/ /\ tree.kind[n] # "image" /\ ~Descended(n) /\ scan' = scan /\ left' = left \ {n}
               /\ \/ walk' = walk
                  \/ walk' = [walk EXCEPT !.entries = Spent]
<1>1. Spent \in Nat
  BY DEF WalkInv, WalkTypes, WalkRecords, Spent
<1>2. /\ at = "read" /\ n \in left
      /\ UNCHANGED <<tree, recursive, at, dir, level>>
  BY DEF ReadEntry
<1>3. \/ Stop /\ walk' = [walk EXCEPT !.entries = Spent]
      \/ Descended(n) /\ PushDir(n)
      \/ ~Descended(n) /\ tree.kind[n] = "image" /\ PushItem(n)
      \/ ~Descended(n) /\ tree.kind[n] # "image" /\ Skip(n)
  BY DEF ReadEntry
<1>4. CASE Stop /\ walk' = [walk EXCEPT !.entries = Spent]
  BY <1>1, <1>2, <1>4 DEF Stop
<1>5. CASE Descended(n) /\ PushDir(n)
  BY <1>1, <1>2, <1>5 DEF PushDir
<1>6. CASE ~Descended(n) /\ tree.kind[n] = "image" /\ PushItem(n)
  BY <1>1, <1>2, <1>6 DEF PushItem, Stop
<1>7. CASE ~Descended(n) /\ tree.kind[n] # "image" /\ Skip(n)
  BY <1>1, <1>2, <1>7 DEF Skip
<1> QED
  BY <1>3, <1>4, <1>5, <1>6, <1>7

\* Handling an entry leaves the queue up to its head as it is.
LEMMA OpenedSame ==
  ASSUME walk'.head = walk.head, walk'.unreadable = walk.unreadable,
         \A i \in 1 .. walk.head : walk'.dirs[i] = walk.dirs[i]
  PROVE  Opened' = Opened
BY DEF Opened

\* An entry is handled, nothing is put into the queue.
LEMMA QueueSame ==
  ASSUME WalkInv, at' = at, tree' = tree, recursive' = recursive, dir' = dir, level' = level,
         walk'.head = walk.head, walk'.unreadable = walk.unreadable, walk'.dirs = walk.dirs,
         walk'.capped => Len(walk.dirs) = MaxDirs
  PROVE  QueueInv' /\ LevelInv' /\ Opened' = Opened
<1>0. QueueInv /\ LevelInv
  BY DEF WalkInv
<1>1. Opened' = Opened
  BY OpenedSame
<1>2. \A i : /\ Depth(walk.dirs[i])' = Depth(walk.dirs[i])
             /\ Above(walk.dirs[i])' = Above(walk.dirs[i])
             /\ MayEnter(walk.dirs[i])' <=> MayEnter(walk.dirs[i])
  BY AboveSame DEF MayEnter
<1>3. QueueInv'
  BY <1>0, <1>1, <1>2 DEF QueueInv
<1>4. LevelInv'
  BY <1>0, <1>2, AboveSame DEF LevelInv, AtTop
<1> QED
  BY <1>1, <1>3, <1>4

LEMMA StopKeeps ==
  ASSUME WalkInv, at = "read", tree' = tree, recursive' = recursive, at' = at, dir' = dir, level' = level,
         Spent \in Nat, walk' = [walk EXCEPT !.entries = Spent], left' = {},
         scan' = [scan EXCEPT !.truncated = TRUE]
  PROVE  WalkInv'
<1>0. WalkTypes /\ QueueInv /\ LevelInv /\ ReadInv /\ FoundInv /\ EnteredInv /\ LostInv
  BY DEF WalkInv
<1>1. /\ walk' \in WalkRecords
      /\ walk'.head = walk.head /\ walk'.unreadable = walk.unreadable /\ walk'.dirs = walk.dirs
      /\ walk'.capped = walk.capped /\ walk'.lost = walk.lost
  BY <1>0 DEF WalkTypes, WalkRecords
<1>2. /\ scan' \in [paths : SUBSET Nodes, truncated : BOOLEAN, result : {"none"}]
      /\ scan'.truncated /\ scan'.paths = scan.paths
  BY <1>0 DEF WalkTypes
<1>3. WalkTypes'
  BY <1>0, <1>1, <1>2 DEF WalkTypes
<1>4. QueueInv' /\ LevelInv' /\ Opened' = Opened
  BY <1>0, <1>1, QueueSame DEF QueueInv
<1>5. ReadInv'
  BY <1>0, <1>1, <1>2, <1>4 DEF ReadInv
<1>6. \A n : Seen(n)' => Seen(n)
  BY <1>0, <1>1, <1>2, <1>4 DEF Seen, ReadInv
<1>7. FoundInv'
  BY <1>0, <1>2, <1>4, <1>6, AboveSame DEF FoundInv
<1>8. EnteredInv'
  BY <1>0, <1>1, <1>6, AboveSame DEF EnteredInv, MayEnter
<1>9. LostInv'
  BY <1>0, <1>1, <1>2, <1>4 DEF LostInv
<1> QED
  BY <1>3, <1>4, <1>5, <1>7, <1>8, <1>9 DEF WalkInv

\* scan_dir enters what the walk may enter.
LEMMA DescendedIs ==
  ASSUME WalkInv, at = "read", NEW n \in left
  PROVE  Descended(n) <=> MayEnter(n)
<1>1. /\ Depth(n) = IF dir = Top THEN 0 ELSE level.depth
      /\ dir # Top => recursive
  BY LeftIs
<1> QED
  BY <1>1, LimitsAssumption DEF Descended, Descends, MayEnter

LEMMA HandledKeeps ==
  ASSUME WalkInv, at = "read", NEW n \in left,
         tree' = tree, recursive' = recursive, at' = at, dir' = dir, level' = level, left' = left \ {n},
         walk' \in WalkRecords,
         walk'.head = walk.head, walk'.unreadable = walk.unreadable, walk'.dirs = walk.dirs,
         walk'.lost = walk.lost, walk.capped => walk'.capped, walk'.capped => Len(walk.dirs) = MaxDirs,
         Descended(n) => walk'.capped,
         scan' \in [paths : SUBSET Nodes, truncated : BOOLEAN, result : {"none"}],
         scan'.truncated = scan.truncated,
         scan'.paths = IF tree.kind[n] = "image" THEN scan.paths \union {n} ELSE scan.paths
  PROVE  WalkInv'
<1>0. WalkTypes /\ QueueInv /\ LevelInv /\ ReadInv /\ FoundInv /\ EnteredInv /\ LostInv
  BY DEF WalkInv
<1>1. /\ n \in Nodes /\ tree.parent[n] = dir /\ dir \in {Top} \union Opened /\ Above(n) \subseteq Opened
      /\ \A i \in DOMAIN walk.dirs : Depth(walk.dirs[i]) <= Depth(n)
      /\ ~scan.truncated
  BY LeftIs
<1>2. WalkTypes'
  BY <1>0 DEF WalkTypes
<1>3. QueueInv' /\ LevelInv' /\ Opened' = Opened
  BY QueueSame
<1>4. ReadInv'
  BY <1>0, <1>1, <1>3 DEF ReadInv
<1>5. \A m : Seen(m)' => Seen(m) \/ m = n
  BY <1>3 DEF Seen
<1>6. FoundInv'
  BY <1>0, <1>1, <1>3, <1>5, AboveSame DEF FoundInv
<1>7. ASSUME NEW m \in Nodes, Seen(m)', MayEnter(m)'
      PROVE  \/ \E i \in DOMAIN walk'.dirs : walk'.dirs[i] = m
             \/ walk'.capped /\ \A i \in DOMAIN walk'.dirs : Depth(walk.dirs[i])' <= Depth(m)'
  <2>1. MayEnter(m) /\ Depth(m)' = Depth(m) /\ \A i : Depth(walk.dirs[i])' = Depth(walk.dirs[i])
    BY <1>7, AboveSame DEF MayEnter
  <2>2. CASE Seen(m)
    BY <1>0, <2>1, <2>2 DEF EnteredInv
  <2>3. CASE m = n
    BY <1>1, <2>1, <2>3, DescendedIs
  <2> QED
    BY <1>5, <1>7, <2>2, <2>3
<1>8. EnteredInv'
  BY <1>7 DEF EnteredInv
<1>9. LostInv'
  BY <1>0, <1>3 DEF LostInv
<1> QED
  BY <1>2, <1>3, <1>4, <1>6, <1>8, <1>9 DEF WalkInv

\* A directory goes to the end of the queue, to the next level.
LEMMA PushKeeps ==
  ASSUME WalkInv, at = "read", NEW n \in left, Descended(n), Len(walk.dirs) # MaxDirs,
         tree' = tree, recursive' = recursive, at' = at, dir' = dir, level' = level, left' = left \ {n},
         Spent \in Nat, walk' = [walk EXCEPT !.entries = Spent, !.dirs = Append(@, n)], scan' = scan
  PROVE  WalkInv'
<1> DEFINE len == Len(walk.dirs)
<1>0. WalkTypes /\ QueueInv /\ LevelInv /\ ReadInv /\ FoundInv /\ EnteredInv /\ LostInv
  BY DEF WalkInv
<1>1. /\ n \in Nodes /\ tree.parent[n] = dir /\ dir \in {Top} \union Opened /\ Above(n) \subseteq Opened
      /\ Depth(n) = IF dir = Top THEN 0 ELSE level.depth
      /\ \A i \in DOMAIN walk.dirs : Depth(walk.dirs[i]) <= Depth(n)
      /\ \A i \in DOMAIN walk.dirs : walk.dirs[i] # n
      /\ ~scan.truncated
  BY LeftIs
<1>2. MayEnter(n)
  BY DescendedIs
<1>3. /\ len \in Nat /\ walk.dirs \in Seq(Nodes) /\ DOMAIN walk.dirs = 1 .. len
      /\ walk.head \in 0 .. len
  BY <1>0, DirsType DEF QueueInv
<1>4. /\ walk'.dirs = Append(walk.dirs, n) /\ walk'.head = walk.head /\ walk'.unreadable = walk.unreadable
      /\ walk'.capped = walk.capped /\ walk'.entries = Spent /\ walk'.lost = walk.lost
      /\ walk' = [dirs |-> walk'.dirs, head |-> walk'.head, entries |-> walk'.entries,
                  unreadable |-> walk'.unreadable, capped |-> walk'.capped, lost |-> walk'.lost]
  BY <1>0 DEF WalkTypes, WalkRecords
<1>5. /\ walk'.dirs \in Seq(Nodes) /\ Len(walk'.dirs) = len + 1 /\ DOMAIN walk'.dirs = 1 .. len + 1
      /\ \A i \in 1 .. len : walk'.dirs[i] = walk.dirs[i]
      /\ walk'.dirs[len + 1] = n
  BY <1>1, <1>3, <1>4, AppendProperties, LenProperties
<1> HIDE DEF len
<1>6. WalkTypes'
  BY <1>0, <1>4, <1>5 DEF WalkTypes, WalkRecords
<1>7. Opened' = Opened
  <2>1. \A i \in 1 .. walk.head : walk'.dirs[i] = walk.dirs[i]
    BY <1>3, <1>5
  <2> QED
    BY <1>4, <2>1, OpenedSame
<1>8. /\ \A m : Depth(m)' = Depth(m) /\ Above(m)' = Above(m) /\ (MayEnter(m)' <=> MayEnter(m))
      /\ \A i : Depth(walk.dirs[i])' = Depth(walk'.dirs[i])
      /\ \A i : Above(walk.dirs[i])' = Above(walk'.dirs[i])
      /\ \A i : MayEnter(walk.dirs[i])' <=> MayEnter(walk'.dirs[i])
  BY AboveSame DEF MayEnter
<1>9. \A i \in 1 .. len + 1 : i \in 1 .. len \/ i = len + 1
  BY <1>3
<1>10. /\ walk'.head \in 0 .. len + 1
       /\ \A i, j \in 1 .. len + 1 : walk'.dirs[i] = walk'.dirs[j] => i = j
       /\ \A i \in 1 .. len + 1 : MayEnter(walk'.dirs[i]) /\ Above(walk'.dirs[i]) \subseteq Opened
       /\ \A q \in walk'.unreadable : \E i \in 1 .. walk'.head : walk'.dirs[i] = q
       /\ ~walk'.capped
  <2>1. walk'.head \in 0 .. len + 1
    BY <1>3, <1>4
  <2>2. \A i, j \in 1 .. len + 1 : walk'.dirs[i] = walk'.dirs[j] => i = j
    BY <1>0, <1>1, <1>3, <1>5, <1>9 DEF QueueInv
  <2>3. \A i \in 1 .. len + 1 : MayEnter(walk'.dirs[i]) /\ Above(walk'.dirs[i]) \subseteq Opened
    BY <1>0, <1>1, <1>2, <1>3, <1>5, <1>9 DEF QueueInv
  <2>4. ~walk'.capped
    BY <1>0, <1>4 DEF QueueInv, len
  <2>5. \A q \in walk'.unreadable : \E i \in 1 .. walk'.head : walk'.dirs[i] = q
    <3>1. \A i \in 1 .. walk.head : walk'.dirs[i] = walk.dirs[i]
      BY <1>3, <1>5
    <3> QED
      BY <1>0, <1>4, <3>1 DEF QueueInv
  <2> QED
    BY <2>1, <2>2, <2>3, <2>4, <2>5
<1>11. QueueInv'
  BY <1>5, <1>7, <1>8, <1>10 DEF QueueInv
<1>12. LevelInv'
  <2>1. CASE dir = Top
    <3>1. walk.head = 0 /\ \A i \in 1 .. len : Depth(walk.dirs[i]) = 0
      BY <1>0, <1>3, <2>1 DEF LevelInv, AtTop
    <3>2. \A i \in 1 .. len + 1 : Depth(walk'.dirs[i]) = 0
      BY <1>1, <1>5, <1>9, <2>1, <3>1
    <3> QED
      BY <1>4, <1>5, <1>8, <2>1, <3>1, <3>2 DEF LevelInv, AtTop
  <2>2. CASE dir # Top
    <3>1. /\ level.depth > 0 /\ level.end \in walk.head .. len /\ level.end \in Nat
          /\ \A i \in 1 .. walk.head : Depth(walk.dirs[i]) <= level.depth - 1
          /\ \A i \in walk.head + 1 .. level.end : Depth(walk.dirs[i]) = level.depth - 1
          /\ \A i \in level.end + 1 .. len : Depth(walk.dirs[i]) = level.depth
          /\ walk.head > 0 => Depth(walk.dirs[walk.head]) = level.depth - 1
      BY <1>0, <2>2 DEF LevelInv, AtTop, len, WalkTypes
    <3>2. /\ level.end \in walk'.head .. len + 1
          /\ \A i \in 1 .. walk'.head : Depth(walk'.dirs[i]) <= level.depth - 1
          /\ \A i \in walk'.head + 1 .. level.end : Depth(walk'.dirs[i]) = level.depth - 1
          /\ walk'.head > 0 => Depth(walk'.dirs[walk'.head]) = level.depth - 1
      <4>1. \A i \in 1 .. walk.head : i \in 1 .. len
        BY <1>3
      <4>2. \A i \in walk.head + 1 .. level.end : i \in 1 .. len
        BY <1>3, <3>1
      <4>3. walk.head > 0 => walk.head \in 1 .. len
        BY <1>3
      <4> QED
        BY <1>3, <1>4, <1>5, <3>1, <4>1, <4>2, <4>3
    <3>3. ASSUME NEW i \in level.end + 1 .. len + 1 PROVE Depth(walk'.dirs[i]) = level.depth
      <4>1. i \in level.end + 1 .. len \/ i = len + 1
        BY <1>3, <3>1
      <4>2. i \in level.end + 1 .. len => i \in 1 .. len
        BY <1>3, <3>1
      <4> QED
        BY <1>1, <1>5, <2>2, <3>1, <4>1, <4>2
    <3> QED
      BY <1>5, <1>8, <2>2, <3>1, <3>2, <3>3 DEF LevelInv, AtTop
  <2> QED
    BY <2>1, <2>2
<1>13. ReadInv'
  <2>1. left' \subseteq Nodes /\ \A m \in left' : tree'.parent[m] = dir'
    BY <1>0 DEF ReadInv
  <2>2. IF walk'.head = 0 THEN dir' = Top ELSE dir' = walk'.dirs[walk'.head] /\ dir' \in Opened'
    <3>1. IF walk.head = 0 THEN dir = Top ELSE dir = walk.dirs[walk.head] /\ dir \in Opened
      BY <1>0 DEF ReadInv
    <3>2. walk.head # 0 => walk.head \in 1 .. len
      BY <1>3
    <3> QED
      BY <1>4, <1>5, <1>7, <3>1, <3>2
  <2>3. \A i \in 1 .. len + 1 : walk'.dirs[i] \notin left'
    BY <1>0, <1>3, <1>5, <1>9 DEF ReadInv
  <2> QED
    BY <1>1, <1>5, <2>1, <2>2, <2>3 DEF ReadInv
<1>14. \A m : Seen(m)' => Seen(m) \/ m = n
  BY <1>4, <1>7 DEF Seen
<1>15. FoundInv'
  <2>1. tree.kind[n] # "image"
    BY <1>2 DEF MayEnter
  <2> QED
    BY <1>0, <1>7, <1>14, <2>1, AboveSame DEF FoundInv
<1>16. ASSUME NEW m \in Nodes, Seen(m)', MayEnter(m)'
       PROVE  \E i \in DOMAIN walk'.dirs : walk'.dirs[i] = m
  <2>1. MayEnter(m) /\ len + 1 \in DOMAIN walk'.dirs
    BY <1>3, <1>5, <1>8, <1>16
  <2>2. CASE m = n
    BY <1>5, <2>1, <2>2
  <2>3. CASE Seen(m)
    <3>1. PICK i \in DOMAIN walk.dirs : walk.dirs[i] = m
      BY <1>0, <1>4, <1>10, <2>1, <2>3 DEF EnteredInv
    <3>2. i \in DOMAIN walk'.dirs /\ walk'.dirs[i] = m
      BY <1>3, <1>5, <3>1
    <3> QED
      BY <3>2
  <2> QED
    BY <1>14, <1>16, <2>2, <2>3
<1>17. EnteredInv'
  BY <1>16 DEF EnteredInv
<1>18. LostInv'
  <2>1. \A m \in walk'.lost : tree'.parent[m] \in {Top} \union Opened' /\ m \notin left'
    BY <1>0, <1>4, <1>7 DEF LostInv
  <2>2. ASSUME NEW m \in left' \union walk'.lost
        PROVE  m \notin scan'.paths /\ \A i \in 1 .. len + 1 : walk'.dirs[i] # m
    <3>1. m \in left \union walk.lost /\ m # n
      BY <1>0, <1>4, <2>2 DEF LostInv
    <3>2. m \notin scan.paths /\ \A i \in 1 .. len : walk.dirs[i] # m
      BY <1>0, <1>3, <3>1 DEF LostInv
    <3> QED
      BY <1>5, <1>9, <3>1, <3>2
  <2> QED
    BY <1>5, <2>1, <2>2 DEF LostInv
<1> QED
  BY <1>6, <1>11, <1>12, <1>13, <1>15, <1>17, <1>18 DEF WalkInv

LEMMA ReadKeeps ==
  ASSUME WalkInv, NEW n \in Nodes, ReadEntry(n)
  PROVE  WalkInv'
<1>0. /\ at = "read" /\ n \in left /\ Spent \in Nat
      /\ tree' = tree /\ recursive' = recursive /\ at' = at /\ dir' = dir /\ level' = level
  BY EntryTypes, Zenon
<1>1. /\ walk \in WalkRecords
      /\ scan \in [paths : SUBSET Nodes, truncated : BOOLEAN, result : {"none"}]
      /\ walk.capped => Len(walk.dirs) = MaxDirs
  BY DEF WalkInv, WalkTypes, QueueInv
<1>2. CASE walk' = [walk EXCEPT !.entries = Spent] /\ left' = {} /\ scan' = [scan EXCEPT !.truncated = TRUE]
  BY <1>0, <1>2, StopKeeps
<1>3. CASE /\ Descended(n) /\ Len(walk.dirs) = MaxDirs /\ scan' = scan /\ left' = left \ {n}
           /\ walk' = [walk EXCEPT !.entries = Spent, !.capped = TRUE]
  <2>1. /\ walk' \in WalkRecords
        /\ walk'.head = walk.head /\ walk'.unreadable = walk.unreadable /\ walk'.dirs = walk.dirs
        /\ walk'.capped /\ walk'.lost = walk.lost
    BY <1>0, <1>1, <1>3 DEF WalkRecords
  <2>2. tree.kind[n] # "image"
    BY <1>3 DEF Descended
  <2>3. /\ scan' \in [paths : SUBSET Nodes, truncated : BOOLEAN, result : {"none"}]
        /\ scan'.truncated = scan.truncated /\ scan'.paths = scan.paths
    BY <1>1, <1>3
  <2>4. left' = left \ {n} /\ (walk'.capped => Len(walk.dirs) = MaxDirs)
    BY <1>3
  <2> QED
    BY <1>0, <2>1, <2>2, <2>3, <2>4, HandledKeeps
<1>4. CASE /\ Descended(n) /\ Len(walk.dirs) # MaxDirs /\ scan' = scan /\ left' = left \ {n}
           /\ walk' = [walk EXCEPT !.entries = Spent, !.dirs = Append(@, n)]
  BY <1>0, <1>4, PushKeeps
<1>5. CASE /\ tree.kind[n] = "image" /\ left' = left \ {n}
           /\ scan' = [scan EXCEPT !.paths = @ \union {n}]
           /\ walk' = [walk EXCEPT !.entries = Spent]
  <2>1. /\ walk' \in WalkRecords
        /\ walk'.head = walk.head /\ walk'.unreadable = walk.unreadable /\ walk'.dirs = walk.dirs
        /\ walk'.capped = walk.capped /\ walk'.lost = walk.lost
    BY <1>0, <1>1, <1>5 DEF WalkRecords
  <2>2. ~Descended(n)
    BY <1>5 DEF Descended
  <2>3. /\ scan' \in [paths : SUBSET Nodes, truncated : BOOLEAN, result : {"none"}]
        /\ scan'.truncated = scan.truncated /\ scan'.paths = scan.paths \union {n}
    BY <1>1, <1>5
  <2> QED
    BY <1>0, <1>1, <1>5, <2>1, <2>2, <2>3, HandledKeeps
<1>6. CASE /\ tree.kind[n] # "image" /\ ~Descended(n) /\ scan' = scan /\ left' = left \ {n}
           /\ walk' = walk \/ walk' = [walk EXCEPT !.entries = Spent]
  <2>1. /\ walk' \in WalkRecords
        /\ walk'.head = walk.head /\ walk'.unreadable = walk.unreadable /\ walk'.dirs = walk.dirs
        /\ walk'.capped = walk.capped /\ walk'.lost = walk.lost
    BY <1>0, <1>1, <1>6 DEF WalkRecords
  <2>2. /\ scan' \in [paths : SUBSET Nodes, truncated : BOOLEAN, result : {"none"}]
        /\ scan'.truncated = scan.truncated /\ scan'.paths = scan.paths
    BY <1>1, <1>6
  <2>3. left' = left \ {n} /\ (walk'.capped => Len(walk.dirs) = MaxDirs)
    BY <1>1, <1>6, <2>1
  <2>4. tree.kind[n] # "image" /\ ~Descended(n)
    BY <1>6
  <2> QED
    BY <1>0, <2>1, <2>2, <2>3, <2>4, HandledKeeps
<1> QED
  BY <1>2, <1>3, <1>4, <1>5, <1>6, EntryTypes

\* Before anything has been looked at.
Fresh ==
  /\ dir = Top /\ left = {}
  /\ walk = [dirs |-> <<>>, head |-> 0, entries |-> 0, unreadable |-> {}, capped |-> FALSE,
             lost |-> {}]
  /\ level = [depth |-> 0, end |-> 0]
  /\ scan = [paths |-> {}, truncated |-> FALSE, result |-> "none"]

LEMMA OpenTopKeeps ==
  ASSUME Fresh, tree \in Trees, recursive \in BOOLEAN, at' = "read", left' = Entries(Top),
         UNCHANGED <<tree, recursive, dir, walk, level, scan>>
  PROVE  WalkInv'
<1>1. /\ walk' = [dirs |-> <<>>, head |-> 0, entries |-> 0, unreadable |-> {}, capped |-> FALSE,
                  lost |-> {}]
      /\ dir' = Top /\ tree' = tree /\ recursive' = recursive
      /\ level' = [depth |-> 0, end |-> 0]
      /\ scan' = [paths |-> {}, truncated |-> FALSE, result |-> "none"]
  BY DEF Fresh
<1>2. <<>> \in Seq(Nodes) /\ Len(<<>>) = 0 /\ DOMAIN <<>> = {} /\ 1 .. 0 = {}
  OBVIOUS
<1>3. WalkTypes'
  BY <1>1, <1>2 DEF WalkTypes, WalkRecords
<1>4. Opened' = {}
  BY <1>1, <1>2 DEF Opened
<1>5. QueueInv'
  BY <1>1, <1>2 DEF QueueInv
<1>6. LevelInv'
  BY <1>1, <1>2 DEF LevelInv, AtTop
<1>7. left' \subseteq Nodes /\ \A n \in Nodes : tree'.parent[n] = Top <=> n \in left'
  BY <1>1 DEF Entries
<1>8. ReadInv'
  BY <1>1, <1>2, <1>7 DEF ReadInv
<1>9. \A n \in Nodes : ~Seen(n)'
  BY <1>4, <1>7 DEF Seen
<1>10. FoundInv' /\ EnteredInv' /\ LostInv'
  BY <1>1, <1>2, <1>9 DEF FoundInv, EnteredInv, LostInv
<1> QED
  BY <1>3, <1>5, <1>6, <1>8, <1>10 DEF WalkInv

LEMMA CloseKeeps ==
  ASSUME WalkInv, CloseDir
  PROVE  WalkInv'
<1>0. WalkTypes /\ QueueInv /\ LevelInv /\ ReadInv /\ FoundInv /\ EnteredInv /\ LostInv
  BY DEF WalkInv
<1>1. /\ at = "read" /\ at' = "open" /\ left' = {}
      /\ UNCHANGED <<tree, recursive, dir, scan>>
      /\ level' = IF dir = Top THEN [depth |-> 1, end |-> Len(walk.dirs)] ELSE level
  BY DEF CloseDir
<1>2. Len(walk.dirs) \in Nat /\ DOMAIN walk.dirs = 1 .. Len(walk.dirs)
  BY <1>0, DirsType
<1>3. /\ walk' \in WalkRecords /\ walk'.dirs = walk.dirs /\ walk'.head = walk.head
      /\ walk'.unreadable = walk.unreadable /\ walk'.capped = walk.capped
      /\ walk'.lost = walk.lost \union left
  BY <1>0 DEF CloseDir, WalkTypes, WalkRecords, ReadInv
<1>4. Opened' = Opened /\ \A n : (Seen(n)' <=> Seen(n)) /\ (MayEnter(n)' <=> MayEnter(n))
  BY <1>1, <1>3, AboveSame DEF Opened, Seen, MayEnter
<1>5. \A i : /\ Depth(walk.dirs[i])' = Depth(walk.dirs[i])
             /\ Above(walk.dirs[i])' = Above(walk.dirs[i])
             /\ MayEnter(walk.dirs[i])' <=> MayEnter(walk.dirs[i])
  BY <1>1, <1>3, AboveSame DEF MayEnter
<1>6. QueueInv' /\ WalkTypes'
  <2>1. QueueInv'
    BY <1>0, <1>1, <1>3, <1>4, <1>5 DEF QueueInv
  <2>2. WalkTypes'
    BY <1>0, <1>1, <1>2, <1>3 DEF WalkTypes
  <2> QED
    BY <2>1, <2>2
<1>7. ReadInv'
  BY <1>0, <1>1, <1>3, <1>4 DEF ReadInv
<1>8. FoundInv'
  BY <1>0, <1>1, <1>4, AboveSame DEF FoundInv
<1>9. EnteredInv' /\ LostInv'
  <2>1. EnteredInv'
    BY <1>0, <1>1, <1>3, <1>4, <1>5, AboveSame DEF EnteredInv
  <2>2. \A n \in left : tree.parent[n] \in {Top} \union Opened
    BY <1>1, LeftIs
  <2>3. LostInv'
    BY <1>0, <1>1, <1>3, <1>4, <2>2 DEF LostInv
  <2> QED
    BY <2>1, <2>3
<1>10. LevelInv'
  <2>1. CASE dir = Top
    <3>1. walk.head = 0 /\ \A i \in 1 .. Len(walk.dirs) : Depth(walk.dirs[i]) = 0
      BY <1>0, <1>1, <1>2, <2>1 DEF LevelInv, AtTop
    <3>2. level'.depth = 1 /\ level'.end = Len(walk.dirs)
      BY <1>1, <2>1
    <3>3. Len(walk.dirs) + 1 .. Len(walk.dirs) = {} /\ 1 .. 0 = {}
      BY <1>2
    <3> QED
      BY <1>1, <1>2, <1>3, <1>5, AboveSame, <3>1, <3>2, <3>3 DEF LevelInv, AtTop
  <2>2. CASE dir # Top
    BY <1>0, <1>1, <1>3, <1>5, AboveSame, <2>2 DEF LevelInv, AtTop
  <2> QED
    BY <2>1, <2>2
<1> QED
  BY <1>6, <1>7, <1>8, <1>9, <1>10 DEF WalkInv

LEMMA OpenDirKeeps ==
  ASSUME WalkInv, OpenDir
  PROVE  WalkInv'
<1> DEFINE len == Len(walk.dirs)
           h == walk.head
           next == walk.dirs[h + 1]
<1>0. WalkTypes /\ QueueInv /\ LevelInv /\ ReadInv /\ FoundInv /\ EnteredInv /\ LostInv
  BY DEF WalkInv
<1>1. /\ at = "open" /\ ~scan.truncated /\ h < len /\ left = {}
      /\ level' = LevelAt(h) /\ tree' = tree /\ recursive' = recursive /\ scan' = scan
  BY <1>0 DEF OpenDir, MoreDirs, ReadInv
<1>2. /\ len \in Nat /\ walk.dirs \in Seq(Nodes) /\ DOMAIN walk.dirs = 1 .. len /\ h \in Nat
      /\ \A i \in 1 .. len : walk.dirs[i] \in Nodes
      /\ h + 1 \in 1 .. len /\ next \in Nodes
  BY <1>0, <1>1, DirsType DEF QueueInv
<1>3. \/ /\ walk' = [walk EXCEPT !.head = h + 1] /\ dir' = next /\ left' = Entries(next) /\ at' = "read"
      \/ /\ walk' = [walk EXCEPT !.head = h + 1, !.unreadable = @ \union {next}]
         /\ dir' = dir /\ left' = left /\ at' = at
  BY DEF OpenDir
<1>4. /\ walk'.dirs = walk.dirs /\ walk'.head = h + 1 /\ walk'.capped = walk.capped
      /\ walk'.lost = walk.lost
      /\ walk' \in WalkRecords
      /\ \/ walk'.unreadable = walk.unreadable /\ dir' = next /\ left' = Entries(next) /\ at' = "read"
         \/ /\ walk'.unreadable = walk.unreadable \union {next}
            /\ dir' = dir /\ left' = left /\ at' = "open"
  <2> HIDE DEF len, next
  <2>1. walk \in WalkRecords
        /\ h + 1 \in Nat /\ next \in Nodes
    BY <1>0, <1>2 DEF WalkTypes
  <2>2. CASE /\ walk' = [walk EXCEPT !.head = h + 1]
             /\ dir' = next /\ left' = Entries(next) /\ at' = "read"
    <3> HIDE DEF h
    <3> QED
      BY <2>1, <2>2 DEF WalkRecords
  <2>3. CASE /\ walk' = [walk EXCEPT !.head = h + 1, !.unreadable = @ \union {next}]
             /\ dir' = dir /\ left' = left /\ at' = at
    <3> HIDE DEF h
    <3> QED
      BY <1>1, <2>1, <2>3 DEF WalkRecords
  <2> QED
    BY <1>3, <2>2, <2>3
<1>5. ASSUME NEW i \in 1 .. len, walk.dirs[i] = next PROVE i = h + 1
  BY <1>0, <1>2, <1>5 DEF QueueInv
<1>6. next \notin Opened /\ next \notin walk.unreadable
  <2>1. \A i \in 1 .. h : i \in 1 .. len /\ i # h + 1
    BY <1>2
  <2> QED
    BY <1>0, <1>5, <2>1 DEF QueueInv, Opened
<1>7. \A i : i \in 1 .. h + 1 <=> i \in 1 .. h \/ i = h + 1
  BY <1>2
<1> HIDE DEF len, h, next
<1>8. Opened' = IF at' = "read" THEN Opened \union {next} ELSE Opened
  <2>1. Opened = {walk.dirs[i] : i \in 1 .. h} \ walk.unreadable
    BY DEF Opened, h
  <2>2. Opened' = {walk.dirs[i] : i \in 1 .. h + 1} \ walk'.unreadable
    BY <1>4 DEF Opened
  <2>3. walk.dirs[h + 1] = next
    BY DEF next
  <2>4. {walk.dirs[i] : i \in 1 .. h + 1} = {walk.dirs[i] : i \in 1 .. h} \union {next}
    BY <1>7, <2>3
  <2> QED
    BY <1>4, <1>6, <2>1, <2>2, <2>4
<1>9. \A n \in Nodes : Seen(n)' => Seen(n)
  <2> SUFFICES ASSUME NEW n \in Nodes, Seen(n)' PROVE Seen(n)
    OBVIOUS
  <2>1. tree.parent[n] \in {Top} \union Opened' /\ n \notin left' /\ n \notin walk.lost
    BY <1>1, <1>4 DEF Seen
  <2>2. tree.parent[n] \in {Top} \union Opened
    BY <1>4, <1>8, <2>1 DEF Entries
  <2> QED
    BY <1>1, <2>1, <2>2 DEF Seen
<1>10. level' = IF h = level.end THEN [depth |-> level.depth + 1, end |-> len] ELSE level
  BY <1>1 DEF LevelAt, len
<1>11. level.depth \in Nat /\ level.end \in Nat
  BY <1>0 DEF WalkTypes
<1>12. WalkTypes'
  <2>1. level' \in [depth : Nat, end : Nat]
    BY <1>0, <1>2, <1>10, <1>11 DEF WalkTypes
  <2> QED
    BY <1>0, <1>1, <1>4, <2>1 DEF WalkTypes
<1>13. /\ \A i : /\ Depth(walk.dirs[i])' = Depth(walk.dirs[i])
                 /\ Above(walk.dirs[i])' = Above(walk.dirs[i])
                 /\ MayEnter(walk.dirs[i])' <=> MayEnter(walk.dirs[i])
       /\ \A n : /\ Depth(n)' = Depth(n) /\ Above(n)' = Above(n)
                 /\ MayEnter(n)' <=> MayEnter(n)
  BY <1>1, <1>4, AboveSame DEF MayEnter
<1>14. QueueInv'
  <2>1. walk'.head \in 0 .. Len(walk'.dirs)
    BY <1>2, <1>4 DEF len
  <2>2. \A q \in walk'.unreadable : \E i \in 1 .. walk'.head : walk'.dirs[i] = q
    <3>1. \A q \in walk.unreadable : \E i \in 1 .. h : walk.dirs[i] = q
      BY <1>0 DEF QueueInv, h
    <3>2. walk.dirs[h + 1] = next
      BY DEF next
    <3> QED
      BY <1>4, <1>7, <3>1, <3>2
  <2> QED
    BY <1>0, <1>4, <1>8, <1>13, <2>1, <2>2 DEF QueueInv
<1>15. ReadInv'
  <2>1. CASE at' = "read"
    <3>1. dir' = next /\ left' = Entries(next) /\ dir' \in Opened'
      BY <1>4, <1>8, <2>1
    <3>2. left' \subseteq Nodes /\ \A n \in left' : tree'.parent[n] = dir'
      BY <1>1, <3>1 DEF Entries
    <3>3. walk'.head # 0 /\ dir' = walk'.dirs[walk'.head]
      BY <1>2, <1>4, <3>1 DEF next
    <3>4. ASSUME NEW i \in 1 .. len, walk.dirs[i] \in left' PROVE FALSE
      <4>1. walk.dirs[i] \in Nodes /\ tree.parent[walk.dirs[i]] = next /\ next # Top /\ tree \in Trees
        BY <1>0, <1>1, <1>2, <3>1, <3>4 DEF Entries, Nodes, Top, WalkTypes
      <4>2. next \in Above(walk.dirs[i])
        BY <4>1, AboveIs
      <4>3. Above(walk.dirs[i]) \subseteq Opened
        BY <1>0, <1>2 DEF QueueInv
      <4> QED
        BY <1>6, <4>2, <4>3
    <3> QED
      BY <1>1, <1>2, <1>4, <2>1, <3>1, <3>2, <3>3, <3>4 DEF ReadInv
  <2>2. CASE at' # "read"
    <3>1. at' = "open" /\ left' = {} /\ ~scan'.truncated
      BY <1>1, <1>4, <2>2
    <3> QED
      BY <3>1 DEF ReadInv
  <2> QED
    BY <2>1, <2>2
<1>16. FoundInv'
  BY <1>0, <1>1, <1>8, <1>9, <1>13 DEF FoundInv
<1>17. EnteredInv'
  BY <1>0, <1>4, <1>9, <1>13 DEF EnteredInv
<1>18. LevelInv'
  <2>1. ~AtTop /\ ~AtTop'
    BY <1>1, <1>2, <1>4 DEF AtTop, Nodes, Top
  <2>2. /\ level.depth > 0 /\ level.end \in h .. len
        /\ \A i \in 1 .. h : Depth(walk.dirs[i]) <= level.depth - 1
        /\ \A i \in h + 1 .. level.end : Depth(walk.dirs[i]) = level.depth - 1
        /\ \A i \in level.end + 1 .. len : Depth(walk.dirs[i]) = level.depth
    BY <1>0, <2>1 DEF LevelInv, h, len
  <2>3. \A i \in 1 .. len : Depth(walk.dirs[i]) \in Nat
    BY <1>0, <1>2, DepthIs DEF WalkTypes
  <2>4. CASE h = level.end
    <3>1. level'.depth = level.depth + 1 /\ level'.end = len
      BY <1>10, <2>4
    <3>2. \A i \in h + 1 .. len : Depth(walk.dirs[i]) = level.depth
      BY <2>2, <2>4
    <3>3. \A i \in 1 .. h + 1 : Depth(walk.dirs[i]) <= level.depth
      <4>1. \A i \in 1 .. h : i \in 1 .. len
        BY <1>1, <1>2 DEF len, h
      <4>2. h + 1 \in h + 1 .. len
        BY <1>2
      <4> QED
        BY <1>7, <1>11, <2>2, <2>3, <3>2, <4>1, <4>2
    <3>4. h + 1 \in h + 1 .. len /\ \A i \in h + 2 .. len : i \in h + 1 .. len
      BY <1>2
    <3>5. /\ level'.depth > 0 /\ level'.end \in h + 1 .. len
          /\ \A i \in 1 .. h + 1 : Depth(walk.dirs[i]) <= level'.depth - 1
          /\ \A i \in h + 1 + 1 .. level'.end : Depth(walk.dirs[i]) = level'.depth - 1
          /\ \A i \in level'.end + 1 .. len : Depth(walk.dirs[i]) = level'.depth
          /\ Depth(walk.dirs[h + 1]) = level'.depth - 1
      <4>1. level'.depth > 0 /\ level'.depth - 1 = level.depth
        BY <1>11, <3>1
      <4>3. level'.end \in h + 1 .. len
        <5>1. len \in h + 1 .. len
          BY <1>2
        <5> QED
          BY <3>1, <5>1
      <4>2. len + 1 .. len = {} /\ \A i \in h + 1 + 1 .. len : i \in h + 1 .. len
        BY <1>2
      <4> QED
        BY <3>1, <3>2, <3>3, <3>4, <4>1, <4>2, <4>3
    <3> QED
      BY <1>4, <1>13, <2>1, <3>5 DEF LevelInv, len
  <2>5. CASE h # level.end
    <3>1. level' = level
      BY <1>10, <2>5
    <3>2. h + 1 \in h + 1 .. level.end /\ level.end \in h + 1 .. len
      BY <1>2, <1>11, <2>2, <2>5
    <3>3. \A i \in h + 1 + 1 .. level.end : i \in h + 1 .. level.end
      BY <1>2, <1>11
    <3>4. /\ level.depth > 0 /\ level.end \in h + 1 .. len
          /\ \A i \in 1 .. h + 1 : Depth(walk.dirs[i]) <= level.depth - 1
          /\ \A i \in h + 1 + 1 .. level.end : Depth(walk.dirs[i]) = level.depth - 1
          /\ \A i \in level.end + 1 .. len : Depth(walk.dirs[i]) = level.depth
          /\ Depth(walk.dirs[h + 1]) = level.depth - 1
      BY <1>7, <1>11, <2>2, <3>2, <3>3
    <3> QED
      BY <1>4, <1>13, <2>1, <3>1, <3>4 DEF LevelInv, len
  <2> QED
    BY <2>4, <2>5
<1>19. LostInv'
  <2>1. \A n \in walk.lost : tree.parent[n] \in {Top} \union Opened
    BY <1>0 DEF LostInv
  <2>2. ASSUME NEW n \in left'
        PROVE  /\ n \notin walk.lost /\ n \notin scan.paths
               /\ \A i \in 1 .. len : walk.dirs[i] # n
    <3>1. n \in Nodes /\ tree.parent[n] = next /\ next # Top
      BY <1>1, <1>2, <1>4, <2>2 DEF Entries, Nodes, Top
    <3>2. n \notin walk.lost
      BY <1>6, <2>1, <3>1
    <3>3. next \in Above(n)
      BY <1>0, <3>1, AboveIs DEF WalkTypes
    <3>4. n \notin scan.paths
      BY <1>0, <1>6, <3>3 DEF FoundInv
    <3>5. \A i \in 1 .. len : walk.dirs[i] # n
      BY <1>2, <1>4, <1>15, <2>2 DEF ReadInv
    <3> QED
      BY <3>2, <3>4, <3>5
  <2>3. \A n \in walk.lost : n \notin scan.paths /\ \A i \in 1 .. len : walk.dirs[i] # n
    BY <1>0, <1>2 DEF LostInv
  <2>4. \A n \in walk'.lost : tree'.parent[n] \in {Top} \union Opened' /\ n \notin left'
    BY <1>1, <1>4, <1>8, <2>1, <2>2
  <2> QED
    BY <1>1, <1>2, <1>4, <2>2, <2>3, <2>4 DEF LostInv
<1> QED
  BY <1>12, <1>14, <1>15, <1>16, <1>17, <1>18, <1>19 DEF WalkInv

-----------------------------------------------------------------------------
(* The launch, as far as it is a walk.                                     *)

ScanInv ==
  /\ tree \in Trees /\ recursive \in BOOLEAN
  /\ at \in {"idle", "top", "read", "open", "done"}
  /\ at \in {"idle", "top"} => Fresh
  /\ at \in {"read", "open"} => WalkInv
  /\ MissingIsReported /\ NearestFirst

LEMMA ScanStart ==
  ASSUME ScanInit PROVE ScanInv
<1>1. tree \in Trees
  BY DEF ScanInit, Trees, Kinds
<1>2. scan.paths = {} /\ scan.result = "none"
  BY DEF ScanInit
<1> QED
  BY <1>1, <1>2 DEF ScanInit, ScanInv, Fresh, MissingIsReported, NearestFirst

\* A walk that has found nothing yet, or has given everything back.
Nothing == scan.paths = {} /\ scan.result # "found"

LEMMA NothingMissing ==
  ASSUME Nothing
  PROVE  MissingIsReported /\ NearestFirst
BY DEF Nothing, MissingIsReported, NearestFirst

LEMMA WalkShows ==
  ASSUME WalkInv
  PROVE  MissingIsReported /\ NearestFirst
BY WalkIsNearestFirst DEF MissingIsReported, WalkInv, WalkTypes

LEMMA ScanSame ==
  ASSUME UNCHANGED walking, ScanInv
  PROVE  ScanInv'
<1>1. UNCHANGED <<tree, recursive, at, dir, left, walk, level, scan>>
  BY DEF walking
<1>2. \A n : Visible(n)' <=> Visible(n)
  BY <1>1, AboveSame DEF Visible
<1>3. MissingIsReported' /\ NearestFirst'
  BY <1>1, <1>2, AboveSame DEF ScanInv, MissingIsReported, NearestFirst
<1>4. WalkInv => WalkInv'
  <2>1. Opened' = Opened
    BY <1>1 DEF Opened
  <2>2. \A n : (MayEnter(n)' <=> MayEnter(n)) /\ (Seen(n)' <=> Seen(n))
    BY <1>1, <2>1, AboveSame DEF MayEnter, Seen
  <2>3. \A i : /\ Depth(walk.dirs[i])' = Depth(walk.dirs[i])
               /\ Above(walk.dirs[i])' = Above(walk.dirs[i])
               /\ MayEnter(walk.dirs[i])' <=> MayEnter(walk.dirs[i])
    BY <1>1, AboveSame DEF MayEnter
  <2>4. WalkTypes => WalkTypes'
    BY <1>1 DEF WalkTypes
  <2>5. QueueInv => QueueInv'
    BY <1>1, <2>1, <2>3 DEF QueueInv
  <2>6. LevelInv => LevelInv'
    BY <1>1, <2>3, AboveSame DEF LevelInv, AtTop
  <2>7. ReadInv => ReadInv'
    BY <1>1, <2>1 DEF ReadInv
  <2>8. FoundInv => FoundInv'
    BY <1>1, <2>1, <2>2, AboveSame DEF FoundInv
  <2>9. EnteredInv => EnteredInv'
    BY <1>1, <2>2, <2>3, AboveSame DEF EnteredInv
  <2>10. LostInv => LostInv'
    BY <1>1, <2>1 DEF LostInv
  <2> QED
    BY <2>4, <2>5, <2>6, <2>7, <2>8, <2>9, <2>10 DEF WalkInv
<1> QED
  BY <1>1, <1>3, <1>4 DEF ScanInv, Fresh

LEMMA ShowsNext ==
  /\ WalkInv' => MissingIsReported' /\ NearestFirst'
  /\ Nothing' => MissingIsReported' /\ NearestFirst'
<1>1. WalkInv => MissingIsReported /\ NearestFirst
  BY WalkShows
<1>2. Nothing => MissingIsReported /\ NearestFirst
  BY NothingMissing
<1> QED
  BY <1>1, <1>2, PTL

LEMMA FinishShows ==
  ASSUME WalkInv, Finish
  PROVE  MissingIsReported' /\ NearestFirst'
<1>1. /\ at = "open" /\ ~MoreDirs /\ at' = "done"
      /\ UNCHANGED <<tree, recursive, dir, left, walk, level>>
      /\ scan' = [[scan EXCEPT !.truncated = @ \/ walk.capped] EXCEPT !.result = "found"]
  BY DEF Finish, Ends
<1>2. scan'.paths = scan.paths /\ scan'.truncated = (scan.truncated \/ walk.capped)
  BY <1>1 DEF WalkInv, WalkTypes
<1>3. \A n : (Visible(n)' <=> Visible(n)) /\ Depth(n)' = Depth(n)
  BY <1>1, AboveSame DEF Visible
<1>4. NearestFirst'
  BY <1>2, <1>3, WalkIsNearestFirst DEF NearestFirst
<1>5. ~scan'.truncated => scan.paths = {n \in Nodes : Visible(n)}
  BY <1>1, <1>2, WalkIsComplete DEF MoreDirs
<1>6. MissingIsReported'
  BY <1>2, <1>3, <1>5 DEF MissingIsReported
<1> QED
  BY <1>4, <1>6

LEMMA ScanKeeps ==
  ASSUME ScanInv, ScanNext
  PROVE  ScanInv'
<1>1. CASE OpenTop
  <2>1. at = "top" /\ Fresh /\ UNCHANGED <<tree, recursive, dir, walk, level>>
    BY <1>1 DEF OpenTop, ScanInv
  <2>2. CASE at' = "read" /\ left' = Entries(Top) /\ UNCHANGED scan
    <3>1. WalkInv'
      BY <2>1, <2>2, OpenTopKeeps DEF ScanInv
    <3> QED
      BY <2>1, <2>2, <3>1, ShowsNext DEF ScanInv
  <2>3. CASE Ends("unavailable", scan) /\ UNCHANGED left
    <3>1. scan'.paths = {} /\ scan'.result # "found" /\ at' = "done"
      BY <2>1, <2>3 DEF Ends, Fresh
    <3> QED
      BY <2>1, <3>1, ShowsNext DEF ScanInv, Nothing
  <2> QED
    BY <1>1, <2>2, <2>3 DEF OpenTop
<1>2. CASE CloseDir
  <2>1. at = "read" /\ at' = "open" /\ WalkInv /\ UNCHANGED <<tree, recursive>>
    BY <1>2 DEF CloseDir, ScanInv
  <2>2. WalkInv'
    BY <1>2, <2>1, CloseKeeps
  <2> QED
    BY <2>1, <2>2, ShowsNext DEF ScanInv
<1>3. CASE OpenDir
  <2>1. at = "open" /\ at' \in {"read", "open"} /\ WalkInv /\ UNCHANGED <<tree, recursive>>
    BY <1>3 DEF OpenDir, ScanInv
  <2>2. WalkInv'
    BY <1>3, <2>1, OpenDirKeeps
  <2> QED
    BY <2>1, <2>2, ShowsNext DEF ScanInv
<1>4. CASE Finish
  <2>1. at = "open" /\ at' = "done" /\ WalkInv /\ UNCHANGED <<tree, recursive>>
    BY <1>4 DEF Finish, Ends, ScanInv
  <2>2. MissingIsReported' /\ NearestFirst'
    BY <1>4, <2>1, FinishShows
  <2> QED
    BY <2>1, <2>2 DEF ScanInv
<1>5. ASSUME NEW n \in Nodes, ReadEntry(n) PROVE ScanInv'
  <2>1. at = "read" /\ at' = "read" /\ WalkInv /\ UNCHANGED <<tree, recursive>>
    BY <1>5 DEF ReadEntry, ScanInv
  <2>2. WalkInv'
    BY <1>5, <2>1, ReadKeeps
  <2> QED
    BY <2>1, <2>2, ShowsNext DEF ScanInv
<1>6. ASSUME NEW n \in Nodes, PushFails(n) PROVE ScanInv'
  <2>1. /\ at = "read" /\ WalkInv /\ UNCHANGED <<tree, recursive>> /\ at' = "done"
        /\ scan' = [[scan EXCEPT !.paths = {}, !.truncated = FALSE] EXCEPT !.result = "failed"]
    BY <1>6 DEF PushFails, Ends, ScanInv
  <2>2. scan'.paths = {} /\ scan'.result # "found"
    BY <2>1 DEF WalkInv, WalkTypes
  <2> QED
    BY <2>1, <2>2, ShowsNext DEF ScanInv, Nothing
<1>7. CASE ScanDone
  BY <1>7, ScanSame DEF ScanDone
<1> QED
  BY <1>1, <1>2, <1>3, <1>4, <1>5, <1>6, <1>7 DEF ScanNext

-----------------------------------------------------------------------------
(* Instance: who may show a panel.                                         *)

(* Whoever listens, shows a panel or cleans up behind it holds the lease;  *)
(* "unlock" is not among them, a launch that gave up comes there too.      *)
holders == listens \cup shown \cup {"close", "unlink"}

HoldersHold == \A p \in Launches : pc[p] \in holders => lease = p

(* The name leads to the owner from the bind until it is taken down.       *)
PathLeads == \A p \in Launches : pc[p] \in {"listen"} \cup shown => path = p

Listening == \A p \in Launches : pc[p] \in shown => p \in listening

(* The inductive invariant: only the holder of the lease touches the name, *)
(* so what a step does to it is seen by no other launch.                   *)
LeaseInv ==
  /\ TypeOK
  /\ HoldersHold
  /\ PathLeads
  /\ Listening
  /\ BindsFreely

Programs == {"new", "done"} \cup waiting \cup listens \cup shown \cup finishing

Backlogs == {q \in [Launches -> Seq(Launches)] : \A p \in Launches : Len(q[p]) <= Backlog}

(* Nothing is done before the first launch.                                *)
LEMMA InitLease == InstanceInit => LeaseInv
<1> SUFFICES ASSUME InstanceInit PROVE LeaseInv
  OBVIOUS
<1>1. TypeOK
  <2>1. \A p \in Launches : <<>> \in Seq(Launches) /\ Len(<<>>) = 0
    OBVIOUS
  <2>2. Backlog >= 0
    BY LaunchesAssumption
  <2> QED
    BY <2>1, <2>2 DEF InstanceInit, TypeOK
<1>2. \A p \in Launches : pc[p] = "new"
  BY DEF InstanceInit
<1> QED
  BY <1>1, <1>2 DEF LeaseInv, HoldersHold, PathLeads, Listening, BindsFreely, holders, listens, shown

-----------------------------------------------------------------------------
(* Types.                                                                  *)

(* Taking all connections of a launch away leaves a legal backlog.         *)
LEMMA PendingEmptied ==
  ASSUME pending \in Backlogs, NEW p \in Launches
  PROVE  [pending EXCEPT ![p] = <<>>] \in Backlogs
<1>1. <<>> \in Seq(Launches) /\ Len(<<>>) <= Backlog
  <2>1. <<>> \in Seq(Launches) /\ Len(<<>>) = 0
    OBVIOUS
  <2> QED
    BY <2>1, LaunchesAssumption
<1> QED
  BY <1>1 DEF Backlogs

(* A connection is only added to a backlog that has room for it.           *)
LEMMA PendingAppended ==
  ASSUME pending \in Backlogs, NEW p \in Launches, NEW q \in Launches, Len(pending[q]) < Backlog
  PROVE  [pending EXCEPT ![q] = Append(@, p)] \in Backlogs
<1> DEFINE longer == Append(pending[q], p)
<1>1. pending[q] \in Seq(Launches)
  BY DEF Backlogs
<1>2. longer \in Seq(Launches) /\ Len(longer) = Len(pending[q]) + 1
  BY <1>1
<1>3. Len(pending[q]) \in Nat
  BY <1>1
<1>4. Len(longer) <= Backlog
  BY <1>2, <1>3, LaunchesAssumption
<1> QED
  BY <1>2, <1>4 DEF Backlogs

(* TypeOK, in the form the steps below use.                                *)
LEMMA TypeForm ==
  TypeOK <=>
    /\ pc \in [Launches -> Programs]
    /\ due \in [Launches -> BOOLEAN] /\ late \in [Launches -> BOOLEAN]
    /\ lease \in Launches \cup {None} /\ path \in Launches \cup {None}
    /\ owns \subseteq Launches /\ listening \subseteq Launches
    /\ pending \in Backlogs
    /\ crashes \in Nat
BY DEF TypeOK, Programs, Backlogs

(* Every step keeps the types.                                             *)
LEMMA LeaseTypes == TypeOK /\ [InstanceNext]_launching => TypeOK'
<1> SUFFICES ASSUME TypeOK, [InstanceNext]_launching PROVE TypeOK'
  OBVIOUS
<1> DEFINE Form ==
      /\ pc \in [Launches -> Programs]
      /\ due \in [Launches -> BOOLEAN] /\ late \in [Launches -> BOOLEAN]
      /\ lease \in Launches \cup {None} /\ path \in Launches \cup {None}
      /\ owns \subseteq Launches /\ listening \subseteq Launches
      /\ pending \in Backlogs
      /\ crashes \in Nat
<1>1. Form
  BY TypeForm
<1>2. Form'
  <2>1. CASE UNCHANGED launching
    BY <1>1, <2>1 DEF launching, Backlogs
  <2>2. CASE InstanceNext
    <3> PICK p \in Launches :
          \/ Launch(p) \/ Wait(p) \/ Expire(p) \/ Own(p) \/ Leave(p) \/ Withdraw(p)
          \/ Fail(p) \/ Crash(p)
      BY <2>2 DEF InstanceNext
    <3> USE <1>1 DEF Goto, Backlogs
    <3>1. CASE Launch(p) \/ Expire(p) \/ Leave(p) \/ Fail(p)
      BY <3>1 DEF Launch, Expire, Leave, Fail, Programs, waiting, finishing, shown
    <3>2. CASE TryLock(p) \/ GiveUp(p) \/ Retry(p)
      BY <3>2 DEF TryLock, GiveUp, Retry, Programs, waiting, listens, finishing
    <3>3. CASE Ask(p)
      <4>1. pc' \in [Launches -> Programs] /\ due' \in [Launches -> BOOLEAN]
        BY <3>3 DEF Ask, Programs, waiting
      <4>2. pending' \in Backlogs
        <5>1. CASE due[p] /\ Connects
          <6>1. path \in Launches /\ Len(pending[path]) < Backlog
            BY <5>1 DEF Connects
          <6>2. pending' = [pending EXCEPT ![path] = Append(@, p)]
            BY <3>3, <5>1 DEF Ask
          <6> QED
            BY <6>1, <6>2, PendingAppended
        <5>2. CASE ~(due[p] /\ Connects)
          BY <3>3, <5>2 DEF Ask
        <5> QED
          BY <5>1, <5>2
      <4> QED
        BY <3>3, <4>1, <4>2 DEF Ask
    <3>4. CASE RemoveStale(p) \/ Bind(p) \/ Listen(p) \/ Open(p)
      BY <3>4 DEF RemoveStale, Bind, Listen, Open, Programs, listens, shown, finishing
    <3>5. CASE Replaced(p)
      BY <3>5, PendingEmptied DEF Replaced, Programs, shown
    <3>6. CASE Hide(p) \/ Unlink(p) \/ Unlock(p)
      BY <3>6 DEF Hide, Unlink, Unlock, Programs, finishing
    <3>7. CASE CloseSocket(p)
      BY <3>7, PendingEmptied DEF CloseSocket, Programs, finishing
    <3>8. CASE Crash(p)
      <4>1. crashes' \in Nat
        BY <3>8 DEF Crash
      <4>2. pending' \in Backlogs
        BY <3>8, PendingEmptied DEF Crash
      <4>3. /\ pc' \in [Launches -> Programs] /\ lease' \in Launches \cup {None}
            /\ listening' \subseteq Launches
        BY <3>8 DEF Crash, Programs
      <4> QED
        BY <3>8, <4>1, <4>2, <4>3 DEF Crash
    <3> QED
      BY <3>1, <3>2, <3>3, <3>4, <3>5, <3>6, <3>7, <3>8 DEF Wait, Own, Withdraw
  <2> QED
    BY <2>1, <2>2
<1> QED
  BY <1>2 DEF TypeOK, Programs, Backlogs

-----------------------------------------------------------------------------
(* The lease.                                                              *)

(* A step of p that takes no other launch along, moves p to a label where  *)
(* what it needs holds, and touches lease, name and socket only as their   *)
(* holder, keeps the rest of the invariant.                                *)
LEMMA StepKeeps ==
  ASSUME LeaseInv, NEW p \in Launches, NEW label \in Programs,
         Goto(p, label),
         lease' = lease \/ lease = p \/ lease = None,
         path' = path \/ pc[p] \in {"remove", "bind", "unlink"},
         listening \ {p} \subseteq listening',
         label \in holders => lease' = p,
         label \in {"listen"} \cup shown => path' = p,
         label \in shown => p \in listening',
         label = "bind" => path' = None
  PROVE  (HoldersHold /\ PathLeads /\ Listening /\ BindsFreely)'
<1>1. pc \in [Launches -> Programs] /\ None \notin Launches
  BY TypeForm, LaunchesAssumption DEF LeaseInv, Launches
<1>2. pc'[p] = label /\ \A q \in Launches \ {p} : pc'[q] = pc[q]
  BY <1>1 DEF Goto
<1>3. \A q \in Launches \ {p} : pc[q] \in holders => lease' = q /\ path' = path
  BY <1>1 DEF LeaseInv, HoldersHold, holders, listens
<1>4. ASSUME NEW q \in Launches \ {p}
      PROVE  /\ pc'[q] \in holders => lease' = q
             /\ pc'[q] \in {"listen"} \cup shown => path' = q
             /\ pc'[q] \in shown => q \in listening'
             /\ pc'[q] = "bind" => path' = None
  BY <1>2, <1>3 DEF LeaseInv, PathLeads, Listening, BindsFreely, holders, listens
<1> QED
  BY <1>2, <1>4 DEF HoldersHold, PathLeads, Listening, BindsFreely

(* Every step is such a step.                                              *)
LEMMA LeaseKeeps == LeaseInv /\ [InstanceNext]_launching => LeaseInv'
<1> SUFFICES ASSUME LeaseInv, [InstanceNext]_launching PROVE LeaseInv'
  OBVIOUS
<1> DEFINE Safe == HoldersHold /\ PathLeads /\ Listening /\ BindsFreely
<1>1. TypeOK'
  BY LeaseTypes DEF LeaseInv
<1>2. Safe'
  <2>1. CASE UNCHANGED launching
    BY <2>1 DEF LeaseInv, launching, HoldersHold, PathLeads, Listening, BindsFreely
  <2>2. CASE InstanceNext
    <3> PICK p \in Launches :
          \/ Launch(p) \/ Wait(p) \/ Expire(p) \/ Own(p) \/ Leave(p) \/ Withdraw(p)
          \/ Fail(p) \/ Crash(p)
      BY <2>2 DEF InstanceNext
    <3>a. pc \in [Launches -> Programs]
      BY TypeForm DEF LeaseInv
    <3>b. pc[p] \in holders => lease = p
      BY DEF LeaseInv, HoldersHold
    <3>c. /\ pc[p] \in {"listen"} \cup shown => path = p
          /\ pc[p] \in shown => p \in listening
          /\ pc[p] = "bind" => path = None
      BY DEF LeaseInv, PathLeads, Listening, BindsFreely
    <3> USE DEF Programs, holders, waiting, listens, shown, finishing
    <3>1. CASE Launch(p)
      BY <3>1, StepKeeps DEF Launch
    <3>2. CASE TryLock(p)
      <4>1. CASE lease = None
        BY <3>2, <4>1, StepKeeps DEF TryLock
      <4>2. CASE lease # None
        BY <3>2, <4>2, StepKeeps DEF TryLock
      <4> QED
        BY <4>1, <4>2
    <3>3. CASE GiveUp(p)
      BY <3>3, StepKeeps DEF GiveUp
    <3>4. CASE Ask(p)
      BY <3>4, StepKeeps DEF Ask
    <3>5. CASE Retry(p) \/ Expire(p)
      <4>1. Goto(p, pc[p]) /\ pc[p] \in {"try", "ask"}
        BY <3>5, <3>a DEF Retry, Expire, Goto
      <4> QED
        BY <3>5, <4>1, StepKeeps DEF Retry, Expire
    <3>6. CASE RemoveStale(p)
      BY <3>6, <3>b, StepKeeps DEF RemoveStale
    <3>7. CASE Bind(p)
      BY <3>7, <3>b, <3>c, StepKeeps DEF Bind
    <3>8. CASE Listen(p)
      BY <3>8, <3>b, <3>c, StepKeeps DEF Listen
    <3>9. CASE Open(p)
      BY <3>9, <3>b, <3>c, StepKeeps DEF Open
    <3>10. CASE Replaced(p) \/ Leave(p)
      BY <3>10, <3>b, <3>c, StepKeeps DEF Replaced, Leave
    <3>11. CASE Hide(p)
      BY <3>11, <3>b, StepKeeps DEF Hide
    <3>12. CASE CloseSocket(p)
      BY <3>12, <3>b, StepKeeps DEF CloseSocket
    <3>13. CASE Unlink(p)
      BY <3>13, <3>b, StepKeeps DEF Unlink
    <3>14. CASE Unlock(p)
      BY <3>14, StepKeeps DEF Unlock
    <3>15. CASE Fail(p)
      BY <3>15, <3>b, StepKeeps DEF Fail
    <3>16. CASE Crash(p)
      BY <3>16, StepKeeps DEF Crash
    <3> QED
      BY <3>1, <3>2, <3>3, <3>4, <3>5, <3>6, <3>7, <3>8, <3>9, <3>10, <3>11, <3>12, <3>13,
         <3>14, <3>15, <3>16 DEF Wait, Own, Withdraw
  <2> QED
    BY <2>1, <2>2
<1> QED
  BY <1>1, <1>2 DEF LeaseInv

(* The invariant holds all along.                                          *)
LEMMA Invariance == InstanceSpec => []LeaseInv
<1> QED
  BY InitLease, LeaseKeeps, PTL DEF InstanceSpec

-----------------------------------------------------------------------------
(* Theorems.                                                               *)

(* The lease, the name and the backlog keep their types: a launch that is  *)
(* connected to always has room for the connection.                        *)
THEOREM TypeCorrect == InstanceSpec => []TypeOK
<1>1. LeaseInv => TypeOK
  BY DEF LeaseInv
<1> QED
  BY <1>1, Invariance, PTL

(* Two launches never show a panel at a time, however many start, ask,     *)
(* fail and crash: whoever shows one holds the lease.                      *)
THEOREM OneAtATime == InstanceSpec => []OnePicker
<1>1. LeaseInv => OnePicker
  BY DEF LeaseInv, HoldersHold, OnePicker, holders
<1> QED
  BY <1>1, Invariance, PTL

(* The open picker's socket has the name other launches connect to, and    *)
(* listens, although owners before it removed that name or left it behind; *)
(* and the bind of that name finds it free.                                *)
THEOREM OpenIsReachable == InstanceSpec => []Reachable
<1>1. LeaseInv => Reachable
  BY DEF LeaseInv, PathLeads, Listening, Reachable
<1> QED
  BY <1>1, Invariance, PTL

-----------------------------------------------------------------------------
(* Session: what is built, and what is taken down.                         *)

Seats ==
  [has : SUBSET {"context", "keyboard", "pointer"}, fd : {"none", "stdin", "keymap"},
   keymap : BOOLEAN, rate : {0, 1}, repeat : Keys \union {0}]

\* What the repeat slot of a seat needs of the seat and of the keyboard.
Backed(s, k) ==
  s.repeat # 0 =>
    /\ "keyboard" \in s.has /\ s.keymap
    /\ k.focus /\ s.repeat \in k.held
    /\ s.rate > 0

(* The inductive invariant.  That only a focused keyboard holds keys is    *)
(* what makes an Enter harmless: it replaces the held keys, and nothing    *)
(* repeats at that moment.                                                 *)
SeatInv ==
  /\ seat \in Seats
  /\ keyboard \in [focus : BOOLEAN, held : SUBSET Keys]
  /\ Backed(seat, keyboard)

\* A stopped repeat needs nothing.
LEMMA StoppedIsBacked ==
  ASSUME NEW s \in Seats, NEW k
  PROVE  StopRepeat(s) \in Seats /\ Backed(StopRepeat(s), k)
BY DEF Seats, StopRepeat, Backed

(* A pending keymap that is loaded late, or fails to load, takes nothing   *)
(* from a key that repeats with the keymap in place.                       *)
LEMMA LoadedIsBacked ==
  ASSUME NEW s \in Seats, NEW k, Backed(s, k), NEW t \in Loaded(s)
  PROVE  t \in Seats /\ Backed(t, k) /\ t.has = s.has /\ t.rate = s.rate /\ t.repeat = s.repeat
         /\ (s.keymap => t.keymap)
<1>1. t \in {s, [s EXCEPT !.fd = "none"], [s EXCEPT !.fd = "none", !.keymap = TRUE]}
  BY DEF Loaded
<1>2. CASE t = s
  BY <1>2
<1>3. CASE t = [s EXCEPT !.fd = "none"]
  BY <1>3 DEF Seats, Backed
<1>4. CASE t = [s EXCEPT !.fd = "none", !.keymap = TRUE]
  BY <1>4 DEF Seats, Backed
<1> QED
  BY <1>1, <1>2, <1>3, <1>4

LEMMA DroppedIsBacked ==
  ASSUME NEW s \in Seats, NEW k, Backed(s, k)
  PROVE  /\ DropPending(s) \in Seats /\ Backed(DropPending(s), k)
         /\ DropPending(s).has = s.has
BY DEF Seats, DropPending, Backed

LEMMA InitSeatInv == SessionInit => SeatInv
BY KeysAssumption DEF SessionInit, SeatInv, Seats, Backed, ZeroSeat

-----------------------------------------------------------------------------
(* Every action keeps the invariant.                                       *)

LEMMA CapabilitiesKeeps ==
  ASSUME SeatInv, NEW caps \in SUBSET {"keyboard", "pointer"}, Capabilities(caps)
  PROVE  SeatInv'
<1> DEFINE keyed == IF "keyboard" \in caps THEN [seat EXCEPT !.has = @ \union {"keyboard"}]
                    ELSE IF "keyboard" \in seat.has THEN KeyboardGone(seat) ELSE seat
           k == IF "keyboard" \in caps THEN keyboard ELSE [focus |-> FALSE, held |-> {}]
<1>1. k \in [focus : BOOLEAN, held : SUBSET Keys] /\ keyboard' = k
  BY DEF SeatInv, Capabilities
<1>2. keyed \in Seats /\ Backed(keyed, k)
  <2>1. CASE "keyboard" \in caps
    BY <2>1 DEF SeatInv, Seats, Backed
  <2>2. CASE "keyboard" \notin caps /\ "keyboard" \in seat.has
    <3> DEFINE gone == [DropPending(seat) EXCEPT !.has = @ \ {"keyboard"}, !.keymap = FALSE]
    <3>1. gone \in Seats
      BY DEF SeatInv, Seats, DropPending
    <3>2. keyed = StopRepeat(gone)
      BY <2>2 DEF KeyboardGone
    <3> HIDE DEF gone, keyed, k
    <3> QED
      BY <3>1, <3>2, StoppedIsBacked
  <2>3. CASE "keyboard" \notin caps /\ "keyboard" \notin seat.has
    <3>1. seat.repeat = 0
      BY <2>3 DEF SeatInv, Backed
    <3> QED
      BY <2>3, <3>1 DEF SeatInv, Backed
  <2> QED
    BY <2>1, <2>2, <2>3
<1>3. \E pointed \in {keyed.has \union {"pointer"}, keyed.has \ {"pointer"}} :
        seat' = [keyed EXCEPT !.has = pointed]
  BY DEF Capabilities
<1> HIDE DEF keyed, k
<1>4. PICK pointed \in {keyed.has \union {"pointer"}, keyed.has \ {"pointer"}} :
        seat' = [keyed EXCEPT !.has = pointed]
  BY <1>3
<1>5. pointed \in SUBSET {"context", "keyboard", "pointer"}
  BY <1>2, <1>4 DEF Seats
<1>6. "keyboard" \in keyed.has => "keyboard" \in pointed
  BY <1>4
<1> QED
  BY <1>1, <1>2, <1>4, <1>5, <1>6 DEF SeatInv, Seats, Backed

LEMMA PressKeeps ==
  ASSUME SeatInv, NEW key \in Keys, PressKey(key)
  PROVE  SeatInv'
<1>1. PICK s \in Loaded(seat) : seat' \in Pressed(s, key)
  BY DEF PressKey
<1>2. /\ s \in Seats /\ Backed(s, keyboard) /\ s.has = seat.has
      /\ seat \in Seats
  BY <1>1, LoadedIsBacked DEF SeatInv
<1>3. keyboard' \in [focus : BOOLEAN, held : SUBSET Keys]
      /\ keyboard'.focus /\ keyboard'.held = keyboard.held \union {key}
      /\ keyboard.focus
  BY DEF PressKey, SeatInv, KeyboardListens
<1>4. CASE seat' = s
  BY <1>2, <1>3, <1>4 DEF SeatInv, Backed
<1>5. CASE seat' = StopRepeat(s)
  BY <1>2, <1>3, <1>5, StoppedIsBacked DEF SeatInv
<1>6. CASE s.keymap /\ s.rate > 0 /\ seat' = [s EXCEPT !.repeat = key]
  <2>1. "keyboard" \in s.has
    BY <1>2 DEF PressKey, KeyboardListens
  <2> QED
    BY <1>2, <1>3, <1>6, <2>1 DEF SeatInv, Seats, Backed
<1> QED
  BY <1>1, <1>4, <1>5, <1>6 DEF Pressed

LEMMA ReleaseKeeps ==
  ASSUME SeatInv, NEW key \in Keys, ReleaseKey(key)
  PROVE  SeatInv'
<1>1. PICK s \in Loaded(seat) : seat' = ReleasedKey(s, key)
  BY DEF ReleaseKey
<1>2. s \in Seats /\ Backed(s, keyboard)
  BY <1>1, LoadedIsBacked DEF SeatInv
<1>3. /\ keyboard' \in [focus : BOOLEAN, held : SUBSET Keys]
      /\ keyboard'.focus = keyboard.focus /\ keyboard'.held = keyboard.held \ {key}
  BY DEF ReleaseKey, SeatInv
<1>4. CASE s.keymap /\ s.repeat = key
  BY <1>1, <1>2, <1>3, <1>4, StoppedIsBacked DEF SeatInv, ReleasedKey
<1>5. CASE ~(s.keymap /\ s.repeat = key)
  BY <1>1, <1>2, <1>3, <1>5 DEF SeatInv, ReleasedKey, Backed
<1> QED
  BY <1>4, <1>5

LEMMA SeatKeeps == SeatInv /\ [SessionNext]_session => SeatInv'
<1> SUFFICES ASSUME SeatInv, [SessionNext]_session PROVE SeatInv'
  OBVIOUS
<1> DEFINE Same == UNCHANGED <<seat, keyboard>>
<1>1. CASE Same
  BY <1>1 DEF SeatInv
<1>2. ASSUME InitSeat PROVE SeatInv'
  <2>1. PICK context \in {{}, {"context"}} :
          seat' = [ZeroSeat EXCEPT !.has = context, !.fd = "none"]
    BY <1>2 DEF InitSeat
  <2>2. keyboard' = keyboard
    BY <1>2 DEF InitSeat
  <2>3. context \in SUBSET {"context", "keyboard", "pointer"}
    BY <2>1
  <2>4. seat' = [has |-> context, fd |-> "none", keymap |-> FALSE, rate |-> 0, repeat |-> 0]
    BY <2>1 DEF ZeroSeat
  <2>5. seat' \in Seats /\ seat'.repeat = 0
    BY <2>3, <2>4 DEF Seats
  <2> QED
    BY <2>2, <2>5 DEF SeatInv, Backed
<1>3. ASSUME NEW caps \in SUBSET {"keyboard", "pointer"}, Capabilities(caps) PROVE SeatInv'
  BY <1>3, CapabilitiesKeeps
<1>4. ASSUME HandleKeymap PROVE SeatInv'
  BY <1>4, DroppedIsBacked DEF HandleKeymap, SeatInv, Seats, Backed, DropPending
<1>5. ASSUME HandleEnter PROVE SeatInv'
  <2>1. seat.repeat = 0
    BY <1>5 DEF HandleEnter, SeatInv, Backed
  <2> QED
    BY <1>5, <2>1 DEF HandleEnter, SeatInv, Backed
<1>6. ASSUME HandleLeave PROVE SeatInv'
  BY <1>6, StoppedIsBacked DEF HandleLeave, SeatInv
<1>7. ASSUME HandleModifiers PROVE SeatInv'
  BY <1>7, LoadedIsBacked DEF HandleModifiers, SeatInv
<1>8. ASSUME NEW rate \in {0, 1}, HandleRepeatInfo(rate) PROVE SeatInv'
  <2>1. [seat EXCEPT !.rate = 0] \in Seats
    BY DEF SeatInv, Seats
  <2>2. CASE rate = 0
    BY <1>8, <2>1, <2>2, StoppedIsBacked DEF HandleRepeatInfo, SeatInv
  <2>3. CASE rate = 1
    BY <1>8, <2>3 DEF HandleRepeatInfo, SeatInv, Seats, Backed
  <2> QED
    BY <2>2, <2>3
<1>9. ASSUME NEW key \in Keys, PressKey(key) \/ ReleaseKey(key) PROVE SeatInv'
  BY <1>9, PressKeeps, ReleaseKeeps
<1>10. ASSUME FinishSeat PROVE SeatInv'
  <2>1. [DropPending(seat) EXCEPT !.has = {}, !.keymap = FALSE] \in Seats
    BY DEF SeatInv, Seats, DropPending
  <2>2. keyboard' \in [focus : BOOLEAN, held : SUBSET Keys]
    BY <1>10 DEF FinishSeat
  <2> QED
    BY <1>10, <2>1, <2>2, StoppedIsBacked DEF FinishSeat, SeatInv
<1>11. ASSUME Event PROVE SeatInv'
  <2>1. ASSUME NEW g, HandleGlobal(g) PROVE Same
    BY <2>1 DEF HandleGlobal
  <2>2. ASSUME NEW name, BindOutput(name) PROVE Same
    BY <2>2 DEF BindOutput
  <2>3. ASSUME NEW e, NameOutput(e) \/ RemoveOutput(e) PROVE Same
    BY <2>3 DEF NameOutput, RemoveOutput
  <2>4. ASSUME NEW r, Configure(r) PROVE Same
    BY <2>4 DEF Configure
  <2> QED
    BY <1>1, <1>3, <1>4, <1>5, <1>6, <1>7, <1>8, <1>9, <1>11, <2>1, <2>2, <2>3, <2>4 DEF Event
<1>12. ASSUME TakeDown PROVE SeatInv'
  <2>1. ASSUME NEW r, DestroyLayer(r) PROVE Same
    BY <2>1 DEF DestroyLayer
  <2>2. ASSUME FinishRegistry PROVE Same
    BY <2>2 DEF FinishRegistry
  <2>3. ASSUME NEW step, NEW thing, Release(step, thing) PROVE Same
    BY <2>3 DEF Release
  <2> QED
    BY <1>1, <1>10, <1>12, <2>1, <2>2, <2>3 DEF TakeDown
<1>13. ASSUME InitInstance \/ ScanDirectory \/ Connect \/ GetRegistry \/ GlobalsKnown PROVE Same
  BY <1>13 DEF InitInstance, ScanDirectory, Connect, GetRegistry, GlobalsKnown
<1>14. ASSUME SelectOutput \/ CreateProbe \/ ProbeConfigured \/ MapBackdrop \/ PlacePanel \/ PanelConfigured
       PROVE  Same
  BY <1>14 DEF SelectOutput, CreateProbe, ProbeConfigured, PanelConfigured, Configured, MapBackdrop,
               PlacePanel
<1>15. ASSUME StartRun \/ LeaveRun PROVE Same
  BY <1>15 DEF StartRun, LeaveRun
<1>16. CASE UNCHANGED session
  BY <1>1, <1>16 DEF session
<1> QED
  BY <1>1, <1>2, <1>11, <1>12, <1>13, <1>14, <1>15, <1>16 DEF SessionNext

-----------------------------------------------------------------------------
(* The order of the stages.                                                *)

LEMMA AfterNext ==
  ASSUME NEW order, NEW n \in Nat, DOMAIN order = 1 .. n, NEW k \in 1 .. n,
         \A j \in 1 .. n : order[j] = order[k] => j = k
  PROVE  After(order, order[k]) = order[k + 1]
BY DEF After

LEMMA InitGoes ==
  /\ After(InitStages, "lease") = "scan"
  /\ After(InitStages, "scan") = "connect"
  /\ After(InitStages, "connect") = "registry"
  /\ After(InitStages, "registry") = "globals"
  /\ After(InitStages, "globals") = "seat"
  /\ After(InitStages, "seat") = "names"
  /\ After(InitStages, "names") = "probe"
  /\ After(InitStages, "probe") = "probe_wait"
  /\ After(InitStages, "probe_wait") = "map"
  /\ After(InitStages, "map") = "panel"
  /\ After(InitStages, "panel") = "panel_wait"
  /\ After(InitStages, "panel_wait") = "start"
  /\ After(InitStages, "start") = "run"
<1> DEFINE place == [lease |-> 1, scan |-> 2, connect |-> 3, registry |-> 4,
                  globals |-> 5, seat |-> 6, names |-> 7, probe |-> 8,
                  probe_wait |-> 9, map |-> 10, panel |-> 11, panel_wait |-> 12,
                  start |-> 13, run |-> 14]
<1>1. DOMAIN InitStages = 1 .. 14
  BY DEF InitStages
<1>2. \A j \in 1 .. 14 : place[InitStages[j]] = j
  <2>1. ASSUME NEW j \in 1 .. 14
        PROVE  \/ j = 1 \/ j = 2 \/ j = 3 \/ j = 4 \/ j = 5 \/ j = 6 \/ j = 7
               \/ j = 8 \/ j = 9 \/ j = 10 \/ j = 11 \/ j = 12 \/ j = 13 \/ j = 14
    OBVIOUS
  <2>2. /\ InitStages[1] = "lease"           /\ place["lease"] = 1
        /\ InitStages[2] = "scan"            /\ place["scan"] = 2
        /\ InitStages[3] = "connect"         /\ place["connect"] = 3
        /\ InitStages[4] = "registry"        /\ place["registry"] = 4
        /\ InitStages[5] = "globals"         /\ place["globals"] = 5
        /\ InitStages[6] = "seat"            /\ place["seat"] = 6
        /\ InitStages[7] = "names"           /\ place["names"] = 7
        /\ InitStages[8] = "probe"           /\ place["probe"] = 8
        /\ InitStages[9] = "probe_wait"      /\ place["probe_wait"] = 9
        /\ InitStages[10] = "map"            /\ place["map"] = 10
        /\ InitStages[11] = "panel"          /\ place["panel"] = 11
        /\ InitStages[12] = "panel_wait"     /\ place["panel_wait"] = 12
        /\ InitStages[13] = "start"          /\ place["start"] = 13
        /\ InitStages[14] = "run"            /\ place["run"] = 14
    BY DEF InitStages
  <2> HIDE DEF place
  <2> QED
    BY <2>1, <2>2
<1> HIDE DEF place
<1>3. \A j, k \in 1 .. 14 : InitStages[j] = InitStages[k] => j = k
  <2>1. \A j, k \in 1 .. 14 : InitStages[j] = InitStages[k] => place[InitStages[j]] = place[InitStages[k]]
    OBVIOUS
  <2> QED
    BY <1>2, <2>1
<1>4. ASSUME NEW k \in 1 .. 13
      PROVE  After(InitStages, InitStages[k]) = InitStages[k + 1]
  <2>1. k \in 1 .. 14 /\ \A j \in 1 .. 14 : InitStages[j] = InitStages[k] => j = k
    BY <1>3
  <2> QED
    BY <1>1, <2>1, AfterNext
<1> QED
  BY <1>4 DEF InitStages

LEMMA FinishGoes ==
  /\ After(FinishOrder, "finish_layer") = "finish_backdrop"
  /\ After(FinishOrder, "finish_backdrop") = "finish_seat"
  /\ After(FinishOrder, "finish_seat") = "finish_registry"
  /\ After(FinishOrder, "finish_registry") = "finish_display"
  /\ After(FinishOrder, "finish_display") = "finish_instance"
  /\ After(FinishOrder, "finish_instance") = "finish_thumbs"
  /\ After(FinishOrder, "finish_thumbs") = "finish_scan"
  /\ After(FinishOrder, "finish_scan") = "ended"
<1> DEFINE place == [finish_layer |-> 1, finish_backdrop |-> 2, finish_seat |-> 3, finish_registry |-> 4,
                  finish_display |-> 5, finish_instance |-> 6, finish_thumbs |-> 7, finish_scan |-> 8,
                  ended |-> 9]
<1>1. DOMAIN FinishOrder = 1 .. 9
  BY DEF FinishOrder
<1>2. \A j \in 1 .. 9 : place[FinishOrder[j]] = j
  <2>1. ASSUME NEW j \in 1 .. 9
        PROVE  \/ j = 1 \/ j = 2 \/ j = 3 \/ j = 4 \/ j = 5 \/ j = 6 \/ j = 7
               \/ j = 8 \/ j = 9
    OBVIOUS
  <2>2. /\ FinishOrder[1] = "finish_layer"   /\ place["finish_layer"] = 1
        /\ FinishOrder[2] = "finish_backdrop" /\ place["finish_backdrop"] = 2
        /\ FinishOrder[3] = "finish_seat"    /\ place["finish_seat"] = 3
        /\ FinishOrder[4] = "finish_registry" /\ place["finish_registry"] = 4
        /\ FinishOrder[5] = "finish_display" /\ place["finish_display"] = 5
        /\ FinishOrder[6] = "finish_instance" /\ place["finish_instance"] = 6
        /\ FinishOrder[7] = "finish_thumbs"  /\ place["finish_thumbs"] = 7
        /\ FinishOrder[8] = "finish_scan"    /\ place["finish_scan"] = 8
        /\ FinishOrder[9] = "ended"          /\ place["ended"] = 9
    BY DEF FinishOrder
  <2> HIDE DEF place
  <2> QED
    BY <2>1, <2>2
<1> HIDE DEF place
<1>3. \A j, k \in 1 .. 9 : FinishOrder[j] = FinishOrder[k] => j = k
  <2>1. \A j, k \in 1 .. 9 : FinishOrder[j] = FinishOrder[k] => place[FinishOrder[j]] = place[FinishOrder[k]]
    OBVIOUS
  <2> QED
    BY <1>2, <2>1
<1>4. ASSUME NEW k \in 1 .. 8
      PROVE  After(FinishOrder, FinishOrder[k]) = FinishOrder[k + 1]
  <2>1. k \in 1 .. 9 /\ \A j \in 1 .. 9 : FinishOrder[j] = FinishOrder[k] => j = k
    BY <1>3
  <2> QED
    BY <1>1, <2>1, AfterNext
<1> QED
  BY <1>4 DEF FinishOrder

LEMMA FailsToFinish == Fails => stage' = "finish_layer"
BY DEF Fails, FinishOrder
-----------------------------------------------------------------------------
(* What stands, at every stage.                                            *)

Placed == {"probe", "probe_wait", "map", "panel", "panel_wait", "start", "run"}
Known == {"seat", "names"} \union Placed
Built == {"registry", "globals"} \union Known

\* The stages of the end, from the one that names what is gone.
SinceScan == {"ended"}
SinceThumbs == {"finish_scan"} \union SinceScan
SinceInstance == {"finish_thumbs"} \union SinceThumbs
SinceDisplay == {"finish_instance"} \union SinceInstance
SinceRegistry == {"finish_display"} \union SinceDisplay
SinceSeat == {"finish_registry"} \union SinceRegistry
SinceBackdrop == {"finish_seat"} \union SinceSeat
SinceLayer == {"finish_backdrop"} \union SinceBackdrop

\* The selection by name; from the probe on a selected output was found.
OutputsOk ==
  /\ DOMAIN outputs = {"entries", "failed", "selected", "lost", "last"}
  /\ outputs.last \in Nat
  /\ \A e \in outputs.entries :
       DOMAIN e = {"id", "name", "named", "since"} /\ e.id \in Nat \ {0}
  /\ outputs.selected # 0 =>
       \E e \in outputs.entries : e.id = outputs.selected /\ e.name = settings.output
  /\ stage \in Placed /\ settings.output # "" => outputs.selected # 0 \/ outputs.lost

LayerOk(l) ==
  /\ DOMAIN l = {"has", "output", "configured"}
  /\ l.has # {} => Required \subseteq globals
  /\ "layer_surface" \in l.has =>
       "surface" \in l.has /\ (settings.output # "" => l.output # 0 \/ outputs.lost)

LayersOk ==
  /\ layers = [r \in Roles |-> layers[r]]
  /\ \A r \in Roles : LayerOk(layers[r])

\* What the start has reached, and what may not go before what needs it.
Standing ==
  /\ own \subseteq {"lease", "scan", "display", "pool"}
  /\ stage \in {"scan", "connect"} => "lease" \in own
  /\ stage \in Built => {"display", "lease"} \subseteq own
  /\ stage \in {"lease", "scan", "connect", "registry"} => globals = {}
  /\ stage \in Known => Required \subseteq globals
  /\ globals # {} => {"display", "lease"} \subseteq own
  /\ seat.has # {} => Required \subseteq globals

\* What the end has undone.
Undone ==
  /\ stage \in SinceLayer => layers["panel"].has = {}
  /\ stage \in SinceBackdrop => layers["backdrop"].has = {}
  /\ stage \in SinceSeat => seat.has = {} /\ ~seat.keymap /\ seat.fd = "none"
  /\ stage \in SinceRegistry => globals = {} /\ outputs.entries = {}
  /\ stage \in SinceDisplay => "display" \notin own
  /\ stage \in SinceInstance => "lease" \notin own
  /\ stage \in SinceThumbs => "pool" \notin own
  /\ stage \in SinceScan => "scan" \notin own

RunInv == SeatInv /\ OutputsOk /\ LayersOk /\ Standing /\ Undone

LEMMA RunInvSuffices == RunInv => OutputAsked /\ TornDown
<1> SUFFICES ASSUME RunInv PROVE OutputAsked /\ TornDown
  OBVIOUS
<1>1. OutputAsked
  BY DEF RunInv, OutputsOk, LayersOk, LayerOk, OutputAsked
<1>2. globals # {} \/ seat.has \intersect {"keyboard", "pointer"} # {} => "display" \in own
  BY DEF RunInv, Standing, Required
<1>3. seat.has \intersect {"keyboard", "pointer"} # {} => "seat" \in globals
  BY DEF RunInv, Standing, Required
<1>4. ASSUME NEW r \in Roles
      PROVE  /\ layers[r].has # {} => {"display", "lease"} \subseteq own /\ "compositor" \in globals
             /\ "layer_surface" \in layers[r].has => "surface" \in layers[r].has
  BY DEF RunInv, LayersOk, LayerOk, Standing, Required
<1>5. stage = "ended" =>
        /\ own = {} /\ globals = {} /\ outputs.entries = {} /\ seat.has = {} /\ ~seat.keymap
        /\ seat.fd = "none" /\ \A r \in Roles : layers[r].has = {}
  <2> SUFFICES ASSUME stage = "ended"
               PROVE  /\ own = {} /\ globals = {} /\ outputs.entries = {} /\ seat.has = {}
                      /\ ~seat.keymap /\ seat.fd = "none" /\ \A r \in Roles : layers[r].has = {}
    OBVIOUS
  <2>1. /\ stage \in SinceLayer /\ stage \in SinceBackdrop /\ stage \in SinceSeat
        /\ stage \in SinceRegistry /\ stage \in SinceDisplay /\ stage \in SinceInstance
        /\ stage \in SinceThumbs /\ stage \in SinceScan
    BY DEF SinceLayer, SinceBackdrop, SinceSeat, SinceRegistry, SinceDisplay, SinceInstance,
           SinceThumbs, SinceScan
  <2>2. own = {}
    BY <2>1 DEF RunInv, Standing, Undone
  <2> QED
    BY <2>1, <2>2 DEF RunInv, Undone, Roles
<1> QED
  BY <1>1, <1>2, <1>3, <1>4, <1>5 DEF TornDown

LEMMA InitRun == SessionInit => RunInv
<1> SUFFICES ASSUME SessionInit PROVE RunInv
  OBVIOUS
<1>1. SeatInv
  BY InitSeatInv
<1>2. stage = "lease" /\ own = {} /\ globals = {} /\ outputs = NoOutputs /\ seat = ZeroSeat
      /\ layers = [r \in Roles |-> NoLayer]
  BY DEF SessionInit
<1>3. stage \notin Built /\ stage \notin Known /\ stage \notin Placed /\ stage \notin SinceLayer
      /\ stage \notin SinceBackdrop /\ stage \notin SinceSeat /\ stage \notin SinceRegistry
      /\ stage \notin SinceDisplay /\ stage \notin SinceInstance /\ stage \notin SinceThumbs
      /\ stage \notin SinceScan /\ stage \notin {"scan", "connect"}
  BY <1>2 DEF Built, Known, Placed, SinceLayer, SinceBackdrop, SinceSeat, SinceRegistry,
              SinceDisplay, SinceInstance, SinceThumbs, SinceScan
<1>4. OutputsOk
  BY <1>2, <1>3 DEF OutputsOk, NoOutputs
<1>5. LayersOk
  BY <1>2 DEF LayersOk, LayerOk, NoLayer
<1>6. Standing /\ Undone
  BY <1>2, <1>3 DEF Standing, Undone, ZeroSeat
<1> QED
  BY <1>1, <1>4, <1>5, <1>6 DEF RunInv
-----------------------------------------------------------------------------
(* What a part of the invariant asks of a step.                            *)

LEMMA OutputsKeep ==
  ASSUME OutputsOk, UNCHANGED <<outputs, settings>>, stage' \in Placed => stage \in Placed
  PROVE  OutputsOk'
BY DEF OutputsOk

LEMMA LayersKeep ==
  ASSUME LayersOk, UNCHANGED <<layers, settings>>, globals \subseteq globals',
         outputs.lost => outputs'.lost
  PROVE  LayersOk'
<1>1. \A r \in Roles : LayerOk(layers[r])'
  BY DEF LayersOk, LayerOk
<1> QED
  BY <1>1 DEF LayersOk

\* One layer is created, mapped, configured or destroyed.
LEMMA LayerChanges ==
  ASSUME LayersOk, UNCHANGED <<settings, globals, outputs>>, NEW r \in Roles, NEW l, LayerOk(l),
         layers' = [layers EXCEPT ![r] = l]
  PROVE  LayersOk'
<1>1. layers' = [q \in Roles |-> layers'[q]]
  BY DEF LayersOk
<1>2. ASSUME NEW q \in Roles PROVE LayerOk(layers[q])'
  <2>1. layers'[q] = l \/ layers'[q] = layers[q]
    BY DEF LayersOk
  <2> QED
    BY <2>1 DEF LayersOk, LayerOk
<1> QED
  BY <1>1, <1>2 DEF LayersOk

\* A stage of the start, or none of the end that undoes anything.
Early == {"lease", "scan", "connect", "registry", "finish_layer"} \union Built

LEMMA EarlyUndoesNothing ==
  ASSUME stage \in Early
  PROVE  Undone
BY DEF Undone, Early, Built, Known, Placed, SinceLayer, SinceBackdrop, SinceSeat, SinceRegistry,
       SinceDisplay, SinceInstance, SinceThumbs, SinceScan

LEMMA LaterEarlyUndoesNothing ==
  ASSUME stage' \in Early
  PROVE  Undone'
BY DEF Undone, Early, Built, Known, Placed, SinceLayer, SinceBackdrop, SinceSeat, SinceRegistry,
       SinceDisplay, SinceInstance, SinceThumbs, SinceScan

LEMMA FailsStays ==
  ASSUME Fails
  PROVE  /\ stage' \in Early /\ stage' \notin Built /\ stage' \notin Known /\ stage' \notin Placed
         /\ stage' \notin {"lease", "scan", "connect", "registry"}
BY FailsToFinish DEF Early, Built, Known, Placed

-----------------------------------------------------------------------------
(* The start.                                                              *)

\* Up to the seat, outputs, layers and seat are as they were.
LEMMA FirstStepsKeep ==
  ASSUME RunInv, InitInstance \/ ScanDirectory \/ Connect \/ GetRegistry \/ GlobalsKnown
  PROVE  OutputsOk' /\ LayersOk' /\ Standing' /\ Undone'
<1>1. UNCHANGED <<settings, outputs, layers, seat>>
  BY DEF InitInstance, ScanDirectory, Connect, GetRegistry, GlobalsKnown
<1>2. stage' \in Early /\ stage' \notin Placed
  <2>1. Fails \/ stage' \in {"scan", "connect", "registry", "globals", "seat"}
    BY InitGoes DEF InitInstance, ScanDirectory, Connect, GetRegistry, GlobalsKnown, Goes
  <2> QED
    BY <2>1, FailsStays DEF Early, Built, Known, Placed
<1>3. globals \subseteq globals'
  BY DEF InitInstance, ScanDirectory, Connect, GetRegistry, GlobalsKnown, RunInv, Standing
<1>4. Standing'
  <2>1. CASE InitInstance
    <3>1. CASE Goes /\ own' = own \union {"lease"}
      <4>1. stage' = "scan" /\ UNCHANGED <<globals, seat>> /\ globals = {}
        BY <2>1, <3>1, InitGoes DEF InitInstance, Goes, RunInv, Standing
      <4> QED
        BY <3>1, <4>1 DEF RunInv, Standing, Built, Known, Placed
    <3>2. CASE Fails /\ UNCHANGED own
      BY <2>1, <3>2, FailsStays DEF InitInstance, RunInv, Standing
    <3> QED
      BY <2>1, <3>1, <3>2 DEF InitInstance
  <2>2. CASE ScanDirectory
    <3>1. CASE Goes /\ \E got \in {{}, {"scan"}} : own' = own \union got
      <4>1. stage' = "connect" /\ UNCHANGED <<globals, seat>> /\ globals = {} /\ "lease" \in own
        BY <2>2, <3>1, InitGoes DEF ScanDirectory, Goes, RunInv, Standing
      <4> QED
        BY <3>1, <4>1 DEF RunInv, Standing, Built, Known, Placed
    <3>2. CASE Fails /\ UNCHANGED own
      BY <2>2, <3>2, FailsStays DEF ScanDirectory, RunInv, Standing
    <3> QED
      BY <2>2, <3>1, <3>2 DEF ScanDirectory
  <2>3. CASE Connect
    <3>1. CASE Goes /\ own' = own \union {"display"}
      <4>1. stage' = "registry" /\ UNCHANGED <<globals, seat>> /\ globals = {} /\ "lease" \in own
        BY <2>3, <3>1, InitGoes DEF Connect, Goes, RunInv, Standing
      <4> QED
        BY <3>1, <4>1 DEF RunInv, Standing, Built, Known, Placed
    <3>2. CASE Fails /\ UNCHANGED own
      BY <2>3, <3>2, FailsStays DEF Connect, RunInv, Standing
    <3> QED
      BY <2>3, <3>1, <3>2 DEF Connect
  <2>4. CASE GetRegistry
    <3>1. stage = "registry" /\ UNCHANGED <<own, seat>> /\ globals = {}
          /\ {"display", "lease"} \subseteq own /\ seat.has = {}
      BY <2>4 DEF GetRegistry, RunInv, Standing, Built, Required
    <3>2. Fails \/ stage' = "globals"
      BY <2>4, InitGoes DEF GetRegistry, Goes
    <3>3. stage' \notin Known /\ stage' \notin {"lease", "scan", "connect", "registry"}
      BY <3>2, FailsStays DEF Known, Placed
    <3> QED
      BY <3>1, <3>3 DEF RunInv, Standing
  <2>5. CASE GlobalsKnown
    <3>1. UNCHANGED <<own, seat, globals>> /\ stage \in Built
      BY <2>5 DEF GlobalsKnown, Built
    <3>2. CASE Fails
      BY <3>1, <3>2, FailsStays DEF RunInv, Standing
    <3>3. CASE Goes /\ Required \subseteq globals
      <4>1. stage' = "seat"
        BY <2>5, <3>3, InitGoes DEF GlobalsKnown, Goes
      <4> QED
        BY <3>1, <3>3, <4>1 DEF RunInv, Standing
    <3> QED
      BY <2>5, <3>2, <3>3 DEF GlobalsKnown
  <2> QED
    BY <2>1, <2>2, <2>3, <2>4, <2>5
<1>5. Undone'
  BY <1>2, LaterEarlyUndoesNothing
<1> QED
  BY <1>1, <1>2, <1>3, <1>4, <1>5, OutputsKeep, LayersKeep DEF RunInv

\* Past the globals, the start goes on or fails; the seat may be anything.
LEMMA StandingLater ==
  ASSUME Standing, stage \in Known, UNCHANGED globals, stage' \in Known \/ Fails,
         own \subseteq own', own' \subseteq own \union {"pool"}
  PROVE  Standing' /\ Undone'
<1>1. stage' \notin {"lease", "scan", "connect", "registry"} /\ stage' \in Early
  BY FailsStays DEF Known, Placed, Early, Built
<1>2. Required \subseteq globals' /\ {"display", "lease"} \subseteq own'
  BY DEF Standing, Built
<1>3. own' \subseteq {"lease", "scan", "display", "pool"}
  BY DEF Standing
<1>4. Standing'
  BY <1>1, <1>2, <1>3 DEF Standing
<1> QED
  BY <1>1, <1>4, LaterEarlyUndoesNothing

LEMMA SelectKeeps ==
  ASSUME RunInv, SelectOutput
  PROVE  OutputsOk' /\ LayersOk' /\ Standing' /\ Undone'
<1>1. stage = "names" /\ UNCHANGED <<settings, own, globals, layers, seat>>
  BY DEF SelectOutput
<1>2. Goes => stage' = "probe"
  BY <1>1, InitGoes DEF Goes
<1>3. Standing' /\ Undone'
  BY <1>1, <1>2, StandingLater DEF SelectOutput, Known, Placed, RunInv
<1>4. CASE Fails /\ UNCHANGED outputs
  BY <1>1, <1>3, <1>4, FailsStays, OutputsKeep, LayersKeep DEF RunInv
<1>5. CASE settings.output = "" /\ Goes /\ UNCHANGED outputs
  <2>1. OutputsOk'
    BY <1>1, <1>5 DEF RunInv, OutputsOk
  <2> QED
    BY <1>1, <1>3, <1>5, <2>1, LayersKeep DEF RunInv
<1>6. CASE /\ Named(settings.output) # {}
           /\ outputs' = [outputs EXCEPT !.selected = (CHOOSE e \in Named(settings.output) : TRUE).id]
  <2>1. PICK e \in Named(settings.output) :
               outputs' = [outputs EXCEPT !.selected = e.id]
    BY <1>6
  <2>2. e \in outputs.entries /\ e.name = settings.output
    BY <2>1 DEF Named
  <2>3. e.id \in Nat \ {0} /\ DOMAIN outputs = {"entries", "failed", "selected", "lost", "last"}
    BY <2>2 DEF RunInv, OutputsOk
  <2>4. /\ outputs'.selected = e.id /\ outputs'.entries = outputs.entries
        /\ outputs'.last = outputs.last /\ outputs'.lost = outputs.lost
        /\ DOMAIN outputs' = {"entries", "failed", "selected", "lost", "last"}
    BY <2>1, <2>3
  <2>5. OutputsOk'
    BY <1>1, <2>2, <2>3, <2>4 DEF RunInv, OutputsOk
  <2> QED
    BY <1>1, <1>3, <2>4, <2>5, LayersKeep DEF RunInv
<1> QED
  BY <1>4, <1>5, <1>6 DEF SelectOutput

\* A layer is made of what the globals give, on the output that was selected.
LEMMA CreatedOk ==
  ASSUME RunInv, NEW r \in Roles, stage \in Placed
  PROVE  /\ LayerOk(Created(r)) /\ LayerOk(NoLayer)
         /\ LayerOk([NoLayer EXCEPT !.has = Extras(r)])
<1>1. Required \subseteq globals
  BY DEF RunInv, Standing, Known
<1>2. settings.output # "" => outputs.selected # 0 \/ outputs.lost
  BY DEF RunInv, OutputsOk
<1>3. Extras(r) \subseteq {"viewport", "fractional"}
  BY DEF Extras
<1> QED
  BY <1>1, <1>2, <1>3 DEF LayerOk, Created, NoLayer

LEMMA CreateKeeps ==
  ASSUME RunInv, NEW r \in Roles, stage \in Placed, CreateLayer(r),
         UNCHANGED <<settings, globals, outputs>>
  PROVE  LayersOk'
<1>1. PICK l \in {Created(r), NoLayer, [NoLayer EXCEPT !.has = Extras(r)]} :
        layers' = [layers EXCEPT ![r] = l]
  BY DEF CreateLayer
<1>2. LayerOk(l)
  BY <1>1, CreatedOk
<1> QED
  BY <1>1, <1>2, LayerChanges DEF RunInv

LEMMA PlaceKeeps ==
  ASSUME RunInv,
         InitSeat \/ CreateProbe \/ ProbeConfigured \/ MapBackdrop \/ PlacePanel \/ PanelConfigured
         \/ StartRun \/ LeaveRun
  PROVE  OutputsOk' /\ LayersOk' /\ Standing' /\ Undone'
<1>1. UNCHANGED <<settings, globals, outputs>>
  BY DEF InitSeat, CreateProbe, ProbeConfigured, PanelConfigured, Configured, MapBackdrop, PlacePanel,
         StartRun, LeaveRun
<1>2. stage \in {"seat", "probe", "probe_wait", "map", "panel", "panel_wait", "start", "run"}
      /\ (Goes \/ Fails) /\ (stage = "run" => Fails)
  BY DEF InitSeat, CreateProbe, CreateLayer, ProbeConfigured, PanelConfigured, Configured, MapBackdrop,
         PlacePanel, StartRun, LeaveRun
<1>3. stage \in Known /\ (stage' \in Known \/ Fails) /\ (stage' \in Placed => stage \in Placed)
  BY <1>2, InitGoes, FailsStays DEF Goes, Known, Placed
<1>4. own \subseteq own' /\ own' \subseteq own \union {"pool"}
  BY DEF InitSeat, CreateProbe, ProbeConfigured, PanelConfigured, Configured, MapBackdrop, PlacePanel,
         StartRun, LeaveRun
<1>5. OutputsOk' /\ Standing' /\ Undone'
  BY <1>1, <1>3, <1>4, StandingLater, OutputsKeep DEF RunInv
<1>6. LayersOk'
  <2>1. CASE UNCHANGED layers
    BY <1>1, <2>1, LayersKeep DEF RunInv
  <2>2. CASE CreateProbe
    <3>1. stage \in Placed /\ Probe \in Roles
      BY <2>2 DEF CreateProbe, Placed, Probe, Roles
    <3> QED
      BY <1>1, <2>2, <3>1, CreateKeeps DEF CreateProbe
  <2>3. CASE MapBackdrop /\ ~UNCHANGED layers
    <3>1. PICK l \in {[layers["backdrop"] EXCEPT !.has = @ \union {"buffer"}], NoLayer} :
            layers' = [layers EXCEPT !["backdrop"] = l]
      BY <2>3 DEF MapBackdrop
    <3>2. "backdrop" \in Roles /\ stage \in Placed
      BY <2>3 DEF MapBackdrop, Roles, Placed
    <3>3. LayerOk([layers["backdrop"] EXCEPT !.has = @ \union {"buffer"}])
      <4>1. LayerOk(layers["backdrop"]) /\ Required \subseteq globals
        BY <3>2 DEF RunInv, LayersOk, Standing, Known
      <4> QED
        BY <4>1 DEF LayerOk
    <3>4. LayerOk(l)
      BY <3>1, <3>2, <3>3, CreatedOk
    <3> QED
      BY <1>1, <3>1, <3>2, <3>4, LayerChanges DEF RunInv
  <2>4. CASE PlacePanel
    <3>1. stage \in Placed /\ "panel" \in Roles
      BY <2>4 DEF PlacePanel, Placed, Roles
    <3>2. CASE CreateLayer("panel")
      BY <1>1, <3>1, <3>2, CreateKeeps
    <3>3. CASE layers' = [layers EXCEPT !["panel"].configured = FALSE]
      <4>1. layers' = [layers EXCEPT !["panel"] = [layers["panel"] EXCEPT !.configured = FALSE]]
        BY <3>3
      <4>2. LayerOk([layers["panel"] EXCEPT !.configured = FALSE])
        BY <3>1 DEF RunInv, LayersOk, LayerOk
      <4> QED
        BY <1>1, <3>1, <4>1, <4>2, LayerChanges DEF RunInv
    <3> QED
      BY <2>4, <3>2, <3>3 DEF PlacePanel
  <2> QED
    BY <2>1, <2>2, <2>3, <2>4 DEF InitSeat, ProbeConfigured, PanelConfigured, Configured, StartRun,
                                  LeaveRun
<1> QED
  BY <1>5, <1>6

-----------------------------------------------------------------------------
(* Events come while the start waits or the picker runs: stage and what    *)
(* the run owns stay, so what is asked is that the outputs keep their      *)
(* shape and a layer its globals.                                          *)

LEMMA DispatchingIsBuilt ==
  ASSUME Dispatching(stage)
  PROVE  stage \in Built /\ (stage # "globals" => stage \in Known)
BY DEF Dispatching, Roundtrips, Built, Known, Placed

\* An event of the registry or of a surface leaves the seat alone.
LEMMA StandingAcross ==
  ASSUME Standing, Dispatching(stage), UNCHANGED <<stage, own, seat>>, globals \subseteq globals'
  PROVE  Standing' /\ Undone'
<1>1. stage \in Built /\ stage \in Early /\ stage \notin {"lease", "scan", "connect", "registry"}
  BY DispatchingIsBuilt DEF Early, Built, Known, Placed
<1>2. Standing'
  BY <1>1 DEF Standing
<1> QED
  BY <1>1, <1>2, LaterEarlyUndoesNothing

LEMMA HandleGlobalKeeps ==
  ASSUME RunInv, NEW g, HandleGlobal(g)
  PROVE  OutputsOk' /\ LayersOk' /\ Standing' /\ Undone'
<1>1. UNCHANGED <<stage, settings, own, outputs, layers, seat>> /\ globals \subseteq globals'
      /\ Dispatching(stage)
  BY DEF HandleGlobal, Dispatching, Roundtrips
<1> QED
  BY <1>1, StandingAcross, OutputsKeep, LayersKeep DEF RunInv

LEMMA ConfigureKeeps ==
  ASSUME RunInv, NEW r \in Roles, Configure(r)
  PROVE  OutputsOk' /\ LayersOk' /\ Standing' /\ Undone'
<1>1. UNCHANGED <<stage, settings, own, globals, outputs, seat>> /\ Dispatching(stage)
  BY DEF Configure
<1>2. layers' = [layers EXCEPT ![r] = [layers[r] EXCEPT !.configured = TRUE]]
  BY DEF Configure
<1>3. LayerOk([layers[r] EXCEPT !.configured = TRUE])
  BY DEF RunInv, LayersOk, LayerOk
<1> QED
  BY <1>1, <1>2, <1>3, StandingAcross, OutputsKeep, LayerChanges DEF RunInv

\* An event that leaves the rest to the outputs.
LEMMA OutputEvent ==
  ASSUME RunInv, UNCHANGED <<stage, settings, own, globals, layers, seat>>, Dispatching(stage),
         OutputsOk', outputs.lost => outputs'.lost
  PROVE  OutputsOk' /\ LayersOk' /\ Standing' /\ Undone'
BY StandingAcross, LayersKeep DEF RunInv

LEMMA BindKeeps ==
  ASSUME RunInv, NEW name, BindOutput(name)
  PROVE  OutputsOk' /\ LayersOk' /\ Standing' /\ Undone'
<1> DEFINE entry == [id |-> outputs.last + 1, name |-> name, named |-> FALSE, since |-> stage]
<1>1. UNCHANGED <<stage, settings, own, globals, layers, seat>> /\ Dispatching(stage)
  BY DEF BindOutput
<1>2. DOMAIN outputs = {"entries", "failed", "selected", "lost", "last"} /\ outputs.last \in Nat
  BY DEF RunInv, OutputsOk
<1>3. DOMAIN entry = {"id", "name", "named", "since"} /\ entry.id \in Nat \ {0}
  BY <1>2
<1>4. outputs' = [outputs EXCEPT !.last = @ + 1, !.entries = @ \union {entry}]
      \/ outputs' = [outputs EXCEPT !.last = @ + 1, !.failed = TRUE]
  BY DEF BindOutput
<1> HIDE DEF entry
<1>5. outputs'.entries \subseteq outputs.entries \union {entry}
      /\ outputs.entries \subseteq outputs'.entries
      /\ outputs'.last = outputs.last + 1
      /\ outputs'.selected = outputs.selected /\ outputs'.lost = outputs.lost
      /\ DOMAIN outputs' = {"entries", "failed", "selected", "lost", "last"}
  BY <1>2, <1>4
<1>6. \A e \in outputs'.entries :
        DOMAIN e = {"id", "name", "named", "since"} /\ e.id \in Nat \ {0}
  BY <1>3, <1>5 DEF RunInv, OutputsOk
<1>7. outputs'.selected # 0 =>
        \E e \in outputs'.entries : e.id = outputs'.selected /\ e.name = settings.output
  BY <1>5 DEF RunInv, OutputsOk
<1>8. OutputsOk'
  <2>1. settings' = settings /\ stage' = stage
    BY <1>1
  <2>2. outputs'.last \in Nat
    BY <1>2, <1>5
  <2>3. stage \in Placed /\ settings.output # "" => outputs'.selected # 0 \/ outputs'.lost
    BY <1>5 DEF RunInv, OutputsOk
  <2>4. DOMAIN outputs' = {"entries", "failed", "selected", "lost", "last"}
    BY <1>5
  <2> QED
    BY <1>6, <1>7, <2>1, <2>2, <2>3, <2>4 DEF OutputsOk
<1> QED
  BY <1>1, <1>5, <1>8, OutputEvent

LEMMA NameKeeps ==
  ASSUME RunInv, NEW e, NameOutput(e)
  PROVE  OutputsOk' /\ LayersOk' /\ Standing' /\ Undone'
<1> DEFINE after == [e EXCEPT !.named = TRUE, !.since = ""]
<1>1. UNCHANGED <<stage, settings, own, globals, layers, seat>> /\ Dispatching(stage)
      /\ e \in outputs.entries
  BY DEF NameOutput
<1>2. DOMAIN outputs = {"entries", "failed", "selected", "lost", "last"}
      /\ DOMAIN e = {"id", "name", "named", "since"} /\ e.id \in Nat \ {0}
  BY <1>1 DEF RunInv, OutputsOk
<1>3. DOMAIN after = {"id", "name", "named", "since"} /\ after.id = e.id /\ after.name = e.name
  BY <1>2
<1>4. outputs' = [outputs EXCEPT !.entries = (@ \ {e}) \union {after}]
      \/ outputs' = [outputs EXCEPT !.failed = TRUE]
  BY DEF NameOutput
<1> HIDE DEF after
<1>5. (outputs'.entries = (outputs.entries \ {e}) \union {after} \/ outputs'.entries = outputs.entries)
      /\ outputs'.last = outputs.last
      /\ outputs'.selected = outputs.selected /\ outputs'.lost = outputs.lost
      /\ DOMAIN outputs' = {"entries", "failed", "selected", "lost", "last"}
  BY <1>2, <1>4
<1>6. OutputsOk'
  <2>1. CASE outputs'.entries = outputs.entries
    BY <1>1, <1>5, <2>1 DEF RunInv, OutputsOk
  <2>2. CASE outputs'.entries = (outputs.entries \ {e}) \union {after}
    <3>1. \A f \in outputs'.entries :
            DOMAIN f = {"id", "name", "named", "since"} /\ f.id \in Nat \ {0}
      BY <1>2, <1>3, <2>2 DEF RunInv, OutputsOk
    <3>2. outputs.selected # 0 =>
            \E f \in outputs'.entries : f.id = outputs.selected /\ f.name = settings.output
      <4> SUFFICES ASSUME outputs.selected # 0
                   PROVE  \E f \in outputs'.entries :
                            f.id = outputs.selected /\ f.name = settings.output
        OBVIOUS
      <4>1. PICK f \in outputs.entries : f.id = outputs.selected /\ f.name = settings.output
        BY DEF RunInv, OutputsOk
      <4> QED
        BY <1>3, <2>2, <4>1
    <3> QED
      BY <1>1, <1>5, <3>1, <3>2 DEF RunInv, OutputsOk
  <2> QED
    BY <1>5, <2>1, <2>2
<1> QED
  BY <1>1, <1>5, <1>6, OutputEvent

\* The selection goes with its output, and is remembered as lost.
LEMMA RemoveKeeps ==
  ASSUME RunInv, NEW e, RemoveOutput(e)
  PROVE  OutputsOk' /\ LayersOk' /\ Standing' /\ Undone'
<1>1. UNCHANGED <<stage, settings, own, globals, layers, seat>> /\ Dispatching(stage)
      /\ e \in outputs.entries
  BY DEF RemoveOutput
<1>2. DOMAIN outputs = {"entries", "failed", "selected", "lost", "last"} /\ outputs.last \in Nat
  BY DEF RunInv, OutputsOk
<1>3. /\ outputs'.entries = outputs.entries \ {e} /\ outputs'.last = outputs.last
      /\ outputs'.selected = (IF outputs.selected = e.id THEN 0 ELSE outputs.selected)
      /\ outputs'.lost = (outputs.lost \/ outputs.selected = e.id)
      /\ DOMAIN outputs' = {"entries", "failed", "selected", "lost", "last"}
  BY <1>2 DEF RemoveOutput, Removed
<1>4. outputs'.selected # 0 =>
        \E f \in outputs'.entries : f.id = outputs'.selected /\ f.name = settings.output
  <2> SUFFICES ASSUME outputs.selected # 0, outputs.selected # e.id
               PROVE  \E f \in outputs'.entries :
                        f.id = outputs.selected /\ f.name = settings.output
    BY <1>3
  <2>1. PICK f \in outputs.entries : f.id = outputs.selected /\ f.name = settings.output
    BY DEF RunInv, OutputsOk
  <2> QED
    BY <1>3, <2>1
<1>5. stage \in Placed /\ settings.output # "" => outputs'.selected # 0 \/ outputs'.lost
  BY <1>3 DEF RunInv, OutputsOk
<1>6. OutputsOk'
  BY <1>1, <1>2, <1>3, <1>4, <1>5 DEF RunInv, OutputsOk
<1> QED
  BY <1>1, <1>3, <1>6, OutputEvent

\* What the seat and its keyboard hear comes once the seat is set up.
LEMMA SeatEventKeeps ==
  ASSUME RunInv,
         \/ \E caps \in SUBSET {"keyboard", "pointer"} : Capabilities(caps)
         \/ HandleKeymap \/ HandleEnter \/ HandleLeave \/ HandleModifiers
         \/ \E rate \in {0, 1} : HandleRepeatInfo(rate)
         \/ \E key \in Keys : PressKey(key) \/ ReleaseKey(key)
  PROVE  OutputsOk' /\ LayersOk' /\ Standing' /\ Undone'
<1>1. SeatListens /\ UNCHANGED <<stage, settings, own, globals, outputs, layers>>
  BY DEF Capabilities, HandleKeymap, HandleEnter, HandleLeave, HandleModifiers, HandleRepeatInfo,
         PressKey, ReleaseKey, KeyboardListens
<1>2. stage \in Known
  BY <1>1, DispatchingIsBuilt DEF SeatListens
<1> QED
  BY <1>1, <1>2, StandingLater, OutputsKeep, LayersKeep DEF RunInv

LEMMA EventKeeps ==
  ASSUME RunInv, Event
  PROVE  OutputsOk' /\ LayersOk' /\ Standing' /\ Undone'
BY HandleGlobalKeeps, BindKeeps, NameKeeps, RemoveKeeps, ConfigureKeeps, SeatEventKeeps DEF Event

-----------------------------------------------------------------------------
(* The end: what a step releases, nothing that still stands needs.         *)

SinceAll == {"finish_layer"} \union SinceLayer

\* A step of the end, once what it leaves of layers and outputs is right.
LEMMA EndStep ==
  ASSUME RunInv, stage' \in SinceAll, OutputsOk', LayersOk',
         own' \subseteq own,
         globals' # {} => globals' = globals /\ {"display", "lease"} \intersect own \subseteq own',
         seat'.has # {} => seat' = seat /\ globals' = globals
  PROVE  Standing'
<1>1. stage' \notin {"lease", "scan", "connect", "registry"} /\ stage' \notin Built /\ stage' \notin Known
  BY DEF SinceAll, SinceLayer, SinceBackdrop, SinceSeat, SinceRegistry, SinceDisplay, SinceInstance,
         SinceThumbs, SinceScan, Built, Known, Placed
<1>2. own' \subseteq {"lease", "scan", "display", "pool"}
  BY DEF RunInv, Standing
<1>3. globals' # {} => {"display", "lease"} \subseteq own'
  BY DEF RunInv, Standing
<1>4. seat'.has # {} => Required \subseteq globals'
  BY DEF RunInv, Standing
<1> QED
  BY <1>1, <1>2, <1>3, <1>4 DEF Standing

LEMMA EndIsNotPlaced ==
  ASSUME stage' \in SinceAll
  PROVE  stage' \notin Placed
BY DEF SinceAll, SinceLayer, SinceBackdrop, SinceSeat, SinceRegistry, SinceDisplay, SinceInstance,
       SinceThumbs, SinceScan, Placed

LEMMA DestroyKeeps ==
  ASSUME RunInv, NEW r \in Roles, DestroyLayer(r)
  PROVE  OutputsOk' /\ LayersOk' /\ Standing' /\ Undone'
<1>1. UNCHANGED <<settings, own, globals, outputs, seat>> /\ layers' = [layers EXCEPT ![r] = NoLayer]
  BY DEF DestroyLayer
<1>2. \/ r = "panel" /\ stage = "finish_layer" /\ stage' = "finish_backdrop"
      \/ r = "backdrop" /\ stage = "finish_backdrop" /\ stage' = "finish_seat"
  BY FinishGoes DEF DestroyLayer, Finishes, Roles
<1>3. stage' \in SinceAll
  BY <1>2 DEF SinceAll, SinceLayer, SinceBackdrop
<1>4. OutputsOk'
  BY <1>1, <1>3, EndIsNotPlaced, OutputsKeep DEF RunInv
<1>5. LayerOk(NoLayer) /\ NoLayer.has = {}
  BY DEF LayerOk, NoLayer
<1>6. LayersOk'
  BY <1>1, <1>5, LayerChanges DEF RunInv
<1>7. Standing'
  BY <1>1, <1>3, <1>4, <1>6, EndStep
<1>8. /\ stage' \notin SinceSeat /\ stage' \notin SinceRegistry /\ stage' \notin SinceDisplay
      /\ stage' \notin SinceInstance /\ stage' \notin SinceThumbs /\ stage' \notin SinceScan
      /\ (stage' \in SinceBackdrop => r = "backdrop" /\ stage \in SinceLayer)
  BY <1>2 DEF SinceLayer, SinceBackdrop, SinceSeat, SinceRegistry, SinceDisplay, SinceInstance,
              SinceThumbs, SinceScan
<1>9. layers'[r].has = {} /\ \A q \in Roles : q # r => layers'[q] = layers[q]
  BY <1>1, <1>5 DEF RunInv, LayersOk
<1>10. "panel" \in Roles /\ "backdrop" \in Roles
  BY DEF Roles
<1>11. layers'["panel"].has = {}
  BY <1>2, <1>8, <1>9, <1>10 DEF RunInv, Undone, SinceLayer
<1>12. stage' \in SinceBackdrop => layers'["backdrop"].has = {}
  BY <1>8, <1>9
<1>13. Undone'
  BY <1>8, <1>11, <1>12 DEF Undone
<1> QED
  BY <1>4, <1>6, <1>7, <1>13

LEMMA FinishSeatKeeps ==
  ASSUME RunInv, FinishSeat
  PROVE  OutputsOk' /\ LayersOk' /\ Standing' /\ Undone'
<1>1. UNCHANGED <<settings, own, globals, outputs, layers>>
      /\ stage = "finish_seat" /\ stage' = "finish_registry"
  BY FinishGoes DEF FinishSeat, Finishes
<1>2. seat'.has = {} /\ ~seat'.keymap /\ seat'.fd = "none"
  BY DEF FinishSeat, StopRepeat, DropPending, RunInv, SeatInv, Seats
<1>3. /\ stage' \in SinceAll /\ stage \in SinceLayer /\ stage \in SinceBackdrop
      /\ stage' \notin SinceRegistry /\ stage' \notin SinceDisplay
      /\ stage' \notin SinceInstance /\ stage' \notin SinceThumbs /\ stage' \notin SinceScan
  BY <1>1 DEF SinceAll, SinceLayer, SinceBackdrop, SinceSeat, SinceRegistry, SinceDisplay, SinceInstance,
              SinceThumbs, SinceScan
<1>4. OutputsOk' /\ LayersOk'
  BY <1>1, <1>3, EndIsNotPlaced, OutputsKeep, LayersKeep DEF RunInv
<1>5. Standing'
  BY <1>1, <1>2, <1>3, <1>4, EndStep
<1>6. Undone'
  BY <1>1, <1>2, <1>3 DEF RunInv, Undone
<1> QED
  BY <1>4, <1>5, <1>6

LEMMA FinishRegistryKeeps ==
  ASSUME RunInv, FinishRegistry
  PROVE  OutputsOk' /\ LayersOk' /\ Standing' /\ Undone'
<1>1. UNCHANGED <<settings, own, layers, seat>> /\ globals' = {}
      /\ stage = "finish_registry" /\ stage' = "finish_display"
  BY FinishGoes DEF FinishRegistry, Finishes
<1>2. /\ stage' \in SinceAll
      /\ stage \in SinceLayer /\ stage \in SinceBackdrop /\ stage \in SinceSeat
      /\ stage' \notin SinceDisplay /\ stage' \notin SinceInstance /\ stage' \notin SinceThumbs
      /\ stage' \notin SinceScan
  BY <1>1 DEF SinceAll, SinceLayer, SinceBackdrop, SinceSeat, SinceRegistry, SinceDisplay, SinceInstance,
              SinceThumbs, SinceScan
<1>3. outputs' = [entries |-> {}, failed |-> FALSE, selected |-> 0, lost |-> outputs.lost,
                  last |-> outputs.last]
  BY DEF FinishRegistry, NoOutputs
<1>4. OutputsOk'
  BY <1>2, <1>3, EndIsNotPlaced DEF RunInv, OutputsOk
<1>5. \A r \in Roles : layers[r].has = {}
  BY <1>2 DEF RunInv, Undone, Roles
<1>6. LayersOk'
  BY <1>1, <1>5 DEF RunInv, LayersOk, LayerOk
<1>7. Standing'
  BY <1>1, <1>2, <1>4, <1>6, EndStep DEF RunInv, Undone
<1>8. Undone'
  BY <1>1, <1>2, <1>3 DEF RunInv, Undone
<1> QED
  BY <1>4, <1>6, <1>7, <1>8

LEMMA ReleaseThingKeeps ==
  ASSUME RunInv,
         \/ Release("finish_display", "display") \/ Release("finish_instance", "lease")
         \/ Release("finish_thumbs", "pool") \/ Release("finish_scan", "scan")
  PROVE  OutputsOk' /\ LayersOk' /\ Standing' /\ Undone'
<1>1. UNCHANGED <<settings, globals, outputs, layers, seat>> /\ own' \subseteq own
  BY DEF Release
<1>2. \/ stage = "finish_display" /\ stage' = "finish_instance" /\ "display" \notin own'
      \/ stage = "finish_instance" /\ stage' = "finish_thumbs" /\ "lease" \notin own'
      \/ stage = "finish_thumbs" /\ stage' = "finish_scan" /\ "pool" \notin own'
      \/ stage = "finish_scan" /\ stage' = "ended" /\ "scan" \notin own'
  BY FinishGoes DEF Release, Finishes
<1>3. /\ stage' \in SinceAll
      /\ stage \in SinceLayer /\ stage \in SinceBackdrop /\ stage \in SinceSeat
      /\ stage \in SinceRegistry
      /\ (stage' \in SinceDisplay => stage \in SinceDisplay \/ "display" \notin own')
      /\ (stage' \in SinceInstance => stage \in SinceInstance \/ "lease" \notin own')
      /\ (stage' \in SinceThumbs => stage \in SinceThumbs \/ "pool" \notin own')
      /\ (stage' \in SinceScan => "scan" \notin own')
  BY <1>2 DEF SinceAll, SinceLayer, SinceBackdrop, SinceSeat, SinceRegistry, SinceDisplay, SinceInstance,
              SinceThumbs, SinceScan
<1>4. OutputsOk' /\ LayersOk'
  BY <1>1, <1>3, EndIsNotPlaced, OutputsKeep, LayersKeep DEF RunInv
<1>5. globals = {}
  BY <1>3 DEF RunInv, Undone
<1>6. Standing'
  BY <1>1, <1>3, <1>4, <1>5, EndStep
<1>7. Undone'
  BY <1>1, <1>3 DEF RunInv, Undone
<1> QED
  BY <1>4, <1>6, <1>7

LEMMA RunKeeps == RunInv /\ [SessionNext]_session => RunInv'
<1> SUFFICES ASSUME RunInv, [SessionNext]_session PROVE RunInv'
  OBVIOUS
<1>1. SeatInv'
  BY SeatKeeps DEF RunInv
<1>2. CASE TakeDown
  BY <1>1, <1>2, DestroyKeeps, FinishSeatKeeps, FinishRegistryKeeps, ReleaseThingKeeps DEF TakeDown, RunInv
<1>3. CASE Event
  BY <1>1, <1>3, EventKeeps DEF RunInv
<1>4. CASE InitInstance \/ ScanDirectory \/ Connect \/ GetRegistry \/ GlobalsKnown
  BY <1>1, <1>4, FirstStepsKeep DEF RunInv
<1>5. CASE SelectOutput
  BY <1>1, <1>5, SelectKeeps DEF RunInv
<1>6. CASE InitSeat \/ CreateProbe \/ ProbeConfigured \/ MapBackdrop \/ PlacePanel \/ PanelConfigured
           \/ StartRun \/ LeaveRun
  BY <1>1, <1>6, PlaceKeeps DEF RunInv
<1>7. CASE UNCHANGED session
  <2>1. UNCHANGED <<stage, settings, own, globals, outputs, layers, seat>>
    BY <1>7 DEF session
  <2>2. OutputsOk' /\ LayersOk'
    BY <2>1, OutputsKeep, LayersKeep DEF RunInv
  <2>3. Standing' /\ Undone'
    BY <2>1 DEF RunInv, Standing, Undone
  <2> QED
    BY <1>1, <2>2, <2>3 DEF RunInv
<1> QED
  BY <1>2, <1>3, <1>4, <1>5, <1>6, <1>7 DEF SessionNext

-----------------------------------------------------------------------------
(* Launch: the configuration, the walk it asks for, and the run.           *)

\* No step of Settings is taken once its result is used.
LEMMA SettlingGoesOn ==
  ASSUME SettingsNext PROVE phase # "used"
<1>1. /\ \A k, v : KeyOption(k, v) => phase = "options"
      /\ \A l, v : ItemOption(l, v) => phase = "options"
      /\ \A l : NoItemsOption(l) => phase = "options"
  BY DEF KeyOption, ItemOption, NoItemsOption, Say
<1>2. CommandOption \/ ConfigOption \/ NoConfigOption \/ EndOption \/ Parsed => phase = "options"
  BY DEF CommandOption, ConfigOption, NoConfigOption, EndOption, Parsed, Say
<1>3. /\ \A k, v : KeyEntry(k, v) => phase = "file"
      /\ \A l, v : ListEntry(l, v) => phase = "file"
  BY DEF KeyEntry, ListEntry, Read
<1>4. Load \/ Broken \/ EndOfFile \/ Apply \/ Done => phase \in {"load", "file", "apply", "ready", "exit"}
  BY DEF Load, Broken, EndOfFile, Apply, Done
<1> QED
  BY <1>1, <1>2, <1>3, <1>4 DEF SettingsNext

LEMMA WalkingGoesOn ==
  ASSUME ScanNext PROVE at # "idle" /\ at' # "idle"
<1>1. CASE ScanDone
  BY <1>1 DEF ScanDone, walking
<1>2. CASE OpenTop \/ CloseDir \/ OpenDir \/ Finish
  BY <1>2 DEF OpenTop, CloseDir, OpenDir, Finish, Ends
<1>3. CASE \E n \in Nodes : ReadEntry(n) \/ PushFails(n)
  BY <1>3 DEF ReadEntry, PushFails, Ends
<1> QED
  BY <1>1, <1>2, <1>3 DEF ScanNext

Alone == {"lease", "scan", "connect"}

\* No output is selected before there is a display.
NothingYet == stage \in Alone => outputs.selected = 0

(* The inductive invariant of a launch.  Nothing is walked before the      *)
(* configuration is settled, and once it is used nothing of it changes.    *)
LaunchInv ==
  /\ SettingsInv /\ ScanInv /\ RunInv /\ NothingYet
  /\ phase # "used" => at = "idle"

LEMMA LaunchBegins == LaunchInit => LaunchInv
<1> SUFFICES ASSUME LaunchInit PROVE LaunchInv
  OBVIOUS
<1>1. SettingsInv /\ ScanInv /\ RunInv
  BY SettingsStart, ScanStart, InitRun DEF LaunchInit
<1>2. NothingYet
  BY DEF LaunchInit, SessionInit, NothingYet, NoOutputs
<1>3. at = "idle"
  BY DEF LaunchInit, ScanInit
<1> QED
  BY <1>1, <1>2, <1>3 DEF LaunchInv

LEMMA DispatchedLater ==
  ASSUME Event
  PROVE  stage \notin Alone /\ stage' = stage
<1>1. ASSUME NEW s \in Alone PROVE ~Dispatching(s)
  BY <1>1 DEF Alone, Dispatching, Roundtrips
<1>2. /\ \A g : HandleGlobal(g) => stage = "globals" /\ stage' = stage
      /\ \A name : BindOutput(name) => Dispatching(stage) /\ stage' = stage
      /\ \A e : NameOutput(e) \/ RemoveOutput(e) => Dispatching(stage) /\ stage' = stage
      /\ \A r : Configure(r) => Dispatching(stage) /\ stage' = stage
  BY DEF HandleGlobal, BindOutput, NameOutput, RemoveOutput, Configure
<1>3. /\ \A caps : Capabilities(caps) => Dispatching(stage) /\ stage' = stage
      /\ \A rate : HandleRepeatInfo(rate) => Dispatching(stage) /\ stage' = stage
      /\ \A key : PressKey(key) \/ ReleaseKey(key) => Dispatching(stage) /\ stage' = stage
      /\ HandleKeymap \/ HandleEnter \/ HandleLeave \/ HandleModifiers =>
           Dispatching(stage) /\ stage' = stage
  BY DEF Capabilities, HandleRepeatInfo, PressKey, ReleaseKey, HandleKeymap, HandleEnter,
         HandleLeave, HandleModifiers, KeyboardListens, SeatListens
<1>4. stage' = stage /\ (Dispatching(stage) \/ stage = "globals")
  BY <1>2, <1>3 DEF Event
<1> QED
  BY <1>1, <1>4 DEF Alone

LEMMA AloneKeeps ==
  ASSUME NothingYet, SessionNext
  PROVE  NothingYet'
<1>1. CASE Event
  BY <1>1, DispatchedLater DEF NothingYet
<1>2. CASE InitInstance \/ ScanDirectory
  BY <1>2 DEF InitInstance, ScanDirectory, NothingYet, Alone
<1>3. CASE \/ Connect \/ GetRegistry \/ GlobalsKnown \/ InitSeat \/ SelectOutput \/ CreateProbe
           \/ ProbeConfigured \/ MapBackdrop \/ PlacePanel \/ PanelConfigured \/ StartRun
           \/ LeaveRun
  <2>1. \/ Goes /\ stage \in {"connect", "registry", "globals", "seat", "names", "probe",
                              "probe_wait", "map", "panel", "panel_wait", "start"}
        \/ Fails
    BY <1>3 DEF Connect, GetRegistry, GlobalsKnown, InitSeat, SelectOutput, CreateProbe,
                ProbeConfigured, MapBackdrop, PlacePanel, PanelConfigured, StartRun, LeaveRun,
                CreateLayer, Configured
  <2>2. Goes => stage' = After(InitStages, stage)
    BY DEF Goes
  <2> QED
    BY <2>1, <2>2, InitGoes, FailsToFinish DEF NothingYet, Alone
<1>4. CASE TakeDown
  <2>1. \E step \in {"finish_layer", "finish_backdrop", "finish_seat", "finish_registry",
                     "finish_display", "finish_instance", "finish_thumbs", "finish_scan"} :
          stage' = After(FinishOrder, step)
    BY <1>4 DEF TakeDown, DestroyLayer, FinishSeat, FinishRegistry, Release, Finishes
  <2> QED
    BY <2>1, FinishGoes DEF NothingYet, Alone
<1> QED
  BY <1>1, <1>2, <1>3, <1>4 DEF SessionNext

LEMMA SessionRests ==
  ASSUME RunInv, NothingYet, UNCHANGED session
  PROVE  RunInv' /\ NothingYet'
<1>1. RunInv'
  BY RunKeeps
<1>2. stage' = stage /\ outputs' = outputs
  BY DEF session
<1> QED
  BY <1>1, <1>2 DEF NothingYet

\* Before there is a display nothing depends on what the settings are.
LEMMA ChooseKeeps ==
  ASSUME RunInv, NothingYet, Choose
  PROVE  RunInv' /\ NothingYet'
<1>1. /\ stage = "connect"
      /\ UNCHANGED <<stage, own, globals, outputs, layers, seat, keyboard>>
  BY DEF Choose
<1>2. outputs.selected = 0 /\ globals = {}
  BY <1>1 DEF NothingYet, Alone, RunInv, Standing
<1>3. SeatInv'
  BY <1>1 DEF RunInv, SeatInv, Seats, Backed
<1>4. OutputsOk'
  BY <1>1, <1>2 DEF RunInv, OutputsOk, Placed
<1>5. ASSUME NEW r \in Roles PROVE LayerOk(layers[r])'
  <2>1. LayerOk(layers[r])
    BY DEF RunInv, LayersOk
  <2>2. layers[r].has = {}
    BY <1>2, <2>1 DEF LayerOk, Required
  <2> QED
    BY <1>1, <2>1, <2>2 DEF LayerOk
<1>6. LayersOk'
  BY <1>1, <1>5 DEF RunInv, LayersOk
<1>7. Standing' /\ Undone'
  BY <1>1 DEF RunInv, Standing, Undone
<1> QED
  BY <1>1, <1>3, <1>4, <1>6, <1>7 DEF RunInv, NothingYet

LEMMA ForgottenIsFresh == ScanInit' => ScanInv'
<1>1. ScanInit => ScanInv
  BY ScanStart
<1> QED
  BY <1>1, PTL

LEMMA LaunchKeeps ==
  ASSUME LaunchInv, [LaunchNext]_launch
  PROVE  LaunchInv'
<1>1. CASE SettingsNext /\ UNCHANGED <<walking, session>>
  <2>1. UNCHANGED walking /\ UNCHANGED session
    BY <1>1
  <2>2. SettingsInv' /\ ScanInv'
    BY <1>1, <2>1, SettingsKeep, ScanSame DEF LaunchInv
  <2>3. phase # "used" /\ at' = at
    BY <1>1, SettlingGoesOn DEF walking
  <2> QED
    BY <2>1, <2>2, <2>3, SessionRests DEF LaunchInv
<1>2. CASE Use
  <2>1. /\ phase = "ready" /\ phase' = "used" /\ at = "idle"
        /\ recursive' \in BOOLEAN
        /\ UNCHANGED <<tree, at, dir, left, walk, level, scan>> /\ UNCHANGED session
    BY <1>2 DEF Use, LaunchInv
  <2>2. SettingsInv'
    BY <2>1 DEF SettingsInv, Resolved, Reading
  <2>3. Fresh /\ Fresh'
    BY <2>1 DEF LaunchInv, ScanInv, Fresh
  <2>4. Nothing'
    BY <2>3 DEF Fresh, Nothing
  <2>5. ScanInv'
    BY <2>1, <2>3, <2>4, ShowsNext DEF LaunchInv, ScanInv, Trees
  <2> QED
    BY <2>1, <2>2, <2>5, SessionRests DEF LaunchInv
<1>3. CASE Find
  <2>1. /\ phase = "used" /\ at = "idle" /\ at' = "top"
        /\ tree' \in Trees
        /\ UNCHANGED <<recursive, dir, left, walk, level, scan>>
        /\ UNCHANGED settling /\ UNCHANGED session
    BY <1>3, DisksAssumption DEF Find
  <2>2. SettingsInv' /\ phase' = "used"
    BY <2>1, SettingsRest DEF LaunchInv, settling
  <2>3. Fresh /\ Fresh'
    BY <2>1 DEF LaunchInv, ScanInv, Fresh
  <2>4. Nothing'
    BY <2>3 DEF Fresh, Nothing
  <2>5. ScanInv'
    BY <2>1, <2>3, <2>4, ShowsNext DEF LaunchInv, ScanInv
  <2> QED
    BY <2>1, <2>2, <2>5, SessionRests DEF LaunchInv
<1>4. CASE ScanNext /\ UNCHANGED <<settling, session>>
  <2>1. UNCHANGED settling /\ UNCHANGED session
    BY <1>4
  <2>2. SettingsInv' /\ ScanInv'
    BY <1>4, <2>1, SettingsRest, ScanKeeps DEF LaunchInv
  <2>3. phase' = "used"
    BY <1>4, <2>1, WalkingGoesOn DEF LaunchInv, settling
  <2> QED
    BY <2>1, <2>2, <2>3, SessionRests DEF LaunchInv
<1>5. CASE Choose
  <2>1. UNCHANGED settling /\ UNCHANGED walking
    BY <1>5 DEF Choose
  <2>2. SettingsInv' /\ ScanInv' /\ phase' = phase /\ at' = at
    BY <2>1, SettingsRest, ScanSame DEF LaunchInv, settling, walking
  <2> QED
    BY <1>5, <2>2, ChooseKeeps DEF LaunchInv
<1>6. CASE Run
  <2>1. phase = "used" /\ SessionNext /\ UNCHANGED settling
    BY <1>6 DEF Run
  <2>2. RunInv' /\ NothingYet'
    BY <2>1, RunKeeps, AloneKeeps DEF LaunchInv
  <2>3. SettingsInv' /\ phase' = "used"
    BY <2>1, SettingsRest DEF LaunchInv, settling
  <2>4. ScanInit' \/ UNCHANGED walking
    BY <1>6 DEF Run, ScanInit
  <2>5. ScanInv'
    BY <2>4, ForgottenIsFresh, ScanSame DEF LaunchInv
  <2> QED
    BY <2>2, <2>3, <2>5 DEF LaunchInv
<1>7. CASE UNCHANGED launch
  <2>1. UNCHANGED settling /\ UNCHANGED walking /\ UNCHANGED session
    BY <1>7 DEF launch
  <2>2. SettingsInv' /\ ScanInv' /\ phase' = phase /\ at' = at
    BY <2>1, SettingsRest, ScanSame DEF LaunchInv, settling, walking
  <2> QED
    BY <2>1, <2>2, SessionRests DEF LaunchInv
<1> QED
  BY <1>1, <1>2, <1>3, <1>4, <1>5, <1>6, <1>7 DEF LaunchNext, Over

LEMMA LaunchHolds == LaunchSpec => []LaunchInv
<1>1. LaunchInv /\ [LaunchNext]_launch => LaunchInv'
  BY LaunchKeeps
<1> QED
  BY <1>1, LaunchBegins, PTL DEF LaunchSpec

(* Every setting a run starts with is the last thing said about it on the  *)
(* command line, else the last good entry that was read of a file without  *)
(* a broken line, else the default, for any arguments and any file (cli.c, *)
(* config.c).                                                              *)
THEOREM SettingsResolved == LaunchSpec => []Resolved
<1>1. LaunchInv => Resolved
  BY DEF LaunchInv, SettingsInv
<1> QED
  BY <1>1, LaunchHolds, PTL

(* Unless a walk says that it was cut short, every image down to MAX_DEPTH *)
(* is found that no unreadable directory hides and no error of readdir has *)
(* lost, for any tree and any limits (dirscan.c).                          *)
THEOREM NothingMissedSilently == LaunchSpec => []MissingIsReported
<1>1. LaunchInv => MissingIsReported
  BY DEF LaunchInv, ScanInv
<1> QED
  BY <1>1, LaunchHolds, PTL

(* Whichever limit ends a walk, no image is found in place of one nearer   *)
(* to the top (walk_subdirs).                                              *)
THEOREM NearestComeFirst == LaunchSpec => []NearestFirst
<1>1. LaunchInv => NearestFirst
  BY DEF LaunchInv, ScanInv
<1> QED
  BY <1>1, LaunchHolds, PTL

(* A key repeats only while it is held on a keyboard that is there, has    *)
(* the focus, a keymap and a rate: whatever the compositor sends between,  *)
(* in a start that fails and in a run that ends.                           *)
THEOREM RepeatHeld == LaunchSpec => []RepeatIsHeld
<1>1. LaunchInv => RepeatIsHeld
  BY DEF LaunchInv, RunInv, SeatInv, Backed, RepeatIsHeld
<1> QED
  BY <1>1, LaunchHolds, PTL

(* The output a run selected is one that is still there under the name     *)
(* --output gave, and every surface of such a run was put on a selected    *)
(* output, unless that one was unplugged: however outputs come, are named  *)
(* and go, and whatever memory or roundtrip fails.                         *)
THEOREM AskedOutput == LaunchSpec => []OutputAsked
<1>1. LaunchInv => OutputAsked
  BY RunInvSuffices DEF LaunchInv
<1> QED
  BY <1>1, LaunchHolds, PTL

(* Wherever the start fails, and whatever events came before: the end      *)
(* releases nothing that something still needs, and leaves nothing.        *)
THEOREM TakenDown == LaunchSpec => []TornDown
<1>1. LaunchInv => TornDown
  BY RunInvSuffices DEF LaunchInv
<1> QED
  BY <1>1, LaunchHolds, PTL
=============================================================================
