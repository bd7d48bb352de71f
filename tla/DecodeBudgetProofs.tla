------------------------- MODULE DecodeBudgetProofs -------------------------
(***************************************************************************)
(* Proofs about DecodeBudget, for every budget, every decode limit and     *)
(* every set of decode sizes.                                              *)
(***************************************************************************)
EXTENDS DecodeBudget, TLAPS

(* The inductive invariant: what the counter is, who may pass the budget,  *)
(* and that a sleeper's loop condition holds.  OnlyDecodersHold is needed  *)
(* for Grant, which adds to a ticket that must be empty.                   *)
IInv ==
  /\ TypeOK
  /\ OnlyDecodersHold
  /\ Conservation
  /\ OversizedRunsAlone
  /\ NoStrandedWaiter

-----------------------------------------------------------------------------
(* Arithmetic, over constants.                                             *)

(* Four naturals that sum to nothing are nothing.                          *)
LEMMA FourZero ==
  ASSUME NEW a \in Nat, NEW b \in Nat, NEW c \in Nat, NEW d \in Nat, a + b + c + d = 0
  PROVE  a = 0 /\ b = 0 /\ c = 0 /\ d = 0
OBVIOUS

(* A size that has to wait beside y bytes has to wait beside z >= y bytes. *)
LEMMA WaitGrows ==
  ASSUME NEW y \in Nat, NEW z \in Nat, NEW B \in Nat, NEW n \in Nat,
         z >= y, y > B \/ n > B - y
  PROVE  z > B \/ n > B - z
OBVIOUS

(* A size that need not wait beside y > 0 bytes fits with them.            *)
LEMMA FitsBeside ==
  ASSUME NEW y \in Nat, NEW B \in Nat, NEW n \in Nat, ~(y > B \/ n > B - y)
  PROVE  ~(y + n > B)
OBVIOUS

(* The sum of the tickets is a natural number that no ticket exceeds.      *)
LEMMA SumType ==
  ASSUME NEW f \in [Workers -> Nat]
  PROVE  SumOf(f) \in Nat /\ \A v \in Workers : f[v] <= SumOf(f)
<1>1. Workers = {1, 2, 3, 4}
  BY DEF Workers, MAX_WORKERS
<1>2. PICK a \in Nat, b \in Nat, c \in Nat, d \in Nat :
        f[1] = a /\ f[2] = b /\ f[3] = c /\ f[4] = d
  BY <1>1
<1>3. SumOf(f) = a + b + c + d
  BY <1>2 DEF SumOf
<1>4. a + b + c + d \in Nat
  OBVIOUS
<1>5. a <= a + b + c + d /\ b <= a + b + c + d /\ c <= a + b + c + d /\ d <= a + b + c + d
  OBVIOUS
<1> QED
  BY <1>1, <1>2, <1>3, <1>4, <1>5

(* Tickets that sum to nothing are empty.                                  *)
LEMMA SumZero ==
  ASSUME NEW f \in [Workers -> Nat], SumOf(f) = 0
  PROVE  \A v \in Workers : f[v] = 0
<1>1. Workers = {1, 2, 3, 4}
  BY DEF Workers, MAX_WORKERS
<1>2. PICK a \in Nat, b \in Nat, c \in Nat, d \in Nat :
        f[1] = a /\ f[2] = b /\ f[3] = c /\ f[4] = d
  BY <1>1
<1>3. a + b + c + d = 0
  BY <1>2 DEF SumOf
<1>4. a = 0 /\ b = 0 /\ c = 0 /\ d = 0
  BY <1>3, FourZero
<1> QED
  BY <1>1, <1>2, <1>4

(* Changing one ticket changes the sum by the difference.                  *)
LEMMA SumUpdate ==
  ASSUME NEW f \in [Workers -> Nat], NEW w \in Workers, NEW n \in Nat
  PROVE  /\ [f EXCEPT ![w] = n] \in [Workers -> Nat]
         /\ SumOf([f EXCEPT ![w] = n]) = SumOf(f) - f[w] + n
<1> DEFINE g == [f EXCEPT ![w] = n]
<1>1. Workers = {1, 2, 3, 4}
  BY DEF Workers, MAX_WORKERS
<1>2. PICK a \in Nat, b \in Nat, c \in Nat, d \in Nat :
        f[1] = a /\ f[2] = b /\ f[3] = c /\ f[4] = d
  BY <1>1
<1>3. SumOf(f) = a + b + c + d
  BY <1>2 DEF SumOf
<1>4. g \in [Workers -> Nat]
  OBVIOUS
<1>5. CASE w = 1
  <2>1. g[1] = n /\ g[2] = b /\ g[3] = c /\ g[4] = d
    BY <1>1, <1>2, <1>5
  <2>2. SumOf(g) = n + b + c + d
    BY <2>1 DEF SumOf
  <2>3. n + b + c + d = (a + b + c + d) - a + n
    OBVIOUS
  <2> QED
    BY <1>2, <1>3, <1>4, <1>5, <2>2, <2>3
<1>6. CASE w = 2
  <2>1. g[1] = a /\ g[2] = n /\ g[3] = c /\ g[4] = d
    BY <1>1, <1>2, <1>6
  <2>2. SumOf(g) = a + n + c + d
    BY <2>1 DEF SumOf
  <2>3. a + n + c + d = (a + b + c + d) - b + n
    OBVIOUS
  <2> QED
    BY <1>2, <1>3, <1>4, <1>6, <2>2, <2>3
<1>7. CASE w = 3
  <2>1. g[1] = a /\ g[2] = b /\ g[3] = n /\ g[4] = d
    BY <1>1, <1>2, <1>7
  <2>2. SumOf(g) = a + b + n + d
    BY <2>1 DEF SumOf
  <2>3. a + b + n + d = (a + b + c + d) - c + n
    OBVIOUS
  <2> QED
    BY <1>2, <1>3, <1>4, <1>7, <2>2, <2>3
<1>8. CASE w = 4
  <2>1. g[1] = a /\ g[2] = b /\ g[3] = c /\ g[4] = n
    BY <1>1, <1>2, <1>8
  <2>2. SumOf(g) = a + b + c + n
    BY <2>1 DEF SumOf
  <2>3. a + b + c + n = (a + b + c + d) - d + n
    OBVIOUS
  <2> QED
    BY <1>2, <1>3, <1>4, <1>8, <2>2, <2>3
<1> QED
  BY <1>1, <1>5, <1>6, <1>7, <1>8

-----------------------------------------------------------------------------
(* The condition variable.                                                 *)

(* After a broadcast nobody sleeps, and only sleepers moved.               *)
LEMMA BroadcastWakes ==
  ASSUME NEW st \in [Workers -> Stages]
  PROVE  /\ Broadcast(st) \in [Workers -> Stages]
         /\ \A v \in Workers : /\ Broadcast(st)[v] # "waiting"
                               /\ Broadcast(st)[v] = "decoding" <=> st[v] = "decoding"
BY DEF Broadcast, Stages

(* Steps that take no bytes away and leave the flag and the size of every  *)
(* sleeper but w alone keep the sleepers' loop conditions.                 *)
LEMMA SleepersKept ==
  ASSUME TypeOK, TypeOK', NoStrandedWaiter, NEW w \in Workers,
         decode_bytes' >= decode_bytes,
         \A v \in Workers \ {w} : stage'[v] = "waiting" =>
            stage[v] = "waiting" /\ stop'[v] = stop[v] /\ want'[v] = want[v]
  PROVE  \A v \in Workers \ {w} : stage'[v] = "waiting" => MustWait(v, want[v])'
<1> SUFFICES ASSUME NEW v \in Workers \ {w}, stage'[v] = "waiting"
             PROVE  MustWait(v, want[v])'
  OBVIOUS
<1>1. stage[v] = "waiting" /\ stop'[v] = stop[v] /\ want'[v] = want[v]
  OBVIOUS
<1>2. PICK y \in Nat, z \in Nat, n \in Nat : y = decode_bytes /\ z = decode_bytes' /\ n = want[v]
  BY DEF TypeOK
<1>3. y > 0 /\ ~stop[v] /\ (y > DECODE_BUDGET \/ n > DECODE_BUDGET - y)
  BY <1>1, <1>2 DEF NoStrandedWaiter, MustWait
<1>4. z >= y
  BY <1>2
<1>5. z > 0
  BY <1>3, <1>4
<1>6. z > DECODE_BUDGET \/ n > DECODE_BUDGET - z
  BY <1>3, <1>4, WaitGrows, BudgetAssumption
<1>7. ~stop'[v]
  BY <1>1, <1>3
<1> QED
  BY <1>1, <1>2, <1>5, <1>6, <1>7 DEF MustWait

-----------------------------------------------------------------------------
(* The initial states.                                                     *)
LEMMA InitIInv == Init => IInv
<1> SUFFICES ASSUME Init PROVE IInv
  OBVIOUS
<1>1. TypeOK
  BY DEF Init, TypeOK, Stages
<1>2. OnlyDecodersHold
  BY DEF Init, OnlyDecodersHold
<1>3. Conservation
  BY DEF Init, Conservation, SumOf, Workers, MAX_WORKERS
<1>4. OversizedRunsAlone
  BY BudgetAssumption DEF Init, OversizedRunsAlone
<1>5. NoStrandedWaiter
  BY DEF Init, NoStrandedWaiter
<1> QED
  BY <1>1, <1>2, <1>3, <1>4, <1>5 DEF IInv

(* Steps that move no bytes: the three statements about the tickets stay.  *)
LEMMA TicketsKept ==
  ASSUME IInv, UNCHANGED <<decode_bytes, held>>,
         \A v \in Workers : stage[v] = "decoding" /\ held[v] > 0 => stage'[v] = "decoding"
  PROVE  OnlyDecodersHold' /\ Conservation' /\ OversizedRunsAlone'
BY DEF IInv, OnlyDecodersHold, Conservation, OversizedRunsAlone, SumOf

LEMMA OpenKeeps == ASSUME IInv, NEW w \in Workers, Open(w) PROVE IInv'
<1> USE DEF Open, OpenStep
<1>1. TypeOK'
  BY DEF IInv, TypeOK, Stages
<1>2. OnlyDecodersHold' /\ Conservation' /\ OversizedRunsAlone'
  BY TicketsKept DEF IInv, TypeOK
<1>3. decode_bytes' >= decode_bytes
  BY DEF IInv, TypeOK
<1>4. \A v \in Workers \ {w} : stage'[v] = "waiting" =>
         stage[v] = "waiting" /\ stop'[v] = stop[v] /\ want'[v] = want[v]
  BY DEF IInv, TypeOK
<1>5. stage'[w] # "waiting"
  BY DEF IInv, TypeOK
<1>6. NoStrandedWaiter'
  BY <1>1, <1>3, <1>4, <1>5, SleepersKept DEF IInv, NoStrandedWaiter
<1> QED
  BY <1>1, <1>2, <1>6 DEF IInv

LEMMA RefuseOversizeKeeps ==
  ASSUME IInv, NEW w \in Workers, NEW bytes \in Sizes, RefuseOversize(w, bytes), UNCHANGED stop
  PROVE  IInv'
<1> USE DEF RefuseOversize
<1>1. TypeOK'
  BY DEF IInv, TypeOK, Stages
<1>2. OnlyDecodersHold' /\ Conservation' /\ OversizedRunsAlone'
  BY TicketsKept DEF IInv, TypeOK
<1>3. decode_bytes' >= decode_bytes
  BY DEF IInv, TypeOK
<1>4. \A v \in Workers \ {w} : stage'[v] = "waiting" =>
         stage[v] = "waiting" /\ stop'[v] = stop[v] /\ want'[v] = want[v]
  BY DEF IInv, TypeOK
<1>5. stage'[w] # "waiting"
  BY DEF IInv, TypeOK
<1>6. NoStrandedWaiter'
  BY <1>1, <1>3, <1>4, <1>5, SleepersKept DEF IInv, NoStrandedWaiter
<1> QED
  BY <1>1, <1>2, <1>6 DEF IInv

(* The worker that goes to sleep has just evaluated its loop condition.    *)
LEMMA SleepKeeps ==
  ASSUME IInv, NEW w \in Workers, NEW bytes \in Sizes, Sleep(w, bytes), UNCHANGED stop
  PROVE  IInv'
<1> USE DEF Sleep
<1>1. bytes \in Nat
  BY SizesAssumption
<1>2. TypeOK'
  BY <1>1 DEF IInv, TypeOK, Stages
<1>3. stage[w] # "decoding"
  BY DEF Asks
<1>4. OnlyDecodersHold' /\ Conservation' /\ OversizedRunsAlone'
  BY <1>3, TicketsKept DEF IInv, TypeOK
<1>5. decode_bytes' >= decode_bytes
  BY DEF IInv, TypeOK
<1>6. \A v \in Workers \ {w} : stage'[v] = "waiting" =>
         stage[v] = "waiting" /\ stop'[v] = stop[v] /\ want'[v] = want[v]
  BY DEF IInv, TypeOK
<1>7. MustWait(w, want[w])'
  <2>1. want'[w] = bytes /\ stop'[w] = stop[w] /\ decode_bytes' = decode_bytes
    BY DEF IInv, TypeOK
  <2> QED
    BY <2>1 DEF MustWait
<1>8. NoStrandedWaiter'
  BY <1>2, <1>5, <1>6, <1>7, SleepersKept DEF IInv, NoStrandedWaiter
<1> QED
  BY <1>2, <1>4, <1>8 DEF IInv

(* The heart of the admission rule: either nobody held anything and the    *)
(* new decode runs alone, or everything fits together.                     *)
LEMMA GrantKeeps ==
  ASSUME IInv, NEW w \in Workers, NEW bytes \in Sizes, Grant(w, bytes), UNCHANGED stop
  PROVE  IInv'
<1>1. bytes \in Nat
  BY SizesAssumption
<1>2. stage[w] \in {"open", "woken"}
  BY DEF Grant, Asks
<1>3. held[w] = 0
  BY <1>2 DEF IInv, OnlyDecodersHold, TypeOK
<1>4. PICK y \in Nat : y = decode_bytes
  BY DEF IInv, TypeOK
<1>5. decode_bytes' = y + bytes
  BY <1>4 DEF Grant
<1>6. held' = [held EXCEPT ![w] = bytes]
  BY <1>1, <1>3 DEF Grant, IInv, TypeOK
<1>7. held' \in [Workers -> Nat] /\ SumOf(held)' = y - 0 + bytes
  BY <1>1, <1>3, <1>4, <1>6, SumUpdate DEF IInv, TypeOK, Conservation, SumOf
<1>8. y + bytes \in Nat /\ y - 0 + bytes = y + bytes /\ y + bytes >= y
  BY <1>1
<1>9. stage' = [stage EXCEPT ![w] = "decoding"] /\ want' = [want EXCEPT ![w] = 0] /\ stop' = stop
  BY DEF Grant
<1>10. TypeOK'
  BY <1>5, <1>7, <1>8, <1>9 DEF IInv, TypeOK, Stages
<1>11. OnlyDecodersHold'
  BY <1>6, <1>9 DEF IInv, OnlyDecodersHold, TypeOK
<1>12. Conservation'
  BY <1>5, <1>7, <1>8 DEF Conservation
<1>13. OversizedRunsAlone'
  <2>1. CASE y = 0
    <3>1. \A v \in Workers : held[v] = 0
      BY <1>4, <2>1, SumZero DEF IInv, TypeOK, Conservation
    <3>2. held'[w] = bytes /\ \A v \in Workers \ {w} : held'[v] = 0
      BY <1>6, <3>1 DEF IInv, TypeOK
    <3>3. decode_bytes' = bytes
      BY <1>1, <1>5, <2>1
    <3> QED
      BY <3>2, <3>3 DEF OversizedRunsAlone
  <2>2. CASE y # 0
    <3>1. y > 0
      BY <2>2
    <3>2. ~(y > DECODE_BUDGET \/ bytes > DECODE_BUDGET - y)
      BY <1>4, <3>1 DEF Grant, MustWait
    <3>3. ~(y + bytes > DECODE_BUDGET)
      BY <1>1, <3>2, FitsBeside, BudgetAssumption
    <3>4. ~(decode_bytes' > DECODE_BUDGET)
      BY <1>5, <3>3
    <3> QED
      BY <3>4 DEF OversizedRunsAlone
  <2> QED
    BY <2>1, <2>2
<1>14. NoStrandedWaiter'
  <2>1. decode_bytes' >= decode_bytes
    BY <1>4, <1>5, <1>8
  <2>2. \A v \in Workers \ {w} : stage'[v] = "waiting" =>
           stage[v] = "waiting" /\ stop'[v] = stop[v] /\ want'[v] = want[v]
    BY <1>9 DEF IInv, TypeOK
  <2>3. stage'[w] # "waiting"
    BY <1>9 DEF IInv, TypeOK
  <2> QED
    BY <1>10, <2>1, <2>2, <2>3, SleepersKept DEF IInv, NoStrandedWaiter
<1> QED
  BY <1>10, <1>11, <1>12, <1>13, <1>14 DEF IInv

LEMMA RefuseKeeps ==
  ASSUME IInv, NEW w \in Workers, NEW bytes \in Sizes, Refuse(w, bytes), UNCHANGED stop
  PROVE  IInv'
<1> USE DEF Refuse
<1>1. TypeOK'
  BY DEF IInv, TypeOK, Stages
<1>2. stage[w] # "decoding"
  BY DEF Asks
<1>3. OnlyDecodersHold' /\ Conservation' /\ OversizedRunsAlone'
  BY <1>2, TicketsKept DEF IInv, TypeOK
<1>4. decode_bytes' >= decode_bytes
  BY DEF IInv, TypeOK
<1>5. \A v \in Workers \ {w} : stage'[v] = "waiting" =>
         stage[v] = "waiting" /\ stop'[v] = stop[v] /\ want'[v] = want[v]
  BY DEF IInv, TypeOK
<1>6. stage'[w] # "waiting"
  BY DEF IInv, TypeOK
<1>7. NoStrandedWaiter'
  BY <1>1, <1>4, <1>5, <1>6, SleepersKept DEF IInv, NoStrandedWaiter
<1> QED
  BY <1>1, <1>3, <1>7 DEF IInv

LEMMA ReserveKeeps == ASSUME IInv, NEW w \in Workers, Reserve(w) PROVE IInv'
<1>1. PICK bytes \in Sizes : ReserveStep(w, bytes) /\ UNCHANGED stop
  BY DEF Reserve
<1>2. CASE RefuseOversize(w, bytes)
  BY <1>1, <1>2, RefuseOversizeKeeps
<1>3. CASE Sleep(w, bytes)
  BY <1>1, <1>3, SleepKeeps
<1>4. CASE Grant(w, bytes)
  BY <1>1, <1>4, GrantKeeps
<1>5. CASE Refuse(w, bytes)
  BY <1>1, <1>5, RefuseKeeps
<1> QED
  BY <1>1, <1>2, <1>3, <1>4, <1>5 DEF ReserveStep

(* A release that gives bytes back also wakes every sleeper; one that      *)
(* gives none back may leave them asleep.  With bytes given back the       *)
(* budget cannot still be passed: an oversized decode held all of it.      *)
LEMMA ReleaseKeeps == ASSUME IInv, NEW w \in Workers, Release(w) PROVE IInv'
<1> DEFINE closed == [stage EXCEPT ![w] = "off"]
<1>1. closed \in [Workers -> Stages]
  BY DEF IInv, TypeOK, Stages
<1>2. want' = want /\ stop' = [stop EXCEPT ![w] = FALSE]
  BY DEF Release, ReleaseStep
<1>3. CASE held[w] = 0
  <2>1. stage' = closed /\ decode_bytes' = decode_bytes /\ held' = held
    BY <1>3 DEF Release, ReleaseStep
  <2>2. TypeOK'
    BY <1>1, <1>2, <2>1 DEF IInv, TypeOK
  <2>3. \A v \in Workers : stage[v] = "decoding" /\ held[v] > 0 => stage'[v] = "decoding"
    <3> SUFFICES ASSUME NEW v \in Workers, stage[v] = "decoding", held[v] > 0
                 PROVE  stage'[v] = "decoding"
      OBVIOUS
    <3>1. v # w
      BY <1>3
    <3> QED
      BY <2>1, <3>1 DEF IInv, TypeOK
  <2>4. OnlyDecodersHold' /\ Conservation' /\ OversizedRunsAlone'
    BY <2>1, <2>3, TicketsKept
  <2>5. decode_bytes' >= decode_bytes
    BY <2>1 DEF IInv, TypeOK
  <2>6. \A v \in Workers \ {w} : stage'[v] = "waiting" =>
           stage[v] = "waiting" /\ stop'[v] = stop[v] /\ want'[v] = want[v]
    BY <1>2, <2>1 DEF IInv, TypeOK
  <2>7. stage'[w] # "waiting"
    BY <2>1 DEF IInv, TypeOK
  <2>8. NoStrandedWaiter'
    BY <2>2, <2>5, <2>6, <2>7, SleepersKept DEF IInv, NoStrandedWaiter
  <2> QED
    BY <2>2, <2>4, <2>8 DEF IInv
<1>4. CASE held[w] # 0
  <2>1. PICK y \in Nat, h \in Nat : y = decode_bytes /\ h = held[w]
    BY DEF IInv, TypeOK
  <2>2. stage' = Broadcast(closed) /\ decode_bytes' = y - h /\ held' = [held EXCEPT ![w] = 0]
    BY <1>4, <2>1 DEF Release, ReleaseStep
  <2>3. h <= y
    BY <2>1, SumType DEF IInv, TypeOK, Conservation
  <2>4. y - h \in Nat /\ y - h + 0 = y - h /\ h > 0
    BY <1>4, <2>1, <2>3
  <2>5. held' \in [Workers -> Nat] /\ SumOf(held)' = y - h + 0
    BY <2>1, <2>2, SumUpdate DEF IInv, TypeOK, Conservation, SumOf
  <2>6. /\ stage' \in [Workers -> Stages]
        /\ \A v \in Workers : stage'[v] # "waiting" /\ (stage'[v] = "decoding" <=> closed[v] = "decoding")
    BY <1>1, <2>2, BroadcastWakes
  <2>7. TypeOK'
    BY <1>2, <2>2, <2>4, <2>5, <2>6 DEF IInv, TypeOK
  <2>8. OnlyDecodersHold'
    <3> SUFFICES ASSUME NEW v \in Workers, held'[v] > 0
                 PROVE  stage'[v] = "decoding"
      BY DEF OnlyDecodersHold
    <3>1. v # w /\ held[v] > 0
      BY <2>2 DEF IInv, TypeOK
    <3>2. closed[v] = "decoding"
      BY <3>1 DEF IInv, TypeOK, OnlyDecodersHold
    <3> QED
      BY <2>6, <3>2
  <2>9. Conservation'
    BY <2>2, <2>4, <2>5 DEF Conservation
  <2>10. OversizedRunsAlone'
    <3>1. ASSUME y - h > DECODE_BUDGET PROVE FALSE
      <4>1. y > DECODE_BUDGET
        BY <2>4, <3>1, BudgetAssumption
      <4>2. PICK u \in Workers : held[u] = y /\ \A v \in Workers \ {u} : held[v] = 0
        BY <2>1, <4>1 DEF IInv, OversizedRunsAlone
      <4>3. u = w
        BY <1>4, <4>2
      <4>4. h = y
        BY <2>1, <4>2, <4>3
      <4>5. y - h = 0
        BY <4>4
      <4> QED
        BY <3>1, <4>5, BudgetAssumption
    <3>2. ~(decode_bytes' > DECODE_BUDGET)
      BY <2>2, <3>1
    <3> QED
      BY <3>2 DEF OversizedRunsAlone
  <2>11. NoStrandedWaiter'
    BY <2>6 DEF NoStrandedWaiter
  <2> QED
    BY <2>7, <2>8, <2>9, <2>10, <2>11 DEF IInv
<1> QED
  BY <1>3, <1>4

LEMMA SpuriousWakeKeeps == ASSUME IInv, NEW w \in Workers, SpuriousWake(w) PROVE IInv'
<1> USE DEF SpuriousWake, SpuriousStep
<1>1. TypeOK'
  BY DEF IInv, TypeOK, Stages
<1>2. OnlyDecodersHold' /\ Conservation' /\ OversizedRunsAlone'
  BY TicketsKept DEF IInv, TypeOK
<1>3. decode_bytes' >= decode_bytes
  BY DEF IInv, TypeOK
<1>4. \A v \in Workers \ {w} : stage'[v] = "waiting" =>
         stage[v] = "waiting" /\ stop'[v] = stop[v] /\ want'[v] = want[v]
  BY DEF IInv, TypeOK
<1>5. stage'[w] # "waiting"
  BY DEF IInv, TypeOK
<1>6. NoStrandedWaiter'
  BY <1>1, <1>3, <1>4, <1>5, SleepersKept DEF IInv, NoStrandedWaiter
<1> QED
  BY <1>1, <1>2, <1>6 DEF IInv

(* The flag of a sleeper goes up only together with the broadcast.         *)
LEMMA RaiseStopKeeps == ASSUME IInv, NEW S \in SUBSET Workers, RaiseStop(S) PROVE IInv'
<1>1. /\ stage' \in [Workers -> Stages]
      /\ \A v \in Workers : stage'[v] # "waiting" /\ (stage'[v] = "decoding" <=> stage[v] = "decoding")
  BY BroadcastWakes DEF RaiseStop, IInv, TypeOK
<1>2. \A v \in Workers : (v \in S \/ stop[v]) \in BOOLEAN
  BY DEF IInv, TypeOK
<1>3. stop' \in [Workers -> BOOLEAN]
  BY <1>2 DEF RaiseStop
<1>4. TypeOK'
  BY <1>1, <1>3 DEF RaiseStop, IInv, TypeOK
<1>5. OnlyDecodersHold' /\ Conservation' /\ OversizedRunsAlone'
  BY <1>1, TicketsKept DEF RaiseStop
<1>6. NoStrandedWaiter'
  BY <1>1 DEF NoStrandedWaiter
<1> QED
  BY <1>4, <1>5, <1>6 DEF IInv

LEMMA StutterKeeps == ASSUME IInv, UNCHANGED vars PROVE IInv'
BY DEF IInv, vars, TypeOK, OnlyDecodersHold, Conservation, SumOf, OversizedRunsAlone, NoStrandedWaiter, MustWait

-----------------------------------------------------------------------------
LEMMA NextKeeps == IInv /\ [Next]_vars => IInv'
<1> SUFFICES ASSUME IInv, [Next]_vars PROVE IInv'
  OBVIOUS
<1>1. ASSUME NEW w \in Workers, Open(w) PROVE IInv'
  BY <1>1, OpenKeeps
<1>2. ASSUME NEW w \in Workers, Reserve(w) PROVE IInv'
  BY <1>2, ReserveKeeps
<1>3. ASSUME NEW w \in Workers, Release(w) PROVE IInv'
  BY <1>3, ReleaseKeeps
<1>4. ASSUME NEW w \in Workers, SpuriousWake(w) PROVE IInv'
  BY <1>4, SpuriousWakeKeeps
<1>5. ASSUME NEW S \in SUBSET Workers, RaiseStop(S) PROVE IInv'
  BY <1>5, RaiseStopKeeps
<1>6. CASE UNCHANGED vars
  BY <1>6, StutterKeeps
<1> QED
  BY <1>1, <1>2, <1>3, <1>4, <1>5, <1>6 DEF Next

(* A sleeper's loop condition says somebody holds bytes, and only running  *)
(* decodes do.                                                             *)
LEMMA IInvRunner == IInv => SleeperHasRunner
<1> SUFFICES ASSUME IInv, NEW w \in Workers, stage[w] = "waiting"
             PROVE  \E v \in Workers : stage[v] = "decoding" /\ held[v] > 0
  BY DEF SleeperHasRunner
<1>1. decode_bytes > 0
  BY DEF IInv, NoStrandedWaiter, MustWait
<1>2. PICK v \in Workers : held[v] # 0
  <2>1. CASE \A v \in Workers : held[v] = 0
    <3>1. held[1] = 0 /\ held[2] = 0 /\ held[3] = 0 /\ held[4] = 0
      BY <2>1 DEF Workers, MAX_WORKERS
    <3>2. SumOf(held) = 0
      BY <3>1 DEF SumOf
    <3> QED
      BY <1>1, <3>2 DEF IInv, Conservation
  <2> QED
    BY <2>1
<1>3. held[v] > 0
  BY <1>2 DEF IInv, TypeOK
<1> QED
  BY <1>3 DEF IInv, OnlyDecodersHold

LEMMA Invariance == Spec => []IInv
<1>1. IInv /\ [Next]_vars => IInv'
  BY NextKeeps
<1> QED
  BY InitIInv, <1>1, PTL DEF Spec

(* The type invariant of the budget, for every budget and every set of     *)
(* decode sizes.                                                           *)
THEOREM TypeCorrect == Spec => []TypeOK
BY Invariance, PTL DEF IInv

(* release_decode never takes more from pool->decode_bytes than it holds,  *)
(* and nothing is left in it when no ticket is open.                       *)
THEOREM BudgetConserved == Spec => [](Conservation /\ OnlyDecodersHold)
BY Invariance, PTL DEF IInv

(* The budget is exceeded only by a decode that runs alone.                *)
THEOREM BudgetRespected == Spec => []OversizedRunsAlone
BY Invariance, PTL DEF IInv

(* No wake-up on budget_freed is ever lost, and while somebody sleeps on   *)
(* it a decode that holds what the counter says will signal it.            *)
THEOREM NoLostWakeup == Spec => []SleepersNeedMemory
<1>1. IInv => SleepersNeedMemory
  BY IInvRunner DEF IInv, SleepersNeedMemory
<1> QED
  BY Invariance, <1>1, PTL

-----------------------------------------------------------------------------
(* Refinement: every step of the pool's bookkeeping is an admission, a     *)
(* return or a stutter of DecodeGrants.                                    *)

LEMMA GrantAdmits ==
  ASSUME IInv, NEW w \in Workers, NEW bytes \in Sizes, Grant(w, bytes)
  PROVE  Grants!Admit(w)
<1>1. bytes \in Nat
  BY SizesAssumption
<1>2. stage[w] \in {"open", "woken"}
  BY DEF Grant, Asks
<1>3. held[w] = 0
  BY <1>2 DEF IInv, OnlyDecodersHold, TypeOK
<1>4. PICK y \in Nat : y = decode_bytes
  BY DEF IInv, TypeOK
<1>5. held'[w] = bytes /\ held' = [held EXCEPT ![w] = held'[w]]
  BY <1>1, <1>3 DEF Grant, IInv, TypeOK
<1>6. Grants!Total = y
  BY <1>4 DEF Grants!Total, IInv, Conservation, SumOf
<1>7. y = 0 \/ ~(y + bytes > DECODE_BUDGET)
  <2>1. CASE y # 0
    <3>1. y > 0
      BY <2>1
    <3>2. ~(y > DECODE_BUDGET \/ bytes > DECODE_BUDGET - y)
      BY <1>4, <3>1 DEF Grant, MustWait
    <3> QED
      BY <1>1, <3>2, FitsBeside, BudgetAssumption
  <2> QED
    BY <2>1
<1>8. y = 0 \/ y + bytes <= DECODE_BUDGET
  BY <1>1, <1>7, BudgetAssumption
<1>9. Grants!Total = 0 \/ Grants!Total + held'[w] <= DECODE_BUDGET
  BY <1>5, <1>6, <1>8
<1> QED
  BY <1>1, <1>3, <1>5, <1>9 DEF Grants!Admit

LEMMA StepRefines == IInv /\ [Next]_vars => [Grants!Next]_held
<1> SUFFICES ASSUME IInv, [Next]_vars PROVE Grants!Next \/ UNCHANGED held
  OBVIOUS
<1>1. Grants!Workers = Workers
  BY DEF Grants!Workers, Workers, MAX_WORKERS
<1>2. ASSUME NEW w \in Workers, Open(w) PROVE UNCHANGED held
  BY <1>2 DEF Open, OpenStep
<1>3. ASSUME NEW w \in Workers, Reserve(w) PROVE Grants!Next \/ UNCHANGED held
  <2>1. PICK bytes \in Sizes : ReserveStep(w, bytes)
    BY <1>3 DEF Reserve
  <2>2. CASE Grant(w, bytes)
    BY <1>1, <2>2, GrantAdmits DEF Grants!Next
  <2> QED
    BY <2>1, <2>2 DEF ReserveStep, RefuseOversize, Sleep, Refuse
<1>4. ASSUME NEW w \in Workers, Release(w) PROVE Grants!Next \/ UNCHANGED held
  BY <1>1, <1>4 DEF Release, ReleaseStep, Grants!Next, Grants!Return
<1>5. ASSUME NEW w \in Workers, SpuriousWake(w) PROVE UNCHANGED held
  BY <1>5 DEF SpuriousWake, SpuriousStep
<1>6. ASSUME NEW S \in SUBSET Workers, RaiseStop(S) PROVE UNCHANGED held
  BY <1>6 DEF RaiseStop
<1>7. CASE UNCHANGED vars
  BY <1>7 DEF vars
<1> QED
  BY <1>2, <1>3, <1>4, <1>5, <1>6, <1>7 DEF Next

(* The tickets of the pool implement the admission rule of DecodeGrants.   *)
THEOREM ImplementsGrants == Spec => GrantsSpec
<1>1. Init => Grants!Init
  BY DEF Init, Grants!Init, Grants!Workers, Workers, MAX_WORKERS
<1>2. IInv /\ [Next]_vars => [Grants!Next]_held
  BY StepRefines
<1> QED
  BY Invariance, <1>1, <1>2, PTL DEF Spec, GrantsSpec, Grants!Spec
=============================================================================
