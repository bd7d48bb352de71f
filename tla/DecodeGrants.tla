---------------------------- MODULE DecodeGrants ----------------------------
(***************************************************************************)
(* What the decode budget promises, without the mutex, the condition       *)
(* variable and the stop flags: memory is handed to a decode in one piece, *)
(* beside the running ones only while everything fits, and an oversized    *)
(* decode only when it runs alone; it comes back in one piece.             *)
(***************************************************************************)
EXTENDS Integers

CONSTANT DECODE_BUDGET \* bytes all running decodes may hold together

Workers == 1 .. 4

VARIABLE granted \* granted[w]: the bytes w's running decode was promised

Total == granted[1] + granted[2] + granted[3] + granted[4]

Init == granted = [w \in Workers |-> 0]

Admit(w) ==
  /\ granted[w] = 0
  /\ granted'[w] \in Nat
  /\ Total = 0 \/ Total + granted'[w] <= DECODE_BUDGET
  /\ granted' = [granted EXCEPT ![w] = granted'[w]]

Return(w) == granted' = [granted EXCEPT ![w] = 0]

Next == \E w \in Workers : Admit(w) \/ Return(w)

Spec == Init /\ [][Next]_granted
=============================================================================
