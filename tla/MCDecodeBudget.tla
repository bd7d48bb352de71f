--------------------------- MODULE MCDecodeBudget ---------------------------
EXTENDS DecodeBudget

(* Budget 4, limit 8: two decodes of 2 fill the budget exactly and a third *)
(* one waits, 6 is oversized and must run alone, 9 is refused outright.    *)
MCSizes == {2, 6, 9}
=============================================================================
