----------------------------- MODULE MCExpenses -----------------------------
(***************************************************************************)
(* Small instances of Expenses: a currency with cents and one without, a   *)
(* total that is an amount in both and one that is an amount in pesos      *)
(* only, a name that the normaliser shortens and one that a user may type. *)
(***************************************************************************)
EXTENDS Expenses

CONSTANTS t1, t2, bot, cli, rerule, printed, short, typed, MXN, JPY

MCNames == {printed, short, typed}
MCCanon == [n \in MCNames |-> IF n = printed THEN short ELSE n]
MCExponent == [c \in {MXN, JPY} |-> IF c = MXN THEN 2 ELSE 0]

Three == [digits |-> 3, decimals |-> 0]
ThreeAndAHalf == [digits |-> 35, decimals |-> 1]
MCTotals == {Three, ThreeAndAHalf}

MCCorrections ==
  {[f \in {"total"} |-> Three], [f \in {"total"} |-> ThreeAndAHalf],
   [f \in {"currency"} |-> JPY],
   [f \in {"currency", "total"} |-> IF f = "total" THEN Three ELSE JPY],
   [f \in {"currency", "total"} |-> IF f = "total" THEN Three ELSE MXN],
   [f \in {"merchant"} |-> typed]}
=============================================================================
