----------------------------- MODULE MCReceipts -----------------------------
(***************************************************************************)
(* Small instances of Receipts: one printed name that the normaliser       *)
(* shortens, one name a user may type, two totals and a refund.            *)
(***************************************************************************)
EXTENDS Receipts, TLC

CONSTANTS r1, r2, cli, printed, short, typed, a1, a2, refund

MCNames == {printed, short, typed}
MCAmounts == {a1, a2, refund}
MCCanon == [n \in MCNames |-> IF n = printed THEN short ELSE n]

Read(name, amount) ==
  [merchant |-> name, merchant_canon |-> Illegible, amount |-> amount]

\* A good reading, and one without merchant and with a total that is refused.
MCTwoReadings == {Read(printed, a2), Read(Illegible, refund)}

Patch(field, value) == [f \in {field} |-> value]
\* A rename, and a total: a correction of the second reading, but not of the first.
MCTwoPatches == {Patch("merchant_canon", typed), Patch("amount", a2)}
\* The least that makes a draft readable, unreadable and readable again.
MCOneReading == {Read(printed, a1)}
MCBreakingPatches == {Patch("amount", Illegible), Patch("amount", a1),
                      Patch("merchant_canon", typed)}
MCSymmetry == Permutations({r1, r2})
=============================================================================
