------------------------------ MODULE MCCards -------------------------------
(***************************************************************************)
(* Small instances of Cards: one receipt, whose draft may say two things.  *)
(***************************************************************************)
EXTENDS Cards

CONSTANTS r1, d1, d2

Calm == [crashes |-> FALSE, editsFail |-> FALSE, photosFail |-> FALSE, tapsFail |-> FALSE,
         says |-> {d1, d2}, inbox |-> 1, cards |-> 1, expenses |-> 2]

\* One card, a user who waits for each answer, crashes at any point.
OneCard == [Calm EXCEPT !.crashes = TRUE]

\* Three cards of one receipt, a user who waits, photos and taps that fail.
ManyCards == [Calm EXCEPT !.photosFail = TRUE, !.tapsFail = TRUE, !.cards = 3]

\* Crashes at any point, edits of messages that fail; the user may act twice
\* before the bot answers.
Impatient ==
  [Calm EXCEPT !.crashes = TRUE, !.editsFail = TRUE, !.says = {d1},
                 !.inbox = 2, !.cards = 2, !.expenses = 1]

MCWorlds == {OneCard, ManyCards, Impatient}

\* A user who waits, with two cards; the bot may crash.
MCStrandedWorlds == {[OneCard EXCEPT !.cards = 2, !.expenses = 1]}
=============================================================================
