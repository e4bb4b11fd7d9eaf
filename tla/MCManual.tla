------------------------------ MODULE MCManual ------------------------------
(* Two updates: an expense twice, an expense and what is done to its card.     *)
EXTENDS ManualExpenses

\* Some of the troubles at a time: all at once is beyond a small instance.
MCWorlds == {{"clock"}, {"faults", "errors"}, {"shell", "errors"}}
=============================================================================
