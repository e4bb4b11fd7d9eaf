--------------------------- MODULE MCSearchIndex ---------------------------
(***************************************************************************)
(* Small instances of SearchIndex: a ticket with one line, two texts an    *)
(* expense may have, one line the model may write besides none, and a      *)
(* release with another prompt or embedding model.                         *)
(***************************************************************************)
EXTENDS SearchIndex

CONSTANTS t1, i1, bot, reembed, older, newer

MCOwner == [i \in Items |-> t1]

\* reembed is of the release that is being deployed, the bot is not yet.
Deploying == [p \in {bot, reembed} |-> IF p = bot THEN older ELSE newer]
Deployed == [p \in {bot, reembed} |-> newer]
=============================================================================
