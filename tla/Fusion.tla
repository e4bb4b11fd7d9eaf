------------------------------- MODULE Fusion -------------------------------
(***************************************************************************)
(* Hybrid search: the trigram hits and the vector hits, each a ranked list *)
(* without repetition, become one list by Reciprocal Rank Fusion.          *)
(*                                                                         *)
(* Source: internal/command/command.go; the lists are those of             *)
(* internal/store/embeddings.go.                                           *)
(***************************************************************************)
EXTENDS Integers, FiniteSets, Sequences

CONSTANTS
  RrfK,     \* rrfK (60)
  Limit     \* how long each list and the answer may be (5)

\* What the weights need for the promise that a hit in both lists comes first.
ASSUME FusionAssumption == RrfK \in Nat /\ Limit \in Nat \ {0} /\ Limit < RrfK + 2

ToIds(list) == {list[i] : i \in DOMAIN list}

\* What the queries return: no hit twice, and no more than their limit.
IsList(list) ==
  /\ list \in Seq(ToIds(list)) /\ Len(list) <= Limit
  /\ \A i, j \in 1..Len(list) : list[i] = list[j] => i = j

Rank(list, id) == CHOOSE i \in DOMAIN list : list[i] = id

\* 1 / (rrfK + rank), once or twice, as a fraction.
One(r) == [num |-> 1, den |-> RrfK + r]
Both(r, s) == [num |-> 2 * RrfK + r + s, den |-> (RrfK + r) * (RrfK + s)]
Above(a, b) == a.num * b.den > b.num * a.den

Score(trgm, vec, id) ==
  IF id \in ToIds(trgm) \cap ToIds(vec) THEN Both(Rank(trgm, id), Rank(vec, id))
  ELSE IF id \in ToIds(trgm) THEN One(Rank(trgm, id))
  ELSE One(Rank(vec, id))

\* The order in which fuse meets the hits: the trigram list, then the others.
Met(trgm, vec, id) ==
  IF id \in ToIds(trgm) THEN Rank(trgm, id) ELSE Len(trgm) + Rank(vec, id)

\* Only the first `near` vector hits are within vecCutoff.
Kept(trgm, vec, near) == ToIds(trgm) \cup {vec[i] : i \in 1..near}

\* Mutant: the later of equals comes first.
LaterFirst(trgm, vec, a, b) ==
  \/ Above(Score(trgm, vec, a), Score(trgm, vec, b))
  \/ /\ ~Above(Score(trgm, vec, b), Score(trgm, vec, a))
     /\ Met(trgm, vec, a) > Met(trgm, vec, b)

\* The stable sort by falling score.
Ahead(trgm, vec, a, b) ==
  \/ Above(Score(trgm, vec, a), Score(trgm, vec, b))
  \/ /\ ~Above(Score(trgm, vec, b), Score(trgm, vec, a))
     /\ Met(trgm, vec, a) < Met(trgm, vec, b)

Place(trgm, vec, near, id) ==
  1 + Cardinality({other \in Kept(trgm, vec, near) : Ahead(trgm, vec, other, id)})

\* The answer: the hits that are shown and their places.
Fuse(trgm, vec, near) ==
  LET place == [id \in Kept(trgm, vec, near) |-> Place(trgm, vec, near, id)]
  IN  [id \in {h \in DOMAIN place : place[h] <= Limit} |-> place[id]]

-----------------------------------------------------------------------------
\* "a hit in both lists always outranks a single-list hit, and a tie keeps the
\* trigram hit first".
LiteralFirst(trgm, vec, near) ==
  LET shown == Fuse(trgm, vec, near)
      both == ToIds(trgm) \cap ToIds(vec)
      kept == Kept(trgm, vec, near)
  IN  /\ \A b \in both : \A s \in kept \ both :
           s \in DOMAIN shown => b \in DOMAIN shown /\ shown[b] < shown[s]
      /\ \A t \in ToIds(trgm) \ both : \A v \in kept \ ToIds(trgm) :
           Rank(trgm, t) <= Rank(vec, v) /\ v \in DOMAIN shown =>
             t \in DOMAIN shown /\ shown[t] < shown[v]

\* The answer is one list, of all the hits that count, up to its limit.
OneList(trgm, vec, near) ==
  LET shown == Fuse(trgm, vec, near)
      kept == Kept(trgm, vec, near)
  IN  /\ {shown[h] : h \in DOMAIN shown} = 1..Cardinality(DOMAIN shown)
      /\ Cardinality(DOMAIN shown) = IF Cardinality(kept) > Limit THEN Limit ELSE Cardinality(kept)
=============================================================================
