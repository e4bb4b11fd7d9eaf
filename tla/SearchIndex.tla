------------------------------ MODULE SearchIndex ------------------------------
(***************************************************************************)
(* The search index: for every expense a line that a model writes and a    *)
(* vector of its text with that line, for every line of a ticket a vector  *)
(* of its name.                                                            *)
(*                                                                         *)
(* The bot indexes an expense after it saves or corrects it; `finbox       *)
(* reembed` indexes whatever is stale, while the container it replaces is  *)
(* still serving. Each reads what is stored, calls the model for minutes,  *)
(* and writes what it made of what it had read.                            *)
(*                                                                         *)
(* Sources: internal/pipeline/embed.go, internal/store/embeddings.go,      *)
(* cmdReembed in cmd/finbox/search.go, embed in internal/telegram/bot.go.  *)
(***************************************************************************)
EXTENDS Naturals, FiniteSets

CONSTANTS
  Expenses,
  Items,        \* lines of tickets
  Owner,        \* the expense of an item
  Texts,        \* BuildDoc: what a merchant, a category and items come to
  Lines,        \* what the model may answer
  Empty,        \* no line
  Bots,         \* the bot
  Reembeds,     \* `finbox reembed` commands
  Release,      \* the release a process runs: its prompt and its embed.Model
  None,         \* no row, no expense at hand
  Others,       \* whether `finbox edit` and `finbox rerule` change texts, too
  MaxEdits      \* bound: texts that change

Indexers == Bots \cup Reembeds
Releases == {Release[p] : p \in Indexers}

ASSUME OwnerAssumption == Owner \in [Items -> Expenses]
ASSUME EmptyAssumption == Empty \in Lines
ASSUME BoundAssumption == MaxEdits \in Nat
ASSUME NoneAssumption == None \notin Expenses \cup Releases

VARIABLES
  state,    \* an expense: "none" yet, "active" or "voided"
  text,     \* its text now
  line,     \* search_lines: the line and its doc_hash, the LineKey
  vector,   \* transaction_embeddings: model and doc_hash
  itemVec,  \* item_embeddings: model; the name of an item never changes
  job,      \* where each indexer is, and what it has read
  edits,    \* texts changed so far
  indexed,  \* history: indexed with success, and neither changed nor read since
  alone     \* history: indexers that no other one has overlapped

vars == <<state, text, line, vector, itemVec, job, edits, indexed, alone>>

Keys == [release : Releases, text : Texts]
Vectors == [release : Releases, text : Texts, line : Lines]
NoLine == [key |-> None, line |-> Empty]

\* TxnDoc: an expense's current doc next to what is stored.
TxnDoc == [text : Texts, line : Lines, key : Keys \cup {None}, have : Vectors \cup {None}]

Stages == {"idle", "hook", "lines", "write"}
NoJob == [stage |-> "idle", id |-> None, docs |-> << >>, items |-> {}, failed |-> FALSE]

-----------------------------------------------------------------------------
LineKey(p, base) == [release |-> Release[p], text |-> base]

\* Mutant: the doc is compared without its line.
StaleText(p, d) ==
  \/ d.have = None
  \/ d.have # None /\ (d.have.release # Release[p] \/ d.have.text # d.text)

LineStale(p, d) == LineKey(p, d.text) # d.key
Stale(p, d) == d.have # [release |-> Release[p], text |-> d.text, line |-> d.line]

\* What is left of docs: StaleDocs.
StaleDocs(p) == {t \in DOMAIN job[p].docs : Stale(p, job[p].docs[t])}

Init ==
  /\ state = [t \in Expenses |-> "none"]
  /\ text \in [Expenses -> Texts]
  /\ line = [t \in Expenses |-> NoLine]
  /\ vector = [t \in Expenses |-> None]
  /\ itemVec = [i \in Items |-> None]
  /\ job = [p \in Indexers |-> NoJob]
  /\ edits = 0
  /\ indexed = {}
  /\ alone = {}

-----------------------------------------------------------------------------
(***************************************************************************)
(* The expenses. The bot saves or corrects, renders the card, and indexes  *)
(* before it takes the next update; nobody else indexes what they change.  *)
(***************************************************************************)
Hook(b, t) ==
  /\ job[b].stage = "idle"
  /\ job' = [job EXCEPT ![b] = [NoJob EXCEPT !.stage = "hook", !.id = t]]

Retext(t, txt) ==
  /\ edits < MaxEdits
  /\ edits' = edits + 1
  /\ text' = [text EXCEPT ![t] = txt]
  /\ indexed' = indexed \ {t}

Save(b, t) ==
  /\ state[t] = "none"
  /\ state' = [state EXCEPT ![t] = "active"]
  /\ Hook(b, t)
  /\ UNCHANGED <<text, line, vector, itemVec, edits, indexed, alone>>

Correct(b, t, txt) ==
  /\ state[t] = "active"
  /\ Retext(t, txt)
  /\ Hook(b, t)
  /\ UNCHANGED <<state, line, vector, itemVec, alone>>

\* `finbox edit` and `finbox rerule` write the expense only.
ChangeElsewhere(t, txt) ==
  /\ Others /\ state[t] = "active"
  /\ Retext(t, txt)
  /\ UNCHANGED <<state, line, vector, itemVec, job, alone>>

Void(t) ==
  /\ state[t] = "active"
  /\ state' = [state EXCEPT ![t] = "voided"]
  /\ indexed' = indexed \ {t}
  /\ UNCHANGED <<text, line, vector, itemVec, job, edits, alone>>

-----------------------------------------------------------------------------
(***************************************************************************)
(* Indexing.                                                               *)
(***************************************************************************)

\* onlyID, or every active expense.
Scope(p) == {t \in Expenses : state[t] = "active" /\ job[p].id \in {t, None}}

\* What is left of the items in scope: those without a vector of this model.
ItemDocs(p) == {i \in Items : Owner[i] \in Scope(p) /\ itemVec[i] # Release[p]}

\* Both lists are read before anything is sent to a model. One step for the two
\* queries: the name of an item never changes, and an expense that is saved or
\* voided between them only adds or drops items.
TxnDocs(p) ==
  /\ job[p].stage = IF p \in Bots THEN "hook" ELSE "idle"
  /\ job' = [job EXCEPT
       ![p].stage = "lines",
       ![p].docs = [t \in Scope(p) |->
                      [text |-> text[t], line |-> line[t].line, key |-> line[t].key,
                       have |-> vector[t]]],
       ![p].items = ItemDocs(p)]
  /\ indexed' = indexed \ Scope(p)
  /\ alone' = IF \E q \in Indexers \ {p} : job[q].stage \notin {"idle", "hook"} THEN {} ELSE {p}
  /\ UNCHANGED <<state, text, line, vector, itemVec, edits>>

\* Mutant: the doc at hand keeps the line it had.
WriteLineOnly(p, t, l) ==
  /\ job[p].stage = "lines" /\ t \in DOMAIN job[p].docs
  /\ LineStale(p, job[p].docs[t])
  /\ line' = [line EXCEPT ![t] = [key |-> LineKey(p, job[p].docs[t].text), line |-> l]]
  /\ job' = [job EXCEPT ![p].docs[t].key = LineKey(p, job[p].docs[t].text)]
  /\ UNCHANGED <<state, text, vector, itemVec, edits, indexed, alone>>

\* Mutant: key and line change places in the insert.
WriteLineSwapped(p, t, l) ==
  /\ job[p].stage = "lines" /\ t \in DOMAIN job[p].docs
  /\ LineStale(p, job[p].docs[t])
  /\ line' = [line EXCEPT ![t] = [key |-> l, line |-> LineKey(p, job[p].docs[t].text)]]
  /\ job' = [job EXCEPT ![p].docs[t].key = LineKey(p, job[p].docs[t].text),
                        ![p].docs[t].line = l]
  /\ UNCHANGED <<state, text, vector, itemVec, edits, indexed, alone>>

\* One answer of the model for one stale expense, and UpsertSearchLine.
WriteLine(p, t, l) ==
  /\ job[p].stage = "lines" /\ t \in DOMAIN job[p].docs
  /\ LineStale(p, job[p].docs[t])
  /\ LET key == LineKey(p, job[p].docs[t].text) IN
       /\ line' = [line EXCEPT ![t] = [key |-> key, line |-> l]]
       /\ job' = [job EXCEPT ![p].docs[t] = [@ EXCEPT !.key = key, !.line = l]]
  /\ UNCHANGED <<state, text, vector, itemVec, edits, indexed, alone>>

\* The first error stops the loop; the rest is embedded with the lines it has, in
\* one call for all that is stale.
LinesEnd(p) ==
  /\ job[p].stage = "lines"
  /\ job' = [job EXCEPT
       ![p].stage = "write",
       ![p].failed = \E t \in DOMAIN job[p].docs : LineStale(p, job[p].docs[t])]
  /\ UNCHANGED <<state, text, line, vector, itemVec, edits, indexed, alone>>

UpsertEmbedding(p, t) ==
  /\ job[p].stage = "write" /\ t \in StaleDocs(p)
  /\ LET d == job[p].docs[t]
         made == [release |-> Release[p], text |-> d.text, line |-> d.line]
     IN /\ vector' = [vector EXCEPT ![t] = made]
        /\ job' = [job EXCEPT ![p].docs[t].have = made]
  /\ UNCHANGED <<state, text, line, itemVec, edits, indexed, alone>>

\* Items come after the expenses.
UpsertItemEmbedding(p, i) ==
  /\ job[p].stage = "write" /\ StaleDocs(p) = {} /\ i \in job[p].items
  /\ itemVec' = [itemVec EXCEPT ![i] = Release[p]]
  /\ job' = [job EXCEPT ![p].items = @ \ {i}]
  /\ UNCHANGED <<state, text, line, vector, edits, indexed, alone>>

\* Everything is written; a line that failed is reported.
Done(p) ==
  /\ job[p].stage = "write" /\ StaleDocs(p) = {} /\ job[p].items = {}
  /\ indexed' = IF job[p].failed \/ p \notin alone THEN indexed
                ELSE indexed \cup {t \in DOMAIN job[p].docs :
                                     state[t] = "active" /\ text[t] = job[p].docs[t].text}
  /\ job' = [job EXCEPT ![p] = NoJob]
  /\ alone' = alone \ {p}
  /\ UNCHANGED <<state, text, line, vector, itemVec, edits>>

\* A query, the embedding call or an upsert fails, or the process ends.
Abandon(p) ==
  /\ job[p].stage # "idle"
  /\ job' = [job EXCEPT ![p] = NoJob]
  /\ alone' = alone \ {p}
  /\ UNCHANGED <<state, text, line, vector, itemVec, edits, indexed>>

Index(p) ==
  \/ TxnDocs(p) \/ LinesEnd(p) \/ Done(p)
  \/ \E t \in Expenses : UpsertEmbedding(p, t) \/ \E l \in Lines : WriteLine(p, t, l)
  \/ \E i \in Items : UpsertItemEmbedding(p, i)

Next ==
  \/ \E t \in Expenses :
       \/ Void(t)
       \/ \E b \in Bots : Save(b, t) \/ \E txt \in Texts : Correct(b, t, txt)
       \/ \E txt \in Texts : ChangeElsewhere(t, txt)
  \/ \E p \in Indexers : Index(p) \/ Abandon(p)

Spec == Init /\ [][Next]_vars

\* reembed runs on every deploy and the model answers in the end. The chat, the
\* embedding call and every upsert may fail any number of times.
FairSpec ==
  /\ Spec
  /\ \A b \in Bots : WF_vars(Index(b))
  /\ \A p \in Reembeds :
       /\ WF_vars(TxnDocs(p)) /\ WF_vars(Done(p))
       /\ \A t \in Expenses : /\ SF_vars(\E l \in Lines : WriteLine(p, t, l))
                              /\ SF_vars(UpsertEmbedding(p, t))
       /\ \A i \in Items : SF_vars(UpsertItemEmbedding(p, i))
       /\ SF_vars(LinesEnd(p) /\ ~job'[p].failed)

-----------------------------------------------------------------------------
(***************************************************************************)
(* Properties.                                                             *)
(***************************************************************************)

TypeOK ==
  /\ state \in [Expenses -> {"none", "active", "voided"}]
  /\ text \in [Expenses -> Texts]
  /\ line \in [Expenses -> [key : Keys \cup {None}, line : Lines]]
  /\ vector \in [Expenses -> Vectors \cup {None}]
  /\ itemVec \in [Items -> Releases \cup {None}]
  /\ indexed \subseteq Expenses /\ alone \subseteq Indexers
  /\ \A p \in Indexers :
       /\ job[p].stage \in Stages /\ job[p].items \subseteq Items
       /\ \A t \in DOMAIN job[p].docs : t \in Expenses /\ job[p].docs[t] \in TxnDoc

\* An expense is found by what it says now: line and vector were made of it.
Fresh(t, r) ==
  /\ line[t].key = [release |-> r, text |-> text[t]]
  /\ vector[t] = [release |-> r, text |-> text[t], line |-> line[t].line]
  /\ \A i \in Items : Owner[i] = t => itemVec[i] = r

\* README.md:134, "the bot also indexes each expense and its items right after
\* it is saved or corrected": what an indexer that had the index to itself has
\* indexed with success is found by what it says, until it changes or is read
\* to be indexed again.
IndexedIsFresh == \A t \in indexed : \E r \in Releases : Fresh(t, r)

\* search.go:74, reembed "indexes every active expense whose doc or embedding
\* model changed": whatever failed, was interrupted or was overwritten, by
\* whichever release, the index agrees with the expenses again in the end.
IndexHeals ==
  \A r \in {Release[p] : p \in Reembeds} :
    []<>(\A t \in Expenses : state[t] = "active" => Fresh(t, r))
=============================================================================
