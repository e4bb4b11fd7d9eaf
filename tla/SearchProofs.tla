---------------------------- MODULE SearchProofs ----------------------------
(***************************************************************************)
(* Theorems of SearchIndex, for every set of expenses, items, texts and    *)
(* lines, and any number of bots and reembed commands of any releases.     *)
(***************************************************************************)
EXTENDS SearchIndex, TLAPS

Job(docs) == [stage : Stages, id : Expenses \cup {None}, docs : {docs}, items : SUBSET Items,
              failed : BOOLEAN]

\* The docs at hand are of expenses, and each is a doc.
DocsOK(docs) == DOMAIN docs \subseteq Expenses /\ \A t \in DOMAIN docs : docs[t] \in TxnDoc

Jobs ==
  /\ job = [p \in Indexers |-> job[p]]
  /\ \A p \in Indexers : job[p] \in Job(job[p].docs) /\ DocsOK(job[p].docs)

TypeInv == TypeOK /\ Jobs

Working(p) == job[p].stage \in {"lines", "write"}

(***************************************************************************)
(* An indexer at work has taken what it read out of indexed. One that is   *)
(* alone has read what is stored, with what it has written since.          *)
(***************************************************************************)
AtWork(p) ==
  /\ indexed \cap DOMAIN job[p].docs = {}
  /\ \A i \in job[p].items : Owner[i] \in DOMAIN job[p].docs

Knows(p) ==
  LET docs == job[p].docs IN
  /\ \A t \in DOMAIN docs :
       line[t].line = docs[t].line /\ line[t].key = docs[t].key /\ vector[t] = docs[t].have
  /\ \A i \in Items :
       Owner[i] \in DOMAIN docs /\ i \notin job[p].items => itemVec[i] = Release[p]
  /\ job[p].stage = "write" /\ ~job[p].failed =>
       \A t \in DOMAIN docs : ~LineStale(p, docs[t])

IndexInv ==
  /\ IndexedIsFresh
  /\ \A p \in Indexers : Working(p) => AtWork(p)
  /\ \A p \in alone :
       /\ Working(p) /\ Knows(p)
       /\ \A q \in Indexers : q # p => ~Working(q)

-----------------------------------------------------------------------------
(***************************************************************************)
(* Types.                                                                  *)
(***************************************************************************)
LEMMA NoJobType == NoJob \in Job(<< >>) /\ NoJob.docs = << >> /\ NoJob.stage = "idle" /\ DocsOK(<< >>)
<1>1. NoJob \in Job(<< >>) /\ NoJob.docs = << >> /\ NoJob.stage = "idle"
  BY DEF NoJob, Job, Stages
<1>2. DOMAIN << >> = {}
  OBVIOUS
<1> QED
  BY <1>1, <1>2 DEF DocsOK

\* A step of one indexer that leaves it with locals of their types.
LEMMA JobStep ==
  ASSUME Jobs, NEW p \in Indexers, NEW j, job' = [job EXCEPT ![p] = j], j \in Job(j.docs),
         DocsOK(j.docs)
  PROVE  Jobs' /\ job'[p] = j /\ \A q \in Indexers : q # p => job'[q] = job[q]
<1>1. \A q \in Indexers : job'[q] = IF q = p THEN j ELSE job[q]
  BY DEF Jobs
<1>2. job' = [q \in Indexers |-> job'[q]]
  BY DEF Jobs
<1> QED
  BY <1>1, <1>2 DEF Jobs

LEMMA TypeInit == Init => TypeInv
<1> SUFFICES ASSUME Init PROVE TypeInv
  OBVIOUS
<1>1. \A p \in Indexers : job[p] = NoJob
  BY DEF Init
<1>2. Jobs
  BY <1>1, NoJobType DEF Init, Jobs
<1>3. NoLine \in [key : Keys \cup {None}, line : Lines]
  BY EmptyAssumption DEF NoLine
<1>4. TypeOK
  BY <1>1, <1>2, <1>3 DEF Init, TypeOK, Jobs, Job, DocsOK
<1> QED
  BY <1>2, <1>4 DEF TypeInv

LEMMA SaveType ==
  ASSUME TypeInv, NEW b \in Bots, NEW t \in Expenses, Hook(b, t)
  PROVE  /\ Jobs' /\ job[b].stage = "idle" /\ job'[b].stage = "hook"
         /\ \A q \in Indexers : q # b => job'[q] = job[q]
<1> DEFINE j == [NoJob EXCEPT !.stage = "hook", !.id = t]
<1>1. b \in Indexers /\ job' = [job EXCEPT ![b] = j] /\ job[b].stage = "idle"
  BY DEF Hook, Indexers
<1>2. j \in Job(<< >>) /\ j.docs = << >> /\ j.stage = "hook"
  BY NoJobType DEF Job, Stages
<1> HIDE DEF j
<1> QED
  BY <1>1, <1>2, NoJobType, JobStep DEF TypeInv

\* What an indexer has read.
LEMMA ReadType ==
  ASSUME TypeInv, NEW p \in Indexers, TxnDocs(p)
  PROVE  /\ TypeInv'
         /\ job'[p].docs = [t \in Scope(p) |->
              [text |-> text[t], line |-> line[t].line, key |-> line[t].key, have |-> vector[t]]]
         /\ job'[p].items = ItemDocs(p) /\ job'[p].stage = "lines"
         /\ \A q \in Indexers : q # p => job'[q] = job[q]
<1> DEFINE docs == [t \in Scope(p) |-> [text |-> text[t], line |-> line[t].line,
                                        key |-> line[t].key, have |-> vector[t]]]
           items == ItemDocs(p)
           j == [job[p] EXCEPT !.stage = "lines", !.docs = docs, !.items = items]
<1>1. DocsOK(docs)
  <2>1. \A t \in Scope(p) : /\ text[t] \in Texts /\ line[t] \in [key : Keys \cup {None}, line : Lines]
                            /\ vector[t] \in Vectors \cup {None}
    BY DEF TypeInv, TypeOK, Scope
  <2>2. \A t \in DOMAIN docs : docs[t] \in TxnDoc
    BY <2>1 DEF TxnDoc
  <2>3. DOMAIN docs \subseteq Expenses
    BY DEF Scope
  <2> QED
    BY <2>2, <2>3 DEF DocsOK
<1>2. job' = [job EXCEPT ![p] = j]
  BY DEF TxnDocs, TypeInv, Jobs, Job
<1>3. items \in SUBSET Items
  BY DEF ItemDocs
<1> HIDE DEF docs, items
<1>4. j \in Job(docs) /\ j.docs = docs /\ j.stage = "lines" /\ j.items = items
  BY <1>3 DEF TypeInv, Jobs, Job, Stages
<1> HIDE DEF j
<1>5. Jobs' /\ job'[p] = j /\ \A q \in Indexers : q # p => job'[q] = job[q]
  BY <1>1, <1>2, <1>4, JobStep DEF TypeInv
<1>6. UNCHANGED <<state, text, line, vector, itemVec, edits>> /\ indexed' \subseteq indexed /\ alone' \subseteq {p}
  BY DEF TxnDocs
<1>7. TypeOK'
  BY <1>5, <1>6 DEF TypeInv, TypeOK, Jobs, Job, DocsOK
<1> QED
  BY <1>4, <1>5, <1>7 DEF TypeInv, docs, items

LEMMA LineType ==
  ASSUME TypeInv, NEW p \in Indexers, NEW t \in Expenses, NEW l \in Lines, WriteLine(p, t, l)
  PROVE  /\ TypeInv'
         /\ DOMAIN job'[p].docs = DOMAIN job[p].docs
         /\ job'[p].docs[t].key = LineKey(p, job[p].docs[t].text) /\ job'[p].docs[t].line = l
         /\ job'[p].docs[t].have = job[p].docs[t].have
         /\ \A u \in DOMAIN job[p].docs : u # t => job'[p].docs[u] = job[p].docs[u]
         /\ job'[p].items = job[p].items /\ job'[p].stage = "lines"
         /\ \A q \in Indexers : q # p => job'[q] = job[q]
<1> DEFINE d == job[p].docs[t]
           key == LineKey(p, d.text)
           e == [d EXCEPT !.key = key, !.line = l]
           docs == [job[p].docs EXCEPT ![t] = e]
           j == [job[p] EXCEPT !.docs = docs]
<1>1. /\ job[p].stage = "lines" /\ t \in DOMAIN job[p].docs
      /\ line' = [line EXCEPT ![t] = [key |-> key, line |-> l]]
      /\ job' = [job EXCEPT ![p].docs[t] = e]
      /\ UNCHANGED <<state, text, vector, itemVec, edits, indexed, alone>>
  BY DEF WriteLine
<1>2. d \in TxnDoc /\ job[p] \in Job(job[p].docs) /\ DocsOK(job[p].docs)
  BY <1>1 DEF TypeInv, Jobs, DocsOK
<1>3. key \in Keys
  BY <1>2 DEF LineKey, Keys, TxnDoc, Releases
<1>4. e \in TxnDoc
  BY <1>2, <1>3 DEF TxnDoc
<1>5. job' = [job EXCEPT ![p] = j]
  BY <1>1, <1>2 DEF TypeInv, Jobs, Job, TxnDoc
<1>6. e.key = key /\ e.line = l /\ e.have = d.have
  BY <1>2 DEF TxnDoc
<1> HIDE DEF e
<1>7. DocsOK(docs)
  BY <1>1, <1>2, <1>4 DEF DocsOK
<1>8. /\ DOMAIN docs = DOMAIN job[p].docs /\ docs[t] = e
      /\ \A u \in DOMAIN job[p].docs : u # t => docs[u] = job[p].docs[u]
  BY <1>1
<1> HIDE DEF docs
<1>9. j \in Job(docs) /\ j.docs = docs /\ j.items = job[p].items /\ j.stage = "lines"
  BY <1>1, <1>2 DEF Job
<1> HIDE DEF j
<1>10. Jobs' /\ job'[p] = j /\ \A q \in Indexers : q # p => job'[q] = job[q]
  BY <1>5, <1>7, <1>9, JobStep DEF TypeInv
<1>11. line' \in [Expenses -> [key : Keys \cup {None}, line : Lines]]
  BY <1>1, <1>3 DEF TypeInv, TypeOK
<1>12. TypeOK'
  BY <1>1, <1>10, <1>11 DEF TypeInv, TypeOK, Jobs, Job, DocsOK
<1> QED
  BY <1>9, <1>10, <1>12, <1>8, <1>6 DEF TypeInv

LEMMA LinesEndType ==
  ASSUME TypeInv, NEW p \in Indexers, LinesEnd(p)
  PROVE  /\ TypeInv' /\ job'[p].docs = job[p].docs /\ job'[p].items = job[p].items
         /\ job[p].stage = "lines" /\ job'[p].stage = "write"
         /\ job'[p].failed = (\E t \in DOMAIN job[p].docs : LineStale(p, job[p].docs[t]))
         /\ \A q \in Indexers : q # p => job'[q] = job[q]
<1> DEFINE failed == \E t \in DOMAIN job[p].docs : LineStale(p, job[p].docs[t])
           j == [job[p] EXCEPT !.stage = "write", !.failed = failed]
<1>1. failed \in BOOLEAN /\ job[p] \in Job(job[p].docs) /\ DocsOK(job[p].docs)
  BY DEF TypeInv, Jobs
<1>2. job' = [job EXCEPT ![p] = j]
  BY <1>1 DEF LinesEnd, TypeInv, Jobs, Job
<1> HIDE DEF failed
<1>3. /\ j \in Job(job[p].docs) /\ j.docs = job[p].docs /\ j.items = job[p].items
      /\ j.stage = "write" /\ j.failed = failed
  BY <1>1 DEF Job, Stages
<1> HIDE DEF j
<1>4. Jobs' /\ job'[p] = j /\ \A q \in Indexers : q # p => job'[q] = job[q]
  BY <1>1, <1>2, <1>3, JobStep DEF TypeInv
<1>5. TypeOK'
  BY <1>4 DEF LinesEnd, TypeInv, TypeOK, Jobs, Job, DocsOK
<1> QED
  BY <1>3, <1>4, <1>5 DEF TypeInv, LinesEnd, failed

LEMMA VectorType ==
  ASSUME TypeInv, NEW p \in Indexers, NEW t \in Expenses, UpsertEmbedding(p, t)
  PROVE  /\ TypeInv' /\ t \in DOMAIN job[p].docs
         /\ DOMAIN job'[p].docs = DOMAIN job[p].docs
         /\ job'[p].docs[t].key = job[p].docs[t].key /\ job'[p].docs[t].line = job[p].docs[t].line
         /\ job'[p].docs[t].text = job[p].docs[t].text /\ job'[p].docs[t].have = vector'[t]
         /\ \A u \in DOMAIN job[p].docs : u # t => job'[p].docs[u] = job[p].docs[u]
         /\ job'[p].items = job[p].items /\ job'[p].failed = job[p].failed
         /\ job[p].stage = "write" /\ job'[p].stage = "write"
         /\ \A q \in Indexers : q # p => job'[q] = job[q]
<1> DEFINE d == job[p].docs[t]
           made == [release |-> Release[p], text |-> d.text, line |-> d.line]
           e == [d EXCEPT !.have = made]
           docs == [job[p].docs EXCEPT ![t] = e]
           j == [job[p] EXCEPT !.docs = docs]
<1>1. /\ job[p].stage = "write" /\ t \in DOMAIN job[p].docs
      /\ vector' = [vector EXCEPT ![t] = made]
      /\ job' = [job EXCEPT ![p].docs[t].have = made]
      /\ UNCHANGED <<state, text, line, itemVec, edits, indexed, alone>>
  BY DEF UpsertEmbedding, StaleDocs
<1>2. d \in TxnDoc /\ job[p] \in Job(job[p].docs) /\ DocsOK(job[p].docs)
  BY <1>1 DEF TypeInv, Jobs, DocsOK
<1>3. made \in Vectors
  BY <1>2 DEF Vectors, TxnDoc, Releases
<1>4. e \in TxnDoc
  BY <1>2, <1>3 DEF TxnDoc
<1>5. job' = [job EXCEPT ![p] = j]
  BY <1>1, <1>2 DEF TypeInv, Jobs, Job, TxnDoc
<1> HIDE DEF made
<1>6. vector'[t] = made /\ vector' \in [Expenses -> Vectors \cup {None}]
  BY <1>1, <1>3 DEF TypeInv, TypeOK
<1>7. e.key = d.key /\ e.line = d.line /\ e.text = d.text /\ e.have = made
  BY <1>2 DEF TxnDoc
<1> HIDE DEF e
<1>8. DocsOK(docs)
  BY <1>1, <1>2, <1>4 DEF DocsOK
<1>9. /\ DOMAIN docs = DOMAIN job[p].docs /\ docs[t] = e
      /\ \A u \in DOMAIN job[p].docs : u # t => docs[u] = job[p].docs[u]
  BY <1>1
<1> HIDE DEF docs
<1>10. /\ j \in Job(docs) /\ j.docs = docs /\ j.items = job[p].items /\ j.stage = "write"
      /\ j.failed = job[p].failed
  BY <1>1, <1>2 DEF Job
<1> HIDE DEF j
<1>11. Jobs' /\ job'[p] = j /\ \A q \in Indexers : q # p => job'[q] = job[q]
  BY <1>5, <1>8, <1>10, JobStep DEF TypeInv
<1>12. TypeOK'
  BY <1>1, <1>6, <1>11 DEF TypeInv, TypeOK, Jobs, Job, DocsOK
<1> QED
  BY <1>1, <1>6, <1>10, <1>11, <1>12, <1>9, <1>7 DEF TypeInv

LEMMA ItemType ==
  ASSUME TypeInv, NEW p \in Indexers, NEW i \in Items, UpsertItemEmbedding(p, i)
  PROVE  /\ TypeInv' /\ job'[p].docs = job[p].docs /\ job'[p].items = job[p].items \ {i}
         /\ job'[p].failed = job[p].failed
         /\ job[p].stage = "write" /\ job'[p].stage = "write"
         /\ \A q \in Indexers : q # p => job'[q] = job[q]
<1> DEFINE items == job[p].items \ {i}
           j == [job[p] EXCEPT !.items = items]
<1>1. /\ job[p].stage = "write" /\ itemVec' = [itemVec EXCEPT ![i] = Release[p]]
      /\ job' = [job EXCEPT ![p] = j]
      /\ UNCHANGED <<state, text, line, vector, edits, indexed, alone>>
  BY DEF UpsertItemEmbedding
<1>2. job[p] \in Job(job[p].docs) /\ DocsOK(job[p].docs)
  BY DEF TypeInv, Jobs
<1>3. items \in SUBSET Items
  BY <1>2 DEF Job
<1> HIDE DEF items
<1>4. /\ j \in Job(job[p].docs) /\ j.docs = job[p].docs /\ j.items = items
      /\ j.stage = "write" /\ j.failed = job[p].failed
  BY <1>1, <1>2, <1>3 DEF Job
<1> HIDE DEF j
<1>5. Jobs' /\ job'[p] = j /\ \A q \in Indexers : q # p => job'[q] = job[q]
  BY <1>1, <1>2, <1>4, JobStep DEF TypeInv
<1>6. itemVec' \in [Items -> Releases \cup {None}]
  BY <1>1 DEF TypeInv, TypeOK, Releases
<1>7. TypeOK'
  BY <1>1, <1>5, <1>6 DEF TypeInv, TypeOK, Jobs, Job, DocsOK
<1> QED
  BY <1>1, <1>4, <1>5, <1>7 DEF TypeInv, items

\* Done and Abandon.
LEMMA EndType ==
  ASSUME TypeInv, NEW p \in Indexers, Done(p) \/ Abandon(p)
  PROVE  /\ TypeInv' /\ job'[p].stage = "idle"
         /\ \A q \in Indexers : q # p => job'[q] = job[q]
<1>1. job' = [job EXCEPT ![p] = NoJob]
  BY DEF Done, Abandon
<1>2. Jobs' /\ job'[p] = NoJob /\ \A q \in Indexers : q # p => job'[q] = job[q]
  BY <1>1, NoJobType, JobStep DEF TypeInv
<1>3. indexed' \subseteq Expenses
  BY DEF Done, Abandon, TypeInv, TypeOK, Jobs, DocsOK
<1>4. TypeOK'
  BY <1>2, <1>3 DEF Done, Abandon, TypeInv, TypeOK, Jobs, Job, DocsOK
<1> QED
  BY <1>2, <1>4, NoJobType DEF TypeInv

\* Steps that change expenses, or begin or give up work: what is stored stays.
LEMMA WorldType ==
  ASSUME TypeInv, NEW t \in Expenses,
         \/ Void(t)
         \/ \E b \in Bots : Save(b, t) \/ \E txt \in Texts : Correct(b, t, txt)
         \/ \E txt \in Texts : ChangeElsewhere(t, txt)
  PROVE  /\ TypeInv' /\ UNCHANGED <<line, vector, itemVec, alone>>
         /\ indexed' \subseteq indexed /\ \A u \in indexed' : text'[u] = text[u]
         /\ \A q \in Indexers :
              job'[q] = job[q] \/ (job[q].stage = "idle" /\ job'[q].stage = "hook")
<1>1. ASSUME Void(t)
      PROVE  /\ TypeInv' /\ UNCHANGED <<line, vector, itemVec, alone, job>>
             /\ indexed' \subseteq indexed /\ \A u \in indexed' : text'[u] = text[u]
  BY <1>1 DEF Void, TypeInv, TypeOK, Jobs
<1>2. ASSUME NEW b \in Bots, Save(b, t)
      PROVE  /\ TypeInv' /\ UNCHANGED <<line, vector, itemVec, alone>>
             /\ indexed' \subseteq indexed /\ \A u \in indexed' : text'[u] = text[u]
             /\ \A q \in Indexers :
                  job'[q] = job[q] \/ (job[q].stage = "idle" /\ job'[q].stage = "hook")
  <2>1. Jobs' /\ \A q \in Indexers :
                   job'[q] = job[q] \/ (job[q].stage = "idle" /\ job'[q].stage = "hook")
    <3>1. Hook(b, t)
      BY <1>2 DEF Save
    <3>2. job'[b].stage = "hook" /\ job[b].stage = "idle"
      BY <3>1, SaveType
    <3>3. Jobs' /\ \A q \in Indexers : q # b => job'[q] = job[q]
      BY <3>1, SaveType
    <3> QED
      BY <3>2, <3>3
  <2>2. TypeOK'
    BY <1>2, <2>1 DEF Save, TypeInv, TypeOK, Jobs, Job, DocsOK
  <2> QED
    BY <1>2, <2>1, <2>2 DEF Save, TypeInv
<1>3. ASSUME NEW b \in Bots, NEW txt \in Texts, Correct(b, t, txt)
      PROVE  /\ TypeInv' /\ UNCHANGED <<line, vector, itemVec, alone>>
             /\ indexed' \subseteq indexed /\ \A u \in indexed' : text'[u] = text[u]
             /\ \A q \in Indexers :
                  job'[q] = job[q] \/ (job[q].stage = "idle" /\ job'[q].stage = "hook")
  <2>1. Jobs' /\ \A q \in Indexers :
                   job'[q] = job[q] \/ (job[q].stage = "idle" /\ job'[q].stage = "hook")
    <3>1. Hook(b, t)
      BY <1>3 DEF Correct
    <3>2. job'[b].stage = "hook" /\ job[b].stage = "idle"
      BY <3>1, SaveType
    <3>3. Jobs' /\ \A q \in Indexers : q # b => job'[q] = job[q]
      BY <3>1, SaveType
    <3> QED
      BY <3>2, <3>3
  <2>2. indexed' \subseteq indexed /\ \A u \in indexed' : text'[u] = text[u]
    BY <1>3 DEF Correct, Retext, TypeInv, TypeOK
  <2>3. TypeOK'
    BY <1>3, <2>1, <2>2 DEF Correct, Retext, TypeInv, TypeOK, Jobs, Job, DocsOK
  <2> QED
    BY <1>3, <2>1, <2>2, <2>3 DEF Correct, TypeInv
<1>4. ASSUME NEW txt \in Texts, ChangeElsewhere(t, txt)
      PROVE  /\ TypeInv' /\ UNCHANGED <<line, vector, itemVec, alone, job>>
             /\ indexed' \subseteq indexed /\ \A u \in indexed' : text'[u] = text[u]
  BY <1>4 DEF ChangeElsewhere, Retext, TypeInv, TypeOK, Jobs
<1> QED
  BY <1>1, <1>2, <1>3, <1>4

-----------------------------------------------------------------------------
(***************************************************************************)
(* The index.                                                              *)
(***************************************************************************)
LEMMA IndexInit == Init => IndexInv
<1> SUFFICES ASSUME Init PROVE IndexInv
  OBVIOUS
<1>1. \A p \in Indexers : ~Working(p)
  BY DEF Init, NoJob, Working
<1>2. indexed = {} /\ alone = {}
  BY DEF Init
<1> QED
  BY <1>1, <1>2 DEF IndexInv, IndexedIsFresh

\* An expense stays fresh while nothing about it changes.
LEMMA FreshKept ==
  ASSUME IndexedIsFresh, NEW t \in indexed,
         text'[t] = text[t], line'[t] = line[t], vector'[t] = vector[t],
         \A i \in Items : Owner[i] = t => itemVec'[i] = itemVec[i]
  PROVE  \E r \in Releases : Fresh(t, r)'
<1>1. PICK r \in Releases : Fresh(t, r)
  BY DEF IndexedIsFresh
<1>2. Fresh(t, r)'
  BY <1>1 DEF Fresh
<1> QED
  BY <1>2

\* Nothing is lost by a step that writes nothing to the index, takes what
\* changes out of indexed, and leaves those at work as they are.
LEMMA Quiet ==
  ASSUME IndexInv, alone \subseteq Indexers, UNCHANGED <<line, vector, itemVec>>,
         indexed' \subseteq indexed, alone' \subseteq alone, \A t \in indexed' : text'[t] = text[t],
         \A q \in Indexers : job'[q] = job[q] \/ (q \notin alone' /\ ~Working(q)')
  PROVE  IndexInv'
<1>1. IndexedIsFresh'
  BY FreshKept DEF IndexInv, IndexedIsFresh
<1>2. ASSUME NEW q \in Indexers, Working(q)' PROVE AtWork(q)'
  <2>1. job'[q] = job[q]
    BY <1>2
  <2>2. AtWork(q)
    BY <1>2, <2>1 DEF IndexInv, Working
  <2> QED
    BY <2>1, <2>2 DEF AtWork
<1>3. ASSUME NEW q \in alone' PROVE Working(q)' /\ Knows(q)'
  <2>1. q \in Indexers /\ job'[q] = job[q] /\ Working(q) /\ Knows(q)
    BY <1>3 DEF IndexInv
  <2> QED
    BY <2>1 DEF Working, Knows
<1>4. ASSUME NEW p \in alone', NEW q \in Indexers, q # p PROVE ~Working(q)'
  <2>1. ~Working(q)
    BY <1>4 DEF IndexInv
  <2> QED
    BY <2>1 DEF Working
<1> QED
  BY <1>1, <1>2, <1>3, <1>4 DEF IndexInv

LEMMA IndexRead ==
  ASSUME TypeInv, IndexInv, NEW p \in Indexers, TxnDocs(p)
  PROVE  IndexInv'
<1>1. /\ UNCHANGED <<state, text, line, vector, itemVec>> /\ indexed' = indexed \ Scope(p)
      /\ alone' = IF \E q \in Indexers \ {p} : job[q].stage \notin {"idle", "hook"} THEN {} ELSE {p}
  BY DEF TxnDocs
<1>2. /\ job'[p].docs = [t \in Scope(p) |-> [text |-> text[t], line |-> line[t].line,
                                             key |-> line[t].key, have |-> vector[t]]]
      /\ job'[p].items = ItemDocs(p) /\ job'[p].stage = "lines"
      /\ \A q \in Indexers : q # p => job'[q] = job[q]
  BY ReadType
<1>3. IndexedIsFresh'
  BY <1>1, FreshKept DEF IndexInv, IndexedIsFresh
<1>4. ASSUME NEW q \in Indexers, Working(q)' PROVE AtWork(q)'
  <2>1. CASE q = p
    <3>1. DOMAIN job'[p].docs = Scope(p)
      BY <1>2
    <3>2. \A i \in job'[p].items : Owner[i] \in Scope(p)
      BY <1>2 DEF ItemDocs
    <3> QED
      BY <1>1, <2>1, <3>1, <3>2 DEF AtWork
  <2>2. CASE q # p
    <3>1. job'[q] = job[q] /\ AtWork(q)
      BY <1>2, <1>4, <2>2 DEF IndexInv, Working
    <3> QED
      BY <1>1, <3>1 DEF AtWork
  <2> QED
    BY <2>1, <2>2
<1>5. ASSUME NEW q \in alone'
      PROVE  Working(q)' /\ Knows(q)' /\ \A r \in Indexers : r # q => ~Working(r)'
  <2>1. q = p /\ \A r \in Indexers : r # p => job[r].stage \in {"idle", "hook"}
    BY <1>1, <1>5
  <2>2. Working(p)' /\ \A r \in Indexers : r # p => ~Working(r)'
    BY <1>2, <2>1 DEF Working
  <2>3. Knows(p)'
    BY <1>1, <1>2 DEF Knows, ItemDocs
  <2> QED
    BY <2>1, <2>2, <2>3
<1> QED
  BY <1>3, <1>4, <1>5 DEF IndexInv

LEMMA IndexLine ==
  ASSUME TypeInv, IndexInv, NEW p \in Indexers, NEW t \in Expenses, NEW l \in Lines,
         WriteLine(p, t, l)
  PROVE  IndexInv'
<1> DEFINE key == LineKey(p, job[p].docs[t].text)
<1>1. /\ t \in DOMAIN job[p].docs /\ Working(p)
      /\ line' = [line EXCEPT ![t] = [key |-> key, line |-> l]]
      /\ UNCHANGED <<state, text, vector, itemVec, indexed, alone>>
  BY DEF WriteLine, Working
<1>2. /\ DOMAIN job'[p].docs = DOMAIN job[p].docs
      /\ job'[p].docs[t].key = key /\ job'[p].docs[t].line = l
      /\ job'[p].docs[t].have = job[p].docs[t].have
      /\ \A u \in DOMAIN job[p].docs : u # t => job'[p].docs[u] = job[p].docs[u]
      /\ job'[p].items = job[p].items /\ job'[p].stage = "lines"
      /\ \A q \in Indexers : q # p => job'[q] = job[q]
  BY LineType
<1> HIDE DEF key
<1>3. \A u \in Expenses : u # t => line'[u] = line[u]
  BY <1>1 DEF TypeInv, TypeOK
<1>4. t \notin indexed /\ indexed \subseteq Expenses
  BY <1>1 DEF IndexInv, AtWork, TypeInv, TypeOK
<1>5. IndexedIsFresh'
  BY <1>1, <1>3, <1>4, FreshKept DEF IndexInv, IndexedIsFresh
<1>6. ASSUME NEW q \in Indexers, Working(q)' PROVE AtWork(q)'
  <2>1. AtWork(q)
    BY <1>1, <1>2, <1>6 DEF IndexInv, Working
  <2> QED
    BY <1>1, <1>2, <2>1 DEF AtWork
<1>7. ASSUME NEW q \in alone'
      PROVE  Working(q)' /\ Knows(q)' /\ \A r \in Indexers : r # q => ~Working(r)'
  <2>1. q = p /\ Knows(p) /\ \A r \in Indexers : r # p => ~Working(r)
    BY <1>1, <1>7 DEF IndexInv
  <2>2. Working(p)' /\ \A r \in Indexers : r # p => ~Working(r)'
    BY <1>2, <2>1 DEF Working
  <2>3. line'[t] = [key |-> key, line |-> l]
    BY <1>1 DEF TypeInv, TypeOK
  <2>4. \A u \in DOMAIN job[p].docs : u \in Expenses
    BY DEF TypeInv, Jobs, DocsOK
  <2>5. \A u \in DOMAIN job'[p].docs :
          /\ line'[u].line = job'[p].docs[u].line /\ line'[u].key = job'[p].docs[u].key
          /\ vector'[u] = job'[p].docs[u].have
    BY <1>1, <1>2, <1>3, <2>1, <2>3, <2>4 DEF Knows
  <2>6. Knows(p)'
    BY <1>1, <1>2, <2>1, <2>5 DEF Knows
  <2> QED
    BY <2>1, <2>2, <2>6
<1> QED
  BY <1>5, <1>6, <1>7 DEF IndexInv

LEMMA IndexLinesEnd ==
  ASSUME TypeInv, IndexInv, NEW p \in Indexers, LinesEnd(p)
  PROVE  IndexInv'
<1>1. UNCHANGED <<state, text, line, vector, itemVec, indexed, alone>>
  BY DEF LinesEnd
<1>2. /\ job'[p].docs = job[p].docs /\ job'[p].items = job[p].items
      /\ job[p].stage = "lines" /\ job'[p].stage = "write"
      /\ job'[p].failed = (\E t \in DOMAIN job[p].docs : LineStale(p, job[p].docs[t]))
      /\ \A q \in Indexers : q # p => job'[q] = job[q]
  BY LinesEndType
<1>3. IndexedIsFresh'
  BY <1>1, FreshKept DEF IndexInv, IndexedIsFresh
<1>4. \A q \in Indexers : Working(q)' => Working(q)
  BY <1>2 DEF Working
<1>5. \A q \in Indexers : Working(q)' => AtWork(q)'
  BY <1>1, <1>2, <1>4 DEF IndexInv, AtWork
<1>6. ASSUME NEW q \in alone'
      PROVE  Working(q)' /\ Knows(q)' /\ \A r \in Indexers : r # q => ~Working(r)'
  <2>1. q = p /\ Knows(p) /\ \A r \in Indexers : r # p => ~Working(r)
    BY <1>1, <1>2, <1>6 DEF IndexInv, Working
  <2>2. Working(p)'
    BY <1>2 DEF Working
  <2>3. Knows(p)'
    BY <1>1, <1>2, <2>1 DEF Knows, LineStale
  <2> QED
    BY <1>4, <2>1, <2>2, <2>3
<1> QED
  BY <1>3, <1>5, <1>6 DEF IndexInv

LEMMA IndexVector ==
  ASSUME TypeInv, IndexInv, NEW p \in Indexers, NEW t \in Expenses, UpsertEmbedding(p, t)
  PROVE  IndexInv'
<1>1. UNCHANGED <<state, text, line, itemVec, indexed, alone>>
  BY DEF UpsertEmbedding
<1>2. /\ t \in DOMAIN job[p].docs
      /\ DOMAIN job'[p].docs = DOMAIN job[p].docs
      /\ job'[p].docs[t].key = job[p].docs[t].key /\ job'[p].docs[t].line = job[p].docs[t].line
      /\ job'[p].docs[t].text = job[p].docs[t].text /\ job'[p].docs[t].have = vector'[t]
      /\ \A u \in DOMAIN job[p].docs : u # t => job'[p].docs[u] = job[p].docs[u]
      /\ job'[p].items = job[p].items /\ job'[p].failed = job[p].failed
      /\ job[p].stage = "write" /\ job'[p].stage = "write"
      /\ \A q \in Indexers : q # p => job'[q] = job[q]
  BY VectorType
<1>3. Working(p) /\ Working(p)'
  BY <1>2 DEF Working
<1>4. \A u \in Expenses : u # t => vector'[u] = vector[u]
  BY DEF UpsertEmbedding, TypeInv, TypeOK
<1>5. t \notin indexed /\ indexed \subseteq Expenses
  BY <1>2, <1>3 DEF IndexInv, AtWork, TypeInv, TypeOK
<1>6. IndexedIsFresh'
  BY <1>1, <1>4, <1>5, FreshKept DEF IndexInv, IndexedIsFresh
<1>7. ASSUME NEW q \in Indexers, Working(q)' PROVE AtWork(q)'
  <2>1. AtWork(q)
    BY <1>2, <1>3, <1>7 DEF IndexInv, Working
  <2> QED
    BY <1>1, <1>2, <2>1 DEF AtWork
<1>8. ASSUME NEW q \in alone'
      PROVE  Working(q)' /\ Knows(q)' /\ \A r \in Indexers : r # q => ~Working(r)'
  <2>1. q = p /\ Knows(p) /\ \A r \in Indexers : r # p => ~Working(r)
    BY <1>1, <1>3, <1>8 DEF IndexInv
  <2>2. \A r \in Indexers : r # p => ~Working(r)'
    BY <1>2, <2>1 DEF Working
  <2>3. \A u \in DOMAIN job[p].docs : u \in Expenses
    BY DEF TypeInv, Jobs, DocsOK
  <2>4. \A u \in DOMAIN job'[p].docs :
          /\ line'[u].line = job'[p].docs[u].line /\ line'[u].key = job'[p].docs[u].key
          /\ vector'[u] = job'[p].docs[u].have
    BY <1>1, <1>2, <1>4, <2>1, <2>3 DEF Knows
  <2>5. ~job'[p].failed => \A u \in DOMAIN job'[p].docs : ~LineStale(p, job'[p].docs[u])
    BY <1>2, <2>1 DEF Knows, LineStale
  <2>6. Knows(p)'
    BY <1>1, <1>2, <2>1, <2>4, <2>5 DEF Knows, LineStale
  <2> QED
    BY <1>3, <2>1, <2>2, <2>6
<1> QED
  BY <1>6, <1>7, <1>8 DEF IndexInv

LEMMA IndexItem ==
  ASSUME TypeInv, IndexInv, NEW p \in Indexers, NEW i \in Items, UpsertItemEmbedding(p, i)
  PROVE  IndexInv'
<1>1. UNCHANGED <<state, text, line, vector, indexed, alone>> /\ i \in job[p].items
  BY DEF UpsertItemEmbedding
<1>2. /\ job'[p].docs = job[p].docs /\ job'[p].items = job[p].items \ {i}
      /\ job'[p].failed = job[p].failed
      /\ job[p].stage = "write" /\ job'[p].stage = "write"
      /\ \A q \in Indexers : q # p => job'[q] = job[q]
  BY ItemType
<1>3. Working(p) /\ Working(p)'
  BY <1>2 DEF Working
<1>4. itemVec'[i] = Release[p] /\ \A k \in Items : k # i => itemVec'[k] = itemVec[k]
  BY DEF UpsertItemEmbedding, TypeInv, TypeOK
<1>5. Owner[i] \notin indexed
  BY <1>1, <1>3 DEF IndexInv, AtWork
<1>6. IndexedIsFresh'
  BY <1>1, <1>4, <1>5, FreshKept DEF IndexInv, IndexedIsFresh
<1>7. ASSUME NEW q \in Indexers, Working(q)' PROVE AtWork(q)'
  <2>1. AtWork(q)
    BY <1>2, <1>3, <1>7 DEF IndexInv, Working
  <2> QED
    BY <1>1, <1>2, <2>1 DEF AtWork
<1>8. ASSUME NEW q \in alone'
      PROVE  Working(q)' /\ Knows(q)' /\ \A r \in Indexers : r # q => ~Working(r)'
  <2>1. q = p /\ Knows(p) /\ \A r \in Indexers : r # p => ~Working(r)
    BY <1>1, <1>3, <1>8 DEF IndexInv
  <2>2. \A r \in Indexers : r # p => ~Working(r)'
    BY <1>2, <2>1 DEF Working
  <2>3. Knows(p)'
    BY <1>1, <1>2, <1>4, <2>1 DEF Knows, LineStale
  <2> QED
    BY <1>3, <2>1, <2>2, <2>3
<1> QED
  BY <1>6, <1>7, <1>8 DEF IndexInv

\* One that was alone all the while, and failed at nothing, leaves its expenses fresh.
LEMMA DoneIsFresh ==
  ASSUME TypeInv, IndexInv, NEW p \in Indexers, Done(p), p \in alone, ~job[p].failed,
         NEW t \in DOMAIN job[p].docs, text[t] = job[p].docs[t].text
  PROVE  Release[p] \in Releases /\ Fresh(t, Release[p])
<1> DEFINE d == job[p].docs[t]
<1>1. job[p].stage = "write" /\ StaleDocs(p) = {} /\ job[p].items = {}
  BY DEF Done
<1>2. Knows(p)
  BY DEF IndexInv
<1>3. d.have = [release |-> Release[p], text |-> d.text, line |-> d.line]
  BY <1>1 DEF StaleDocs, Stale
<1>4. d.key = [release |-> Release[p], text |-> d.text]
  BY <1>1, <1>2 DEF Knows, LineStale, LineKey
<1>5. line[t].line = d.line /\ line[t].key = d.key /\ vector[t] = d.have
  BY <1>2 DEF Knows
<1>6. \A i \in Items : Owner[i] = t => itemVec[i] = Release[p]
  BY <1>1, <1>2 DEF Knows
<1> QED
  BY <1>3, <1>4, <1>5, <1>6 DEF Fresh, Releases

LEMMA IndexDone ==
  ASSUME TypeInv, IndexInv, NEW p \in Indexers, Done(p)
  PROVE  IndexInv'
<1>1. /\ UNCHANGED <<text, line, vector, itemVec>> /\ alone' = alone \ {p} /\ Working(p)
      /\ indexed' = IF job[p].failed \/ p \notin alone THEN indexed
                    ELSE indexed \cup {t \in DOMAIN job[p].docs :
                                         state[t] = "active" /\ text[t] = job[p].docs[t].text}
  BY DEF Done, Working
<1>2. ~Working(p)' /\ \A q \in Indexers : q # p => job'[q] = job[q]
  BY EndType DEF Working
<1>3. CASE job[p].failed \/ p \notin alone
  <2>1. indexed' = indexed /\ alone' \subseteq alone /\ alone \subseteq Indexers
    BY <1>1, <1>3 DEF TypeInv, TypeOK
  <2>2. \A q \in Indexers : job'[q] = job[q] \/ (q \notin alone' /\ ~Working(q)')
    BY <1>1, <1>2
  <2> QED
    BY <1>1, <2>1, <2>2, Quiet
<1>4. CASE ~job[p].failed /\ p \in alone
  <2>1. IndexedIsFresh'
    <3>1. \A t \in indexed : \E r \in Releases : Fresh(t, r)'
      BY <1>1, FreshKept DEF IndexInv
    <3>2. ASSUME NEW t \in DOMAIN job[p].docs, text[t] = job[p].docs[t].text
          PROVE  \E r \in Releases : Fresh(t, r)'
      <4>1. Release[p] \in Releases /\ Fresh(t, Release[p])
        BY <1>4, <3>2, DoneIsFresh
      <4>2. Fresh(t, Release[p])'
        BY <1>1, <4>1 DEF Fresh
      <4> QED
        BY <4>1, <4>2
    <3> QED
      BY <1>1, <1>4, <3>1, <3>2 DEF IndexedIsFresh
  <2>2. \A q \in Indexers : ~Working(q)'
    BY <1>2, <1>4 DEF IndexInv, Working
  <2>3. alone' = {}
    BY <1>1, <1>4 DEF IndexInv, TypeInv, TypeOK
  <2> QED
    BY <2>1, <2>2, <2>3 DEF IndexInv
<1> QED
  BY <1>3, <1>4

LEMMA Step ==
  ASSUME TypeInv, IndexInv, [Next]_vars
  PROVE  TypeInv' /\ IndexInv'
<1>1. ASSUME NEW t \in Expenses,
             \/ Void(t)
             \/ \E b \in Bots : Save(b, t) \/ \E txt \in Texts : Correct(b, t, txt)
             \/ \E txt \in Texts : ChangeElsewhere(t, txt)
      PROVE  TypeInv' /\ IndexInv'
  <2>1. /\ TypeInv' /\ UNCHANGED <<line, vector, itemVec, alone>>
        /\ indexed' \subseteq indexed /\ \A u \in indexed' : text'[u] = text[u]
        /\ \A q \in Indexers :
             job'[q] = job[q] \/ (job[q].stage = "idle" /\ job'[q].stage = "hook")
    BY <1>1, WorldType
  <2>2. \A q \in Indexers : job'[q] = job[q] \/ (q \notin alone' /\ ~Working(q)')
    BY <2>1 DEF IndexInv, Working
  <2> QED
    BY <2>1, <2>2, Quiet DEF TypeInv, TypeOK
<1>2. ASSUME NEW p \in Indexers, TxnDocs(p) PROVE TypeInv' /\ IndexInv'
  BY <1>2, ReadType, IndexRead
<1>3. ASSUME NEW p \in Indexers, LinesEnd(p) PROVE TypeInv' /\ IndexInv'
  BY <1>3, LinesEndType, IndexLinesEnd
<1>4. ASSUME NEW p \in Indexers, Done(p) PROVE TypeInv' /\ IndexInv'
  BY <1>4, EndType, IndexDone
<1>5. ASSUME NEW p \in Indexers, NEW t \in Expenses, UpsertEmbedding(p, t)
      PROVE  TypeInv' /\ IndexInv'
  BY <1>5, VectorType, IndexVector
<1>6. ASSUME NEW p \in Indexers, NEW t \in Expenses, NEW l \in Lines, WriteLine(p, t, l)
      PROVE  TypeInv' /\ IndexInv'
  BY <1>6, LineType, IndexLine
<1>7. ASSUME NEW p \in Indexers, NEW i \in Items, UpsertItemEmbedding(p, i)
      PROVE  TypeInv' /\ IndexInv'
  BY <1>7, ItemType, IndexItem
<1>8. ASSUME NEW p \in Indexers, Abandon(p) PROVE TypeInv' /\ IndexInv'
  <2>1. /\ UNCHANGED <<text, line, vector, itemVec, indexed>> /\ alone' = alone \ {p}
    BY <1>8 DEF Abandon
  <2>2. TypeInv' /\ ~Working(p)' /\ \A q \in Indexers : q # p => job'[q] = job[q]
    BY <1>8, EndType DEF Working
  <2>3. alone' \subseteq alone /\ alone \subseteq Indexers
    BY <2>1 DEF TypeInv, TypeOK
  <2>4. \A q \in Indexers : job'[q] = job[q] \/ (q \notin alone' /\ ~Working(q)')
    BY <2>1, <2>2
  <2> QED
    BY <2>1, <2>2, <2>3, <2>4, Quiet
<1>9. CASE UNCHANGED vars
  <2>1. TypeInv'
    BY <1>9 DEF vars, TypeInv, TypeOK, Jobs
  <2> QED
    <3>1. UNCHANGED <<text, line, vector, itemVec, indexed, alone, job>> /\ alone \subseteq Indexers
      BY <1>9 DEF vars, TypeInv, TypeOK
    <3> QED
      BY <2>1, <3>1, Quiet
<1> QED
  BY <1>1, <1>2, <1>3, <1>4, <1>5, <1>6, <1>7, <1>8, <1>9 DEF Next, Index

LEMMA Inductive == Spec => [](TypeInv /\ IndexInv)
<1>1. Init => TypeInv /\ IndexInv
  BY TypeInit, IndexInit
<1>2. TypeInv /\ IndexInv /\ [Next]_vars => (TypeInv /\ IndexInv)'
  BY Step
<1> QED
  BY <1>1, <1>2, PTL DEF Spec

\* The expenses, the stored lines and vectors, and what every indexer has read
\* have their types.
THEOREM TypeTheorem == Spec => []TypeOK
<1>1. TypeInv => TypeOK
  BY DEF TypeInv
<1> QED
  BY <1>1, Inductive, PTL

\* README.md:134: what an indexer that had the index to itself has indexed with
\* success is found by what it says, whichever step of it or of others failed,
\* was interrupted or came between.
THEOREM FreshTheorem == Spec => []IndexedIsFresh
<1>1. IndexInv => IndexedIsFresh
  BY DEF IndexInv
<1> QED
  BY <1>1, Inductive, PTL
=============================================================================
