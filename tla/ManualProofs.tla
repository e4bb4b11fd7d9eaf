---------------------------- MODULE ManualProofs ----------------------------
(***************************************************************************)
(* The delivery of updates, for any number of them and any ages with       *)
(* Retention <= PurgeAge. Two arguments: the row of a completed update is  *)
(* purged only when Telegram has given the update up, because it is not    *)
(* older than the update; and Poll moves its offset past an update only    *)
(* when that update and all before it are settled.                         *)
(*                                                                         *)
(* Then the manual expenses: ManualExpenses implements that delivery, so   *)
(* that its theorems hold of /add and its cards; and, for any number of    *)
(* updates and expenses, what an undone card and a duplicate hint promise. *)
(***************************************************************************)
EXTENDS ManualExpenses, SequenceTheorems, TLAPS

\* A row is made when its update is delivered, not before that was sent.
Stamps == \A u \in rows : born[u] <= at[u]

\* The row of a completed update is there as long as the update may come.
Remembered == \A u \in completed : u \in done \/ (Expired(u) /\ u \notin batch)

\* Everything below the offset, and the gaps in a batch, are settled.
Passed == \A u \in 1..sent : u < ack \/ u < offset => Settled(u)
Gaps == \A b \in batch : \A u \in 1..sent \ batch : u < b => Settled(u)

DInv ==
  /\ DeliveryTypeOK /\ Stamps /\ Remembered /\ Passed /\ Gaps
  /\ done \subseteq completed
  /\ ~up => batch = {}

LEMMA DeliveryInitInv == DeliveryInit => DInv
<1> SUFFICES ASSUME DeliveryInit PROVE DInv
  OBVIOUS
<1>1. DeliveryTypeOK
  BY BoundAssumption DEF DeliveryInit, DeliveryTypeOK, Ids
<1>2. Stamps /\ Remembered /\ Passed /\ Gaps
  BY DEF DeliveryInit, Stamps, Remembered, Passed, Gaps
<1> QED
  BY <1>1, <1>2 DEF DeliveryInit, DInv

\* HandleUpdate returns for an update that is settled by then.
LEMMA ReturnSettles ==
  ASSUME DInv, NEW u \in Ids, IsNext(u) \/ current = u, Return(u), UNCHANGED <<rows, at>>,
         done \subseteq done', done' \subseteq completed', done' \subseteq rows,
         handled \subseteq handled', completed \subseteq completed', dropped \subseteq dropped',
         handled' \cup completed' \cup dropped' \subseteq 1..sent,
         completed' \subseteq completed \cup done',
         u \in handled' \cup completed' \cup dropped',
         \A b \in batch : u <= b
  PROVE  DInv'
<1>1. /\ u \in 1..sent /\ u \in batch /\ sent \in Nat
      /\ batch' = batch \ {u} /\ offset' = u + 1 /\ current' = 0
      /\ UNCHANGED <<now, sent, born, ack, up>>
  BY DEF IsNext, DInv, DeliveryTypeOK, Return, Ids, clock, telegram
<1>2. DeliveryTypeOK'
  BY <1>1 DEF DInv, DeliveryTypeOK
<1>3. Stamps'
  BY <1>1 DEF DInv, Stamps
<1>4. Remembered'
  BY <1>1 DEF DInv, Remembered, Expired
<1>5. \A w \in 1..sent : Settled(w) => Settled(w)'
  BY <1>1 DEF Settled, Expired
<1>6. Settled(u)'
  BY <1>1 DEF Settled
<1>7. Passed'
  <2> SUFFICES ASSUME NEW w \in 1..sent, w < ack \/ w < u + 1 PROVE Settled(w)'
    BY <1>1 DEF Passed
  <2>1. CASE w < ack
    BY <2>1, <1>5 DEF DInv, Passed
  <2>2. CASE w < u
    <3>1. w \notin batch
      BY <2>2, <1>1
    <3> QED
      BY <3>1, <2>2, <1>1, <1>5 DEF DInv, Gaps
  <2> QED
    BY <2>1, <2>2, <1>1, <1>6
<1>8. Gaps'
  BY <1>1, <1>5, <1>6 DEF DInv, Gaps
<1> QED
  BY <1>1, <1>2, <1>3, <1>4, <1>7, <1>8 DEF DInv

\* The current update is claimed, and the lowest of the batch.
CurrentIsLowest == current # 0 => current \in rows /\ \A b \in batch : current <= b

DeliveryInv == DInv /\ CurrentIsLowest

LEMMA DeliveryNextInv == DeliveryInv /\ [DeliveryNext]_deliveryVars => DeliveryInv'
<1> SUFFICES ASSUME DInv, CurrentIsLowest, [DeliveryNext]_deliveryVars PROVE DInv' /\ CurrentIsLowest'
  BY DEF DeliveryInv
<1> USE BoundAssumption, AgeAssumption
<1>1. CASE Send
  <2>1. /\ sent \in Nat /\ sent' = sent + 1 /\ sent + 1 \in Ids /\ now \in Nat
        /\ born' = [born EXCEPT ![sent + 1] = now]
        /\ UNCHANGED <<now, ack, up, offset, batch, current, rows, at, done, handled, completed, dropped>>
    BY <1>1 DEF Send, Ids, DInv, DeliveryTypeOK, clock, poll, processed, history
  <2>2. DeliveryTypeOK'
    BY <2>1 DEF DInv, DeliveryTypeOK, Ids
  <2>3. /\ \A u \in 1..sent : born'[u] = born[u]
        /\ born'[sent + 1] = now
    BY <2>1 DEF DInv, DeliveryTypeOK, Ids
  <2>4. \A u \in 1..sent : (Settled(u)' <=> Settled(u)) /\ (Expired(u)' <=> Expired(u))
    BY <2>1, <2>3 DEF Settled, Expired
  <2>5. Stamps' /\ Remembered'
    BY <2>1, <2>3, <2>4 DEF DInv, Stamps, Remembered, DeliveryTypeOK
  <2>6. Passed' /\ Gaps'
    BY <2>1, <2>4 DEF DInv, Passed, Gaps, DeliveryTypeOK
  <2> QED
    BY <2>1, <2>2, <2>5, <2>6 DEF DInv, CurrentIsLowest
<1>2. CASE Tick
  <2>1. /\ now' = now + 1 /\ now \in Nat /\ now' \in 0..MaxNow
        /\ UNCHANGED <<sent, born, ack, up, offset, batch, current, rows, at, done, handled, completed, dropped>>
    BY <1>2 DEF Tick, DInv, DeliveryTypeOK, telegram, poll, processed, history
  <2>2. DeliveryTypeOK'
    BY <2>1 DEF DInv, DeliveryTypeOK
  <2>3. \A u \in 1..sent : (Settled(u) => Settled(u)') /\ (Expired(u) => Expired(u)')
    BY <2>1 DEF Settled, Expired, DInv, DeliveryTypeOK, Ids
  <2>4. Stamps' /\ Remembered' /\ Passed' /\ Gaps'
    BY <2>1, <2>3 DEF DInv, Stamps, Remembered, Passed, Gaps, DeliveryTypeOK
  <2> QED
    BY <2>1, <2>2, <2>4 DEF DInv, CurrentIsLowest
<1>3. CASE Crash
  <2>1. /\ up' = FALSE /\ offset' = 0 /\ batch' = {} /\ current' = 0
        /\ UNCHANGED <<now, sent, born, ack, rows, at, done, handled, completed, dropped>>
    BY <1>3 DEF Crash, clock, telegram, processed, history
  <2>2. DeliveryTypeOK'
    <3>1. offset' \in 0..sent + 1 /\ batch' \subseteq 1..sent /\ current' \in batch' \cup {0}
      BY <2>1 DEF DInv, DeliveryTypeOK
    <3>2. up' \in BOOLEAN
      BY <2>1
    <3> QED
      BY <2>1, <3>1, <3>2 DEF DInv, DeliveryTypeOK
  <2>3. Stamps' /\ Remembered'
    BY <2>1 DEF DInv, Stamps, Remembered, Expired
  <2>4. Passed' /\ Gaps'
    BY <2>1 DEF DInv, DeliveryTypeOK, Passed, Gaps, Settled, Expired
  <2> QED
    BY <2>1, <2>2, <2>3, <2>4 DEF DInv, CurrentIsLowest
<1>4. CASE Boot
  <2> DEFINE old == {u \in rows : now - at[u] > PurgeAge}
  <2>1. /\ ~up /\ up' = TRUE /\ batch = {}
        /\ rows' = rows \ old /\ done' = done \ old
        /\ at' = [u \in Ids |-> IF u \in old THEN 0 ELSE at[u]]
        /\ UNCHANGED <<now, sent, born, ack, offset, batch, current, handled, completed, dropped>>
    BY <1>4 DEF Boot, DInv, clock, telegram, history
  <2>2. \A u \in old : Expired(u)
    BY DEF DInv, Stamps, Expired, DeliveryTypeOK, Ids
  <2>3. DeliveryTypeOK'
    <3>1. at' \in [Ids -> 0..now] /\ 0 \in 0..now
      BY <2>1 DEF DInv, DeliveryTypeOK, Ids
    <3> QED
      BY <2>1, <3>1 DEF DInv, DeliveryTypeOK
  <2>4. Stamps'
    BY <2>1 DEF DInv, Stamps, DeliveryTypeOK, Ids
  <2>5. Remembered'
    BY <2>1, <2>2 DEF DInv, Remembered, Expired
  <2>6. Passed' /\ Gaps'
    BY <2>1 DEF DInv, Passed, Gaps, Settled, Expired
  <2>7. current' = 0
    BY <2>1 DEF DInv, DeliveryTypeOK
  <2>8. done' \subseteq completed'
    BY <2>1 DEF DInv
  <2> QED
    BY <2>1, <2>3, <2>4, <2>5, <2>6, <2>7, <2>8 DEF DInv, CurrentIsLowest
<1>5. CASE GetUpdates
  <2>1. /\ up /\ batch = {} /\ ack' = Later(ack, offset) /\ batch' = Deliverable(ack')
        /\ current = 0 /\ sent \in Nat
        /\ UNCHANGED <<now, sent, born, up, offset, current, rows, at, done, handled, completed, dropped>>
    BY <1>5 DEF GetUpdates, DInv, DeliveryTypeOK, clock, processed, history
  <2>2. ack' \in {ack, offset} /\ ack' \in 0..sent + 1
    BY <2>1 DEF Later, DInv, DeliveryTypeOK
  <2>3. batch' \subseteq 1..sent /\ \A u \in batch' : ~Expired(u)
    BY <2>1 DEF Deliverable
  <2>4. DeliveryTypeOK'
    BY <2>1, <2>2, <2>3 DEF DInv, DeliveryTypeOK
  <2>5. Stamps' /\ Remembered' /\ Passed'
    BY <2>1, <2>2, <2>3 DEF DInv, Stamps, Remembered, Passed, Settled, Expired
  <2>6. Gaps'
    <3> SUFFICES ASSUME NEW u \in 1..sent, u \notin batch' PROVE Settled(u)'
      BY <2>1 DEF Gaps
    <3>1. u < ack' \/ Expired(u)
      BY <2>1, <2>2 DEF Deliverable
    <3> QED
      BY <3>1, <2>1, <2>2 DEF DInv, Passed, Settled, Expired
  <2> QED
    BY <2>1, <2>4, <2>5, <2>6 DEF DInv, CurrentIsLowest
<1>6. ASSUME NEW u \in Ids, Claim(u) PROVE DInv' /\ CurrentIsLowest'
  <2>1. /\ IsNext(u) /\ u \in 1..sent /\ current' = u /\ rows' = rows \cup {u}
        /\ at' = [at EXCEPT ![u] = IF u \in rows THEN @ ELSE now]
        /\ UNCHANGED <<now, sent, born, ack, up, offset, batch, done, handled, completed, dropped>>
    BY <1>6 DEF Claim, IsNext, DInv, DeliveryTypeOK, clock, telegram, history
  <2>2. DeliveryTypeOK'
    BY <2>1 DEF IsNext, DInv, DeliveryTypeOK, Ids
  <2>3. Stamps'
    BY <2>1 DEF DInv, Stamps, DeliveryTypeOK, Ids
  <2>4. Remembered' /\ Passed' /\ Gaps'
    BY <2>1 DEF DInv, Remembered, Passed, Gaps, Settled, Expired
  <2> QED
    BY <2>1, <2>2, <2>3, <2>4 DEF DInv, IsNext, CurrentIsLowest
<1>7. ASSUME NEW u \in Ids, Skip(u) PROVE DInv' /\ CurrentIsLowest'
  <2>1. IsNext(u) /\ u \in done /\ Return(u) /\ UNCHANGED <<rows, at, done, handled, completed, dropped>>
    BY <1>7 DEF Skip, processed, history
  <2> QED
    BY <2>1, ReturnSettles DEF IsNext, DInv, DeliveryTypeOK, Return, CurrentIsLowest
<1>8. ASSUME NEW u \in Ids, ClaimFails(u) PROVE DInv' /\ CurrentIsLowest'
  <2>1. /\ IsNext(u) /\ Return(u) /\ dropped' = dropped \cup {u} /\ UNCHANGED <<done, handled, completed>>
        /\ \/ UNCHANGED <<rows, at>>
           \/ u \notin rows /\ rows' = rows \cup {u} /\ at' = [at EXCEPT ![u] = now]
        /\ u \in 1..sent
    BY <1>8 DEF ClaimFails, IsNext, DInv, DeliveryTypeOK
  <2>2. CASE UNCHANGED <<rows, at>>
    BY <2>1, <2>2, ReturnSettles DEF IsNext, DInv, DeliveryTypeOK, Return, CurrentIsLowest
  <2>3. CASE u \notin rows /\ rows' = rows \cup {u} /\ at' = [at EXCEPT ![u] = now]
    <3>1. /\ batch' = batch \ {u} /\ offset' = u + 1 /\ current' = 0
          /\ UNCHANGED <<now, sent, born, ack, up>> /\ u \in batch
          /\ \A b \in batch : u <= b
      BY <2>1 DEF Return, IsNext, clock, telegram
    <3>2. DeliveryTypeOK'
      BY <2>1, <2>3, <3>1 DEF DInv, DeliveryTypeOK, Ids
    <3>3. Stamps'
      BY <2>1, <2>3, <3>1 DEF DInv, Stamps, DeliveryTypeOK, Ids
    <3>4. Remembered'
      BY <2>1, <3>1 DEF DInv, Remembered, Expired
    <3>5. \A w \in 1..sent : Settled(w) => Settled(w)'
      BY <2>1, <3>1 DEF Settled, Expired
    <3>6. Settled(u)'
      BY <2>1 DEF Settled
    <3>7. \A w \in 1..sent : w < u => Settled(w)
      BY <3>1, <2>1 DEF DInv, Gaps
    <3>8. Passed'
      BY <2>1, <3>1, <3>5, <3>6, <3>7 DEF DInv, Passed
    <3>9. Gaps'
      BY <2>1, <3>1, <3>5, <3>6 DEF DInv, Gaps
    <3> QED
      BY <2>1, <3>1, <3>2, <3>3, <3>4, <3>8, <3>9 DEF DInv, CurrentIsLowest
  <2> QED
    BY <2>1, <2>2, <2>3
<1>9. ASSUME NEW u \in Ids, Complete(u) \/ CompleteFails(u) \/ Panic(u) PROVE DInv' /\ CurrentIsLowest'
  <2>1. /\ current = u /\ Return(u) /\ UNCHANGED <<rows, at>> /\ u \in batch /\ u \in 1..sent
    BY <1>9 DEF Complete, CompleteFails, Panic, DInv, DeliveryTypeOK, processed, Ids
  <2>2. u \in rows /\ \A b \in batch : u <= b
    BY <2>1 DEF CurrentIsLowest
  <2>3. CASE Complete(u)
    BY <2>1, <2>2, <2>3, ReturnSettles DEF Complete, DInv, DeliveryTypeOK, Return, CurrentIsLowest
  <2>4. CASE CompleteFails(u) \/ Panic(u)
    BY <2>1, <2>2, <2>4, ReturnSettles DEF CompleteFails, Panic, DInv, DeliveryTypeOK, Return, CurrentIsLowest, processed
  <2> QED
    BY <1>9, <2>3, <2>4
<1>10. ASSUME NEW u \in Ids, CompleteInside(u) PROVE DInv' /\ CurrentIsLowest'
  BY <1>10 DEF CompleteInside, DInv, CurrentIsLowest, DeliveryTypeOK, Stamps, Remembered, Passed, Gaps,
     Settled, Expired, clock, telegram, poll, processed, history
<1>11. CASE UNCHANGED deliveryVars
  BY <1>11 DEF deliveryVars, DInv, CurrentIsLowest, DeliveryTypeOK, Stamps, Remembered, Passed, Gaps,
     Settled, Expired
<1> QED
  BY <1>1, <1>2, <1>3, <1>4, <1>5, <1>6, <1>7, <1>8, <1>9, <1>10, <1>11 DEF DeliveryNext

\* The inductive invariant of the delivery.
THEOREM DeliveryInductive == DeliverySpec => []DeliveryInv
<1>1. DeliveryInit => DeliveryInv
  BY DeliveryInitInv DEF DeliveryInit, DeliveryInv, CurrentIsLowest
<1>2. DeliveryInv /\ [DeliveryNext]_deliveryVars => DeliveryInv'
  BY DeliveryNextInv
<1> QED
  BY <1>1, <1>2, PTL DEF DeliverySpec

\* 0001_init.sql:58: although the rows of processed_updates are purged, no
\* completed update is ever handled again, however late it is delivered.
THEOREM HandledOnceTheorem == DeliverySpec => HandledOnce
<1>1. DeliveryInv /\ [DeliveryNext]_deliveryVars
        => [\A u \in completed : current' = u => current = u]_deliveryVars
  <2> SUFFICES ASSUME DeliveryInv, DeliveryNext, NEW u \in completed, current' = u
               PROVE  current = u
    OBVIOUS
  <2>1. u # 0
    BY DEF DeliveryInv, DInv, DeliveryTypeOK
  <2>2. \A w \in Ids : ~Claim(w)  \/ w # u
    BY DEF Claim, IsNext, DeliveryInv, DInv, Remembered
  <2>3. current' \in {0, current} \/ \E w \in Ids : Claim(w) /\ current' = w
    BY DEF DeliveryNext, Send, Tick, Crash, Boot, GetUpdates, Claim, Skip, ClaimFails, Complete,
       CompleteInside, CompleteFails, Panic, Return, poll
  <2> QED
    BY <2>1, <2>2, <2>3
<1> QED
  BY <1>1, DeliveryInductive, PTL DEF DeliverySpec, HandledOnce

\* serve.go:54-59: an update that Telegram has dropped was handled, or logged as
\* a failed claim or a panic, or it had expired: a crash loses none.
THEOREM NothingForgottenTheorem == DeliverySpec => []NothingIsForgotten
<1>1. DeliveryInv => NothingIsForgotten
  BY DEF DeliveryInv, DInv, Passed, NothingIsForgotten
<1> QED
  BY <1>1, DeliveryInductive, PTL

-----------------------------------------------------------------------------
(* The refinement: each step of ManualExpenses is one of Updates, or leaves  *)
(* the delivery as it is.                                                    *)

LEMMA StepDelivers == [Next]_vars => [DeliveryNext]_deliveryVars
<1> SUFFICES ASSUME [Next]_vars PROVE [DeliveryNext]_deliveryVars
  OBVIOUS
<1>1. CASE User
  BY <1>1 DEF User, SendAdd, TapUndo, Reply, Ask, CliAdd, CliVoid, DeliveryNext
<1>2. CASE Handler
  BY <1>2 DEF Handler, FindDuplicate, AddTransaction, Answer, Index, Undo, DrawUndone, Edit, Redraw
<1>3. CASE Poll
  BY <1>3 DEF Poll, Fetch, Begin, End, DeliveryNext
<1>4. CASE Wait \/ Killed \/ Restart
  BY <1>4 DEF Wait, Killed, Restart, DeliveryNext
<1>5. CASE UNCHANGED vars
  BY <1>5 DEF vars
<1> QED
  BY <1>1, <1>2, <1>3, <1>4, <1>5 DEF Next

\* Manual expenses ride on the delivery of updates and take nothing from it.
THEOREM ManualDelivers == Spec => DeliverySpec
<1>1. Init => DeliveryInit
  BY DEF Init
<1> QED
  BY <1>1, StepDelivers, PTL DEF Spec, DeliverySpec

\* An /add, a tap or a reply that was completed is never handled again.
THEOREM ManualHandledOnce == Spec => HandledOnce
BY ManualDelivers, HandledOnceTheorem, PTL

\* No crash loses an /add, a tap or a reply.
THEOREM ManualNothingForgotten == Spec => []NothingIsForgotten
BY ManualDelivers, NothingForgottenTheorem, PTL

-----------------------------------------------------------------------------
(* The handlers. Commands at a shell add and void rows beside them, but      *)
(* nothing makes a row active again, and only a reply changes a total.       *)

Rows == [from : Nat, total : Totals, active : BOOLEAN]
CardsOf(n) == [row : 1..n, face : {"saved", "undone"}, total : Totals, hint : BOOLEAN, undo : BOOLEAN]

Shape ==
  /\ expenses \in Seq(Rows)
  /\ chat \in Seq(CardsOf(Len(expenses)))
  /\ asks \in Seq([kind : {"add", "undo", "reply"}, total : Totals, card : 0..Len(chat)])
  /\ Len(asks) = sent
  /\ job \in [stage : Stages, found : {"none", "hit", "error"}, row : 0..Len(expenses)]

\* The handler acts for an update of its own kind, on a row that exists.
InCharge ==
  /\ \A u \in 1..sent : asks[u].kind # "add" => asks[u].card \in 1..Len(chat)
  /\ job.stage # "idle" => current \in 1..sent
  /\ job.stage \in {"undo", "undone", "edit", "redraw"} => Asked.kind # "add"
  /\ job.stage \in {"answer", "undo", "undone", "edit", "redraw"} => job.row \in 1..Len(expenses)
  /\ job.stage = "undone" => ~Active(job.row)

\* What FindDuplicate found is about rows before the one that is inserted.
Found ==
  /\ job.stage = "insert" /\ job.found = "hit" =>
       \E i \in 1..Len(expenses) : expenses[i].total = Asked.total
  /\ job.stage = "answer" =>
       /\ expenses[job.row].total = Asked.total
       /\ job.found = "hit" => \E i \in 1..job.row - 1 : expenses[i].total = Asked.total

MInv == Shape /\ InCharge /\ Found /\ UndoneIsOut

LEMMA InitManual == Init => MInv
<1> SUFFICES ASSUME Init PROVE MInv
  OBVIOUS
<1>1. /\ expenses = << >> /\ chat = << >> /\ asks = << >> /\ sent = 0
      /\ job = [stage |-> "idle", found |-> "none", row |-> 0]
  BY DEF Init, DeliveryInit, Idle
<1>2. Shape
  BY <1>1 DEF Shape, Stages
<1> QED
  BY <1>1, <1>2 DEF MInv, InCharge, Found, UndoneIsOut

\* A step that leaves the bot's own variables alone, apart from Send.
LEMMA Elsewhere ==
  ASSUME MInv, UNCHANGED manual, sent' = sent, current' = current \/ job.stage = "idle"
  PROVE  MInv'
BY DEF MInv, Shape, InCharge, Found, UndoneIsOut, manual, Asked, Active

\* A new row, and a row that is voided, disturb nothing the handler knows.
LEMMA RowInserted ==
  ASSUME MInv, NEW u \in Nat, NEW total \in Totals, Insert(u, total),
         UNCHANGED <<sent, current, asks, chat>>,
         job' \in [stage : Stages, found : {"none", "hit", "error"}, row : 0..Len(expenses) + 1],
         job'.stage # "idle" => job.stage # "idle",
         \/ job' = job
         \/ job'.stage = "return"
         \/ (/\ job.stage = "insert" /\ job'.stage = "answer" /\ job'.found = job.found
               /\ job'.row = Len(expenses) + 1 /\ total = Asked.total)
  PROVE  MInv'
<1> DEFINE n == Len(expenses)
<1>1. /\ n \in Nat /\ expenses' \in Seq(Rows) /\ Len(expenses') = n + 1
      /\ \A i \in 1..n : expenses'[i] = expenses[i]
      /\ expenses'[n + 1].total = total
  BY DEF Insert, MInv, Shape, Rows
<1>2. /\ chat \in Seq(CardsOf(n)) /\ asks \in Seq([kind : {"add", "undo", "reply"}, total : Totals, card : 0..Len(chat)])
      /\ job \in [stage : Stages, found : {"none", "hit", "error"}, row : 0..n]
  BY DEF MInv, Shape
<1>3. \A m \in 1..Len(chat) : chat[m] \in CardsOf(n) /\ chat[m].row \in 1..n
  <2>1. \A m \in 1..Len(chat) : chat[m] \in CardsOf(n)
    BY <1>2
  <2> QED
    BY <2>1 DEF CardsOf
<1>4. chat \in Seq(CardsOf(n + 1))
  <2>1. CardsOf(n) \subseteq CardsOf(n + 1)
    BY <1>1 DEF CardsOf
  <2> QED
    BY <1>2, <2>1
<1>5. Shape'
  BY <1>1, <1>2, <1>4 DEF MInv, Shape
<1>6. UndoneIsOut'
  <2>1. \A m \in 1..Len(chat) : expenses'[chat[m].row] = expenses[chat[m].row]
    BY <1>1, <1>3
  <2> QED
    BY <1>2, <2>1 DEF MInv, UndoneIsOut, Active
<1>7. InCharge'
  BY <1>1, <1>2 DEF MInv, InCharge, Asked, Active
<1>8. Found'
  <2>1. CASE job' = job
    <3>1. job.stage = "answer" => \A i \in 1..job.row : expenses'[i] = expenses[i]
      BY <1>1, <1>2
    <3>2. job.stage = "answer" => job.row \in 1..n
      BY DEF MInv, InCharge
    <3> QED
      BY <1>1, <2>1, <3>1, <3>2 DEF MInv, Found, Asked
  <2>2. CASE job'.stage = "return"
    BY <2>2 DEF Found
  <2>3. CASE job.stage = "insert" /\ job'.stage = "answer"
    <3>1. Asked' = Asked /\ job'.found = job.found /\ job'.row = n + 1 /\ total = Asked.total
      BY <2>3 DEF Asked
    <3>2. job.found = "hit" => \E i \in 1..n : expenses'[i].total = Asked.total
      BY <1>1, <2>3 DEF MInv, Found
    <3> QED
      BY <1>1, <2>3, <3>1, <3>2 DEF Found
  <2> QED
    BY <2>1, <2>2, <2>3
<1> QED
  BY <1>5, <1>6, <1>7, <1>8 DEF MInv

\* A row is voided, by a shell or by the handler that a button started.
LEMMA RowVoided ==
  ASSUME MInv, NEW i \in 1..Len(expenses), Voided(i), UNCHANGED <<sent, current, asks, chat>>,
         \/ job' = job
         \/ job.stage = "undo" /\ i = job.row /\ job' = [job EXCEPT !.stage = "undone"]
  PROVE  MInv'
<1> DEFINE n == Len(expenses)
<1>1. /\ n \in Nat /\ expenses' \in Seq(Rows) /\ Len(expenses') = n
      /\ \A k \in 1..n : expenses'[k].total = expenses[k].total
      /\ \A k \in 1..n : expenses'[k].active => expenses[k].active
      /\ ~expenses'[i].active
  <2>1. expenses \in Seq(Rows) /\ expenses' = [expenses EXCEPT ![i].active = FALSE]
    BY DEF Voided, MInv, Shape
  <2>2. \A k \in 1..n : expenses[k] \in Rows
    BY <2>1
  <2>3. /\ n \in Nat /\ Len(expenses') = n /\ DOMAIN expenses' = 1..n
        /\ \A k \in 1..n : expenses'[k] = IF k = i THEN [expenses[i] EXCEPT !.active = FALSE]
                                         ELSE expenses[k]
    BY <2>1
  <2>4. \A k \in 1..n : expenses'[k] \in Rows
    BY <2>2, <2>3 DEF Rows
  <2>5. expenses' \in Seq(Rows)
    <3>1. [expenses[i] EXCEPT !.active = FALSE] \in Rows
      BY <2>2 DEF Rows
    <3>2. expenses' = [expenses EXCEPT ![i] = [expenses[i] EXCEPT !.active = FALSE]]
      BY <2>1
    <3> QED
      BY <2>1, <3>1, <3>2, ExceptSeq
  <2> QED
    BY <2>2, <2>3, <2>5 DEF Rows
<1>2. /\ chat \in Seq(CardsOf(n)) /\ asks \in Seq([kind : {"add", "undo", "reply"}, total : Totals, card : 0..Len(chat)])
      /\ job \in [stage : Stages, found : {"none", "hit", "error"}, row : 0..n]
  BY DEF MInv, Shape
<1>3. \A m \in 1..Len(chat) : chat[m].row \in 1..n
  <2>1. \A m \in 1..Len(chat) : chat[m] \in CardsOf(n)
    BY <1>2
  <2> QED
    BY <2>1 DEF CardsOf
<1>4. job' \in [stage : Stages, found : {"none", "hit", "error"}, row : 0..n]
  BY <1>2 DEF Stages
<1>5. Shape'
  BY <1>1, <1>2, <1>4 DEF MInv, Shape
<1>6. UndoneIsOut'
  <2>1. \A m \in DOMAIN chat : m \in 1..Len(chat)
    BY <1>2
  <2>2. \A m \in DOMAIN chat : chat[m].undo \/ ~expenses[chat[m].row].active
    BY DEF MInv, UndoneIsOut, Active
  <2>3. \A m \in DOMAIN chat : chat[m].undo \/ ~expenses'[chat[m].row].active
    BY <1>1, <1>3, <2>1, <2>2
  <2> QED
    BY <2>3 DEF UndoneIsOut, Active
<1>7. InCharge'
  BY <1>1, <1>2 DEF MInv, InCharge, Asked, Active
<1>8. Found'
  BY <1>1, <1>2 DEF MInv, InCharge, Found, Asked
<1> QED
  BY <1>5, <1>6, <1>7, <1>8 DEF MInv

\* Cards are drawn: one may say "undone" only of an expense that is.
LEMMA CardsDrawn ==
  ASSUME MInv, UNCHANGED <<sent, current, asks, expenses>>, NEW stage \in {"index", "return"},
         job.stage # "idle", job' = [job EXCEPT !.stage = stage],
         chat' \in Seq(CardsOf(Len(expenses))), Len(chat') >= Len(chat),
         \A m \in 1..Len(chat') :
           \/ m \in 1..Len(chat) /\ chat'[m] = chat[m]
           \/ chat'[m].undo \/ ~Active(chat'[m].row)
  PROVE  MInv'
<1>1. Shape'
  <2>1. 0..Len(chat) \subseteq 0..Len(chat')
    BY DEF MInv, Shape
  <2>2. asks' \in Seq([kind : {"add", "undo", "reply"}, total : Totals, card : 0..Len(chat')])
    <3> DEFINE Old == [kind : {"add", "undo", "reply"}, total : Totals, card : 0..Len(chat)]
               New == [kind : {"add", "undo", "reply"}, total : Totals, card : 0..Len(chat')]
    <3>1. Old \subseteq New
      BY <2>1
    <3>2. asks \in Seq(Old)
      BY DEF MInv, Shape
    <3> HIDE DEF Old, New
    <3>3. asks' \in Seq(New)
      BY <3>1, <3>2, SeqMonotonic
    <3> QED
      BY <3>3 DEF New
  <2>3. job' \in [stage : Stages, found : {"none", "hit", "error"}, row : 0..Len(expenses)]
    BY DEF MInv, Shape, Stages
  <2> QED
    BY <2>2, <2>3 DEF MInv, Shape
<1>2. job'.stage = stage
  BY DEF MInv, Shape
<1>3. InCharge'
  <2>1. \A c \in 1..Len(chat) : c \in 1..Len(chat')
    BY DEF MInv, Shape
  <2>2. current \in 1..sent \/ job.stage = "idle"
    BY DEF MInv, InCharge
  <2> QED
    BY <1>2, <2>1, <2>2 DEF MInv, InCharge
<1>4. Found'
  BY <1>2 DEF Found
<1>5. UndoneIsOut'
  <2>1. /\ DOMAIN chat' = 1..Len(chat') /\ DOMAIN chat = 1..Len(chat)
    BY DEF MInv, Shape
  <2> QED
    BY <2>1 DEF MInv, UndoneIsOut, Active
<1> QED
  BY <1>1, <1>3, <1>4, <1>5 DEF MInv

\* The user asks for something, of a card or not.
LEMMA Asks ==
  ASSUME MInv, NEW total \in Totals, NEW card \in 0..Len(chat), NEW kind \in {"add", "undo", "reply"},
         kind # "add" => card # 0, sent \in Nat, Ask(kind, total, card)
  PROVE  MInv'
<1> DEFINE Asking == [kind : {"add", "undo", "reply"}, total : Totals, card : 0..Len(chat)]
           ask == [kind |-> kind, total |-> total, card |-> card]
<1>1. /\ asks' = Append(asks, ask) /\ ask \in Asking /\ asks \in Seq(Asking) /\ Len(asks) = sent
      /\ sent' = sent + 1 /\ UNCHANGED <<world, expenses, chat, job, current>>
  BY DEF Ask, Send, MInv, Shape, poll
<1> HIDE DEF Asking
<1>2. /\ asks' \in Seq(Asking) /\ Len(asks') = sent' /\ asks'[sent + 1] = ask
      /\ \A u \in 1..sent : asks'[u] = asks[u]
  BY <1>1
<1>3. Shape'
  BY <1>1, <1>2 DEF MInv, Shape, Asking
<1>4. InCharge'
  <2>1. \A u \in 1..sent + 1 : asks'[u].kind # "add" => asks'[u].card \in 1..Len(chat)
    <3> SUFFICES ASSUME NEW u \in 1..sent + 1 PROVE asks'[u].kind # "add" => asks'[u].card \in 1..Len(chat)
      OBVIOUS
    <3>1. CASE u = sent + 1
      BY <1>2, <3>1
    <3>2. CASE u \in 1..sent
      BY <1>2, <3>2 DEF MInv, InCharge
    <3> QED
      BY <3>1, <3>2
  <2>2. job.stage # "idle" => Asked' = Asked
    BY <1>1, <1>2 DEF MInv, InCharge, Asked
  <2> QED
    BY <1>1, <2>1, <2>2 DEF MInv, InCharge, Active
<1>5. Found' /\ UndoneIsOut'
  <2>1. job.stage # "idle" => Asked' = Asked
    BY <1>1, <1>2 DEF MInv, InCharge, Asked
  <2> QED
    BY <1>1, <2>1 DEF MInv, Found, UndoneIsOut, Active
<1> QED
  BY <1>3, <1>4, <1>5 DEF MInv

\* The handler of an update begins, or is over however it was left.
LEMMA JobBegins ==
  ASSUME MInv, NEW u \in 1..sent, current' = u, UNCHANGED <<sent, world, asks, expenses, chat>>,
         job' = [stage |-> FirstStage(asks[u]), found |-> "none",
                 row |-> IF asks[u].card = 0 THEN 0 ELSE chat[asks[u].card].row]
  PROVE  MInv'
<1>1. /\ asks[u].kind \in {"add", "undo", "reply"} /\ asks[u].card \in 0..Len(chat)
      /\ asks[u].kind # "add" => asks[u].card \in 1..Len(chat)
  <2> DEFINE Asking == [kind : {"add", "undo", "reply"}, total : Totals, card : 0..Len(chat)]
  <2>1. asks \in Seq(Asking) /\ u \in 1..Len(asks)
    BY DEF MInv, Shape
  <2>2. asks[u] \in Asking
    <3> HIDE DEF Asking
    <3> QED
      BY <2>1
  <2> QED
    BY <2>2 DEF MInv, InCharge
<1>2. asks[u].card # 0 => chat[asks[u].card].row \in 1..Len(expenses)
  <2>1. \A m \in 1..Len(chat) : chat[m] \in CardsOf(Len(expenses))
    BY DEF MInv, Shape
  <2>2. Len(chat) \in Nat
    BY DEF MInv, Shape
  <2> QED
    BY <1>1, <2>1, <2>2 DEF CardsOf
<1>3. /\ job'.stage = FirstStage(asks[u]) /\ job'.stage \in {"check", "undo", "edit"}
      /\ asks[u].kind = "add" => job'.stage = "check"
      /\ asks[u].kind # "add" => job'.row \in 1..Len(expenses)
      /\ job' \in [stage : Stages, found : {"none", "hit", "error"}, row : 0..Len(expenses)]
  BY <1>1, <1>2 DEF FirstStage, Stages, MInv, Shape
<1> QED
  BY <1>1, <1>3 DEF MInv, Shape, InCharge, Found, UndoneIsOut, Asked, Active

LEMMA JobEnds ==
  ASSUME MInv, job' = Idle, UNCHANGED <<sent, world, asks, expenses, chat>>
  PROVE  MInv'
BY DEF MInv, Shape, InCharge, Found, UndoneIsOut, Active, Idle, Stages

\* The total of a row is changed by a reply.
LEMMA RowEdited ==
  ASSUME MInv, Edit PROVE MInv'
<1>1. CASE UNCHANGED expenses
  BY <1>1 DEF Edit, Goto, MInv, Shape, InCharge, Found, UndoneIsOut, Asked, Active, Stages, deliveryVars
<1>2. CASE expenses' = [expenses EXCEPT ![job.row].total = Asked.total] /\ job' = [job EXCEPT !.stage = "redraw"]
  <2> DEFINE n == Len(expenses)
  <2>1. job.stage = "edit" /\ UNCHANGED <<sent, current, asks, chat>>
    BY DEF Edit, deliveryVars
  <2>2. job.row \in 1..n /\ expenses \in Seq(Rows) /\ n \in Nat /\ \A k \in 1..n : expenses[k] \in Rows
    BY <2>1 DEF MInv, Shape, InCharge
  <2>3. Asked.total \in Totals
    <3> DEFINE Asking == [kind : {"add", "undo", "reply"}, total : Totals, card : 0..Len(chat)]
    <3>1. asks \in Seq(Asking) /\ current \in 1..Len(asks)
      BY <2>1 DEF MInv, Shape, InCharge
    <3>2. asks[current] \in Asking
      <4> HIDE DEF Asking
      <4> QED
        BY <3>1
    <3> QED
      BY <3>2 DEF Asked
  <2>4. /\ expenses' \in Seq(Rows) /\ Len(expenses') = n
        /\ \A k \in 1..n : expenses'[k].active = expenses[k].active
    <3>1. [expenses[job.row] EXCEPT !.total = Asked.total] \in Rows
      BY <2>2, <2>3 DEF Rows
    <3>2. expenses' = [expenses EXCEPT ![job.row] = [expenses[job.row] EXCEPT !.total = Asked.total]]
      BY <1>2
    <3>3. expenses' \in Seq(Rows) /\ Len(expenses') = n
      BY <2>2, <3>1, <3>2, ExceptSeq
    <3> QED
      BY <2>2, <3>2, <3>3 DEF Rows
  <2>5. Shape'
    BY <1>2, <2>1, <2>4 DEF MInv, Shape, Stages
  <2>6. job'.stage = "redraw" /\ job'.row = job.row
    BY <1>2 DEF MInv, Shape
  <2>7. InCharge' /\ Found'
    BY <2>1, <2>2, <2>4, <2>6 DEF MInv, InCharge, Found, Asked, Active
  <2>8. UndoneIsOut'
    <3>1. \A m \in DOMAIN chat : chat[m].row \in 1..n
      <4>1. \A m \in DOMAIN chat : chat[m] \in CardsOf(n)
        BY DEF MInv, Shape
      <4> QED
        BY <4>1 DEF CardsOf
    <3>2. \A m \in DOMAIN chat : chat[m].undo \/ ~expenses[chat[m].row].active
      BY DEF MInv, UndoneIsOut, Active
    <3> QED
      BY <2>1, <2>4, <3>1, <3>2 DEF UndoneIsOut, Active
  <2> QED
    BY <2>5, <2>7, <2>8 DEF MInv
<1> QED
  BY <1>1, <1>2 DEF Edit, Goto

LEMMA AskedIsAsked ==
  ASSUME MInv, job.stage # "idle"
  PROVE  /\ Asked \in [kind : {"add", "undo", "reply"}, total : Totals, card : 0..Len(chat)]
         /\ Asked.kind # "add" => Asked.card \in 1..Len(chat)
<1> DEFINE Asking == [kind : {"add", "undo", "reply"}, total : Totals, card : 0..Len(chat)]
<1>1. asks \in Seq(Asking) /\ current \in 1..Len(asks) /\ current \in 1..sent
  BY DEF MInv, Shape, InCharge
<1>2. asks[current] \in Asking
  <2> HIDE DEF Asking
  <2> QED
    BY <1>1
<1> QED
  BY <1>1, <1>2 DEF Asked, MInv, InCharge

\* What the handler of /add does to rows and cards.
LEMMA AddKeeps == ASSUME MInv, sent \in Nat, FindDuplicate \/ AddTransaction \/ Answer PROVE MInv'
<1>1. CASE FindDuplicate
  <2>1. /\ job.stage = "check" /\ UNCHANGED <<sent, current, asks, expenses, chat>>
        /\ job'.stage = "insert" /\ job'.row = job.row
        /\ job'.found \in {"none", "hit", "error"}
        /\ job'.found = "hit" => Alike(Asked.total) # {}
    BY <1>1 DEF FindDuplicate, deliveryVars, MInv, Shape
  <2>2. Shape'
    BY <1>1, <2>1 DEF FindDuplicate, MInv, Shape, Stages
  <2>3. InCharge' /\ UndoneIsOut'
    BY <2>1 DEF MInv, InCharge, UndoneIsOut, Active
  <2>4. Found'
    <3>1. DOMAIN expenses = 1..Len(expenses)
      BY DEF MInv, Shape
    <3>2. Asked' = Asked
      BY <2>1 DEF Asked
    <3> QED
      BY <2>1, <3>1, <3>2 DEF Found, Alike
  <2> QED
    BY <2>2, <2>3, <2>4 DEF MInv
<1>2. CASE AddTransaction
  <2> DEFINE n == Len(expenses)
  <2>1. /\ job.stage = "insert" /\ UNCHANGED <<sent, current, asks, chat>>
        /\ job \in [stage : Stages, found : {"none", "hit", "error"}, row : 0..n] /\ n \in Nat
    BY <1>2 DEF AddTransaction, deliveryVars, MInv, Shape
  <2>2. Asked.total \in Totals /\ current \in Nat
    BY <2>1, AskedIsAsked DEF MInv, InCharge
  <2>3. CASE Insert(current, Asked.total) /\ job' = [job EXCEPT !.stage = "answer", !.row = n + 1]
    <3>1. /\ job'.stage = "answer" /\ job'.found = job.found /\ job'.row = n + 1
          /\ job' \in [stage : Stages, found : {"none", "hit", "error"}, row : 0..n + 1]
      <4>1. job' = [stage |-> "answer", found |-> job.found, row |-> n + 1]
        BY <2>1, <2>3
      <4>2. n + 1 \in 0..n + 1 /\ job.found \in {"none", "hit", "error"}
        BY <2>1
      <4> QED
        BY <4>1, <4>2 DEF Stages
    <3> QED
      BY <2>1, <2>2, <2>3, <3>1, RowInserted
  <2>4. CASE Insert(current, Asked.total) /\ Goto("return")
    <3>1. /\ job'.stage = "return"
          /\ job' \in [stage : Stages, found : {"none", "hit", "error"}, row : 0..n + 1]
      BY <2>1, <2>4 DEF Stages, Goto
    <3> QED
      BY <2>1, <2>2, <2>4, <3>1, RowInserted
  <2>5. CASE Goto("return") /\ UNCHANGED expenses
    <3>1. /\ job'.stage = "return"
          /\ job' \in [stage : Stages, found : {"none", "hit", "error"}, row : 0..n]
      BY <2>1, <2>5 DEF Stages, Goto
    <3> QED
      BY <2>1, <2>5, <3>1 DEF MInv, Shape, InCharge, Found, UndoneIsOut, Active
  <2> QED
    BY <1>2, <2>3, <2>4, <2>5 DEF AddTransaction
<1>3. CASE Answer
  <2>1. /\ job.stage = "answer" /\ UNCHANGED <<sent, current, asks, expenses>>
        /\ job' = [job EXCEPT !.stage = "index"]
        /\ chat \in Seq(CardsOf(Len(expenses))) /\ job.row \in 1..Len(expenses)
    BY <1>3 DEF Answer, Goto, deliveryVars, MInv, Shape, InCharge
  <2> DEFINE card == SavedCard(job.row, Asked.total, job.found = "hit")
  <2>2. card \in CardsOf(Len(expenses)) /\ card.undo
    BY <2>1, AskedIsAsked DEF SavedCard, CardsOf
  <2>3. CASE chat' = Append(chat, card)
    <3> HIDE DEF card
    <3>1. chat' \in Seq(CardsOf(Len(expenses))) /\ Len(chat') = Len(chat) + 1 /\ Len(chat) \in Nat
      BY <2>1, <2>2, <2>3
    <3>2. \A m \in 1..Len(chat') : (m \in 1..Len(chat) /\ chat'[m] = chat[m]) \/ chat'[m] = card
      BY <2>1, <2>2, <2>3, <3>1
    <3> QED
      BY <2>1, <2>2, <3>1, <3>2, CardsDrawn
  <2>4. CASE UNCHANGED chat
    BY <2>1, <2>4, CardsDrawn DEF MInv, Shape
  <2> QED
    BY <1>3, <2>3, <2>4 DEF Answer
<1> QED
  BY <1>1, <1>2, <1>3

\* What the button and the reply do.
LEMMA CardKeeps == ASSUME MInv, Undo \/ DrawUndone \/ Redraw \/ Index PROVE MInv'
<1> DEFINE Cards == CardsOf(Len(expenses))
<1>0. chat \in Seq(Cards) /\ Len(chat) \in Nat /\ UNCHANGED <<sent, current, asks>>
  <2>1. chat \in Seq(Cards)
    BY DEF MInv, Shape
  <2>2. Len(chat) \in Nat
    BY <2>1
  <2> QED
    BY <2>1, <2>2 DEF Undo, DrawUndone, Redraw, Index, deliveryVars
<1>1. CASE Undo
  <2>1. job.stage = "undo" /\ UNCHANGED chat /\ job.row \in 1..Len(expenses)
    BY <1>1 DEF Undo, MInv, InCharge
  <2>2. CASE Voided(job.row) /\ Goto("undone")
    BY <1>0, <2>1, <2>2, RowVoided DEF Goto
  <2>3. CASE Goto("return") /\ UNCHANGED expenses
    BY <1>0, <2>1, <2>3, CardsDrawn DEF Goto
  <2> QED
    BY <1>1, <2>2, <2>3 DEF Undo
<1>2. CASE DrawUndone
  <2> DEFINE card == UndoneCard(job.row, expenses[job.row].total)
  <2>1. /\ job.stage = "undone" /\ UNCHANGED expenses /\ job' = [job EXCEPT !.stage = "return"]
        /\ job.row \in 1..Len(expenses) /\ ~Active(job.row) /\ expenses[job.row] \in Rows
        /\ Asked.card \in 1..Len(chat)
    BY <1>2, AskedIsAsked DEF DrawUndone, Goto, MInv, Shape, InCharge
  <2>2. card \in Cards /\ ~Active(card.row)
    BY <2>1 DEF UndoneCard, CardsOf, Rows
  <2> HIDE DEF card, Cards
  <2>3. /\ chat' \in Seq(Cards) /\ Len(chat') >= Len(chat)
        /\ \A m \in 1..Len(chat') : (m \in 1..Len(chat) /\ chat'[m] = chat[m]) \/ chat'[m] = card
    <3>1. chat' \in {[chat EXCEPT ![Asked.card] = card], Append(chat, card), chat}
      BY <1>2 DEF DrawUndone, card
    <3>2. CASE chat' = [chat EXCEPT ![Asked.card] = card]
      BY <1>0, <2>1, <2>2, <3>2, ExceptSeq
    <3>3. CASE chat' = Append(chat, card)
      BY <1>0, <2>2, <3>3
    <3> QED
      BY <1>0, <3>1, <3>2, <3>3
  <2> QED
    BY <1>0, <2>1, <2>2, <2>3, CardsDrawn DEF Cards
<1>3. CASE Redraw
  <2> DEFINE card == SavedCard(job.row, Asked.total, FALSE)
  <2>1. /\ job.stage = "redraw" /\ UNCHANGED expenses
        /\ job' \in {[job EXCEPT !.stage = "index"], [job EXCEPT !.stage = "return"]}
        /\ job.row \in 1..Len(expenses) /\ Asked.card \in 1..Len(chat) /\ Asked.total \in Totals
    BY <1>3, AskedIsAsked DEF Redraw, Goto, MInv, InCharge
  <2>2. card \in Cards /\ card.undo
    BY <2>1 DEF SavedCard, CardsOf
  <2> HIDE DEF card, Cards
  <2>3. /\ chat' \in Seq(Cards) /\ Len(chat') >= Len(chat)
        /\ \A m \in 1..Len(chat') : (m \in 1..Len(chat) /\ chat'[m] = chat[m]) \/ chat'[m] = card
    <3>1. chat' \in {[chat EXCEPT ![Asked.card] = card], chat}
      BY <1>3 DEF Redraw, card
    <3>2. CASE chat' = [chat EXCEPT ![Asked.card] = card]
      BY <1>0, <2>1, <2>2, <3>2, ExceptSeq
    <3> QED
      BY <1>0, <3>1, <3>2
  <2> QED
    BY <1>0, <2>1, <2>2, <2>3, CardsDrawn DEF Cards
<1>4. CASE Index
  BY <1>0, <1>4, CardsDrawn DEF Index, Goto
<1> QED
  BY <1>1, <1>2, <1>3, <1>4

-----------------------------------------------------------------------------
LEMMA StepKeeps == DeliveryInv /\ MInv /\ [Next]_vars => MInv'
<1> SUFFICES ASSUME DeliveryInv, MInv, [Next]_vars PROVE MInv'
  OBVIOUS
<1>1. sent \in Nat /\ batch \subseteq 1..sent
  BY BoundAssumption DEF DeliveryInv, DInv, DeliveryTypeOK
<1>2. /\ expenses \in Seq(Rows) /\ chat \in Seq(CardsOf(Len(expenses)))
      /\ DOMAIN expenses = 1..Len(expenses) /\ DOMAIN chat = 1..Len(chat)
      /\ Len(expenses) \in Nat /\ Len(chat) \in Nat
  BY DEF MInv, Shape
<1>3. job \in [stage : Stages, found : {"none", "hit", "error"}, row : 0..Len(expenses)]
  BY DEF MInv, Shape
<1>4. CASE User
  <2>1. ASSUME NEW total \in Totals, SendAdd(total) PROVE MInv'
    BY <1>1, <1>2, <2>1, Asks DEF SendAdd
  <2>2. ASSUME NEW total \in Totals, CliAdd(total) PROVE MInv'
    <3>1. job' \in [stage : Stages, found : {"none", "hit", "error"}, row : 0..Len(expenses) + 1]
      BY <1>2, <1>3, <2>2 DEF CliAdd
    <3> QED
      BY <1>2, <2>2, <3>1, RowInserted DEF CliAdd, deliveryVars
  <2>3. ASSUME NEW m \in DOMAIN chat, TapUndo(m) PROVE MInv'
    <3>1. chat[m] \in CardsOf(Len(expenses)) /\ m \in 1..Len(chat)
      BY <1>2
    <3>2. chat[m].total \in Totals /\ m # 0
      BY <1>2, <3>1 DEF CardsOf
    <3> QED
      BY <1>1, <1>2, <2>3, <3>2, Asks DEF TapUndo
  <2>4. ASSUME NEW m \in DOMAIN chat, NEW total \in Totals, Reply(m, total) PROVE MInv'
    BY <1>1, <1>2, <2>4, Asks DEF Reply
  <2>5. ASSUME NEW i \in DOMAIN expenses, CliVoid(i) PROVE MInv'
    BY <1>2, <2>5, RowVoided DEF CliVoid, deliveryVars
  <2> QED
    BY <1>4, <2>1, <2>2, <2>3, <2>4, <2>5 DEF User
<1>5. CASE Handler
  BY <1>1, <1>5, AddKeeps, CardKeeps, RowEdited DEF Handler
<1>6. CASE Poll
  <2>1. CASE Fetch
    BY <2>1, Elsewhere DEF Fetch, GetUpdates, Skip, ClaimFails, IsNext, Return, telegram
  <2>2. ASSUME NEW u \in Ids, Begin(u) PROVE MInv'
    BY <1>1, <2>2, JobBegins DEF Begin, Claim, IsNext, telegram
  <2>3. ASSUME NEW u \in Ids, End(u) PROVE MInv'
    BY <2>3, JobEnds DEF End, Complete, CompleteFails, Panic, Return, telegram
  <2> QED
    BY <1>6, <2>1, <2>2, <2>3 DEF Poll
<1>7. CASE Wait \/ Restart
  BY <1>7, Elsewhere DEF Wait, Restart, Tick, Boot, telegram, poll
<1>8. CASE Killed
  BY <1>8, JobEnds DEF Killed, Crash, telegram
<1>9. CASE UNCHANGED vars
  BY <1>9, Elsewhere DEF vars, deliveryVars
<1> QED
  BY <1>4, <1>5, <1>6, <1>7, <1>8, <1>9 DEF Next

LEMMA ManualInv == Spec => [](DeliveryInv /\ MInv)
<1>1. Spec => []DeliveryInv
  BY ManualDelivers, DeliveryInductive, PTL
<1> QED
  BY <1>1, InitManual, StepKeeps, PTL DEF Spec

\* A card says that an expense is undone only when it is, whatever the handlers,
\* the shell, the crashes and the redeliveries do, and for ever after.
THEOREM UndoneTheorem == Spec => []UndoneIsOut
<1>1. MInv => UndoneIsOut
  BY DEF MInv
<1> QED
  BY <1>1, ManualInv, PTL

\* A new card that says "saved" is the answer to an /add.
LEMMA SendsAnswers ==
  ASSUME MInv, Next, NEW j \in DOMAIN expenses, Sends(j)
  PROVE  /\ Answer /\ j = job.row
         /\ chat'[Len(chat')].hint = (job.found = "hit") /\ chat'[Len(chat')].undo
<1>1. Answer
  <2>1. Len(chat') = Len(chat) + 1 /\ chat'[Len(chat')].face = "saved" /\ Len(chat) \in Nat
    BY DEF Sends, MInv, Shape
  <2>2. chat' # chat
    BY <2>1
  <2>3. ~DrawUndone
    BY <2>1, <2>2 DEF DrawUndone, UndoneCard, MInv, Shape
  <2>4. ~Redraw
    <3>1. Redraw => Len(chat') = Len(chat)
      <4>1. chat \in Seq(CardsOf(Len(expenses)))
        BY DEF MInv, Shape
      <4>2. ASSUME NEW card, chat' = [chat EXCEPT ![Asked.card] = card]
            PROVE  Len(chat') = Len(chat)
        BY <4>1, <4>2
      <4> QED
        BY <4>2 DEF Redraw
    <3> QED
      BY <2>1, <3>1
  <2>5. UNCHANGED chat \/ Answer
    BY <2>3, <2>4 DEF Next, User, SendAdd, TapUndo, Reply, Ask, CliAdd, CliVoid, Handler, FindDuplicate,
       AddTransaction, Index, Undo, Edit, Poll, Fetch, Begin, End, Wait, Killed, Restart, manual
  <2> QED
    BY <2>2, <2>5
<1> DEFINE card == SavedCard(job.row, Asked.total, job.found = "hit")
<1>2. chat'[Len(chat')] = card
  <2>1. chat' = Append(chat, card)
    BY <1>1 DEF Answer, Sends, MInv, Shape
  <2> HIDE DEF card
  <2> QED
    BY <2>1 DEF MInv, Shape
<1>3. card.row = job.row /\ card.undo
  BY DEF SavedCard
<1>4. card.hint = (job.found = "hit")
  BY Zenon DEF SavedCard
<1> QED
  BY <1>1, <1>2, <1>3, <1>4 DEF Sends

\* The duplicate hint of a card is never about the expense of the card itself.
THEOREM HintTheorem == Spec => HintMeansAnother
<1> DEFINE HintStep ==
      \A j \in DOMAIN expenses :
        Sends(j) /\ chat'[Len(chat')].hint =>
          \E i \in 1..j - 1 : expenses[i].total = expenses[j].total
<1>1. MInv /\ [Next]_vars => [HintStep]_vars
  <2> SUFFICES ASSUME MInv, Next, NEW j \in DOMAIN expenses, Sends(j), chat'[Len(chat')].hint
               PROVE  \E i \in 1..j - 1 : expenses[i].total = expenses[j].total
    OBVIOUS
  <2>1. j = job.row /\ job.found = "hit" /\ job.stage = "answer"
    BY SendsAnswers DEF Answer
  <2> QED
    BY <2>1 DEF MInv, Found
<1>2. HintMeansAnother <=> [][HintStep]_vars
  BY DEF HintMeansAnother
<1> QED
  BY <1>1, <1>2, ManualInv, PTL DEF Spec

-----------------------------------------------------------------------------
(* A handler that is run again: while an update may still come, the rows     *)
(* that its earlier runs entered say what it asks for, because whoever edits *)
(* one of them was sent later, and is handled when the update is over.       *)

\* No handler will be run for update u any more.
Over(u) == u \in handled \cup completed \cup dropped \/ (Expired(u) /\ u \notin batch)

AboutACard == {"undo", "undone", "edit", "redraw"}

Sources ==
  /\ \A i \in 1..Len(expenses) : expenses[i].from \in 0..sent
  /\ \A v \in 1..sent : asks[v].card # 0 => expenses[chat[asks[v].card].row].from < v
  /\ job.stage \in AboutACard => job.row = chat[Asked.card].row

Unedited ==
  \A i \in 1..Len(expenses) :
    expenses[i].from # 0 /\ ~Over(expenses[i].from) => expenses[i].total = asks[expenses[i].from].total

\* An earlier run has entered what the current one is about to.
IsAgain(i) == expenses[i].from = current /\ Active(i) /\ expenses[i].total = Asked.total
Again(n) == \E i \in 1..n : IsAgain(i)

Checked ==
  /\ job.stage = "insert" /\ job.found = "none" => ~Again(Len(expenses))
  /\ job.stage = "answer" => /\ expenses[job.row].from = current
                             /\ job.found = "none" => ~Again(job.row - 1)

AtWork ==
  /\ world \in Worlds
  /\ (current = 0) = (job.stage = "idle")
  /\ current \notin completed

RInv == AtWork /\ Sources /\ Unedited /\ Checked

LEMMA InitRedelivery == Init => RInv
<1> SUFFICES ASSUME Init PROVE RInv
  OBVIOUS
<1>1. /\ expenses = << >> /\ sent = 0 /\ current = 0 /\ completed = {} /\ world \in Worlds
      /\ job.stage = "idle"
  BY DEF Init, DeliveryInit, Idle
<1> QED
  BY <1>1 DEF RInv, AtWork, Sources, Unedited, Checked, AboutACard

\* The types that the other invariants give.
LEMMA Known ==
  ASSUME DeliveryInv, MInv
  PROVE  /\ sent \in Nat /\ current \in 0..sent /\ completed \subseteq 1..sent /\ 0 \notin completed
         /\ Len(expenses) \in Nat /\ Len(chat) \in Nat
         /\ \A i \in 1..Len(expenses) : expenses[i] \in Rows
         /\ \A m \in 1..Len(chat) : chat[m].row \in 1..Len(expenses)
         /\ \A v \in 1..sent : asks[v].card \in 0..Len(chat)
         /\ job.stage \in AboutACard => Asked.card \in 1..Len(chat) /\ job.row \in 1..Len(expenses)
         /\ job.stage = "answer" => job.row \in 1..Len(expenses)
<1>1. /\ sent \in Nat /\ current \in 0..sent /\ completed \subseteq 1..sent
  BY BoundAssumption DEF DeliveryInv, DInv, DeliveryTypeOK
<1>2. Len(expenses) \in Nat /\ Len(chat) \in Nat /\ \A i \in 1..Len(expenses) : expenses[i] \in Rows
  BY DEF MInv, Shape
<1>3. \A m \in 1..Len(chat) : chat[m].row \in 1..Len(expenses)
  <2>1. \A m \in 1..Len(chat) : chat[m] \in CardsOf(Len(expenses))
    BY DEF MInv, Shape
  <2> QED
    BY <2>1 DEF CardsOf
<1>4. \A v \in 1..sent : asks[v].card \in 0..Len(chat)
  <2> DEFINE Asking == [kind : {"add", "undo", "reply"}, total : Totals, card : 0..Len(chat)]
  <2>1. asks \in Seq(Asking) /\ Len(asks) = sent
    BY DEF MInv, Shape
  <2>2. \A v \in 1..sent : asks[v] \in Asking
    <3> HIDE DEF Asking
    <3> QED
      BY <2>1
  <2> QED
    BY <2>2
<1>5. job.stage \in AboutACard => Asked.card \in 1..Len(chat) /\ job.row \in 1..Len(expenses)
  BY AskedIsAsked DEF AboutACard, MInv, InCharge
<1>6. job.stage = "answer" => job.row \in 1..Len(expenses)
  BY DEF MInv, InCharge
<1> QED
  BY <1>1, <1>2, <1>3, <1>4, <1>5, <1>6

\* Steps that leave what the rows say alone, but may void one, and the expense
\* of each card; the delivery may go on.
LEMMA SameRows ==
  ASSUME DeliveryInv, MInv, RInv,
         UNCHANGED <<world, sent, asks>>,
         \A u \in 1..sent : Over(u) => Over(u)',
         Len(expenses') = Len(expenses),
         \A i \in 1..Len(expenses) :
           /\ expenses'[i].from = expenses[i].from /\ expenses'[i].total = expenses[i].total
           /\ expenses'[i].active => expenses[i].active,
         Len(chat') >= Len(chat),
         \A m \in 1..Len(chat) : chat'[m].row = chat[m].row,
         AtWork',
         job'.stage \in AboutACard => job'.row = chat[Asked'.card].row /\ Asked'.card \in 1..Len(chat),
         \/ job'.stage \notin {"insert", "answer"}
         \/ current' = current /\ job'.stage = "insert" /\ (job'.found = "none" => ~Again(Len(expenses)))
         \/ current' = current /\ job' = job
  PROVE  RInv'
<1> USE DEF RInv
<1>1. \A v \in 1..sent : asks[v].card # 0 => asks[v].card \in 1..Len(chat)
  BY Known
<1>2. Sources'
  <2>1. \A m \in 1..Len(chat) : expenses'[chat'[m].row].from = expenses[chat[m].row].from
    BY Known
  <2>2. job'.stage \in AboutACard => job'.row = chat'[Asked'.card].row
    OBVIOUS
  <2> QED
    BY <1>1, <2>1, <2>2 DEF Sources
<1>3. Unedited'
  <2> SUFFICES ASSUME NEW i \in 1..Len(expenses), expenses[i].from # 0, ~Over(expenses[i].from)'
               PROVE  expenses[i].total = asks[expenses[i].from].total
    BY Zenon DEF Unedited
  <2>1. expenses[i].from \in 1..sent
    BY Known DEF Sources
  <2>2. ~Over(expenses[i].from)
    BY <2>1
  <2> QED
    BY <2>2 DEF Unedited
<1>4. Checked'
  <2>1. ASSUME current' = current, NEW n \in 0..Len(expenses), ~Again(n) PROVE ~Again(n)'
    BY <2>1, Known DEF Again, IsAgain, Active, Asked
  <2>2. CASE job'.stage \notin {"insert", "answer"}
    BY <2>2 DEF Checked
  <2>3. CASE current' = current /\ job'.stage = "insert" /\ (job'.found = "none" => ~Again(Len(expenses)))
    BY <2>1, <2>3, Known DEF Checked
  <2>4. CASE current' = current /\ job' = job
    <3>1. job.stage = "answer" => job.row - 1 \in 0..Len(expenses) /\ job.row \in 1..Len(expenses)
      BY Known
    <3> QED
      BY <2>1, <2>4, <3>1, Known DEF Checked
  <2> QED
    BY <2>2, <2>3, <2>4
<1> QED
  BY <1>2, <1>3, <1>4

\* A new row says what the current update asks, or comes from a shell.
LEMMA RowEntered ==
  ASSUME DeliveryInv, MInv, RInv, UNCHANGED <<deliveryVars, world, asks, chat>>,
         NEW u \in {0, current}, NEW total \in Totals, Insert(u, total),
         u # 0 => job.stage = "insert" /\ total = Asked.total,
         (job'.stage = "idle") = (job.stage = "idle"),
         \/ job' = job /\ u = 0
         \/ job'.stage = "return"
         \/ /\ job.stage = "insert" /\ job'.stage = "answer" /\ job'.found = job.found
            /\ job'.row = Len(expenses) + 1 /\ u = current
  PROVE  RInv'
<1> DEFINE n == Len(expenses)
<1> USE DEF RInv
<1>1. /\ n \in Nat /\ Len(expenses') = n + 1 /\ \A i \in 1..n : expenses'[i] = expenses[i]
      /\ expenses'[n + 1] = [from |-> u, total |-> total, active |-> TRUE]
  BY DEF Insert, MInv, Shape
<1>2. \A w : Over(w)' <=> Over(w)
  BY DEF Over, Expired, deliveryVars
<1>3. UNCHANGED <<sent, current, completed>> /\ Asked' = Asked
  BY DEF deliveryVars, Asked
<1>4. AtWork'
  BY <1>3 DEF AtWork
<1>5. Sources'
  <2>1. \A v \in 1..sent : asks[v].card # 0 => chat[asks[v].card].row \in 1..n
    BY Known
  <2>2. \A i \in 1..n + 1 : expenses'[i].from \in 0..sent
    BY <1>1, Known DEF Sources
  <2>3. job'.stage \in AboutACard => job' = job
    BY DEF AboutACard
  <2> QED
    BY <1>1, <1>3, <2>1, <2>2, <2>3 DEF Sources
<1>6. Unedited'
  <2> SUFFICES ASSUME NEW i \in 1..n + 1, expenses'[i].from # 0, ~Over(expenses'[i].from)
               PROVE  expenses'[i].total = asks[expenses'[i].from].total
    BY <1>1, <1>2 DEF Unedited
  <2>1. CASE i \in 1..n
    BY <1>1, <2>1 DEF Unedited
  <2>2. CASE i = n + 1
    BY <1>1, <2>2 DEF Asked
  <2> QED
    BY <1>1, <2>1, <2>2
<1>7. Checked'
  <2>1. \A i \in 1..n : IsAgain(i)' <=> IsAgain(i)
    BY <1>1, <1>3 DEF IsAgain, Active
  <2>2. CASE job' = job /\ u = 0
    <3>1. job.stage = "answer" => job.row - 1 \in 0..n /\ job.row \in 1..n
      BY Known
    <3>2. ASSUME job.stage = "insert", NEW i \in 1..Len(expenses'), i \notin 1..n PROVE ~IsAgain(i)'
      <4>1. current # 0
        BY <3>2 DEF AtWork
      <4>2. i = n + 1
        BY <1>1, <3>2
      <4>3. expenses'[i].from = 0
        BY <1>1, <2>2, <4>2
      <4> QED
        BY <1>3, <4>1, <4>3 DEF IsAgain
    <3> QED
      BY <1>1, <1>3, <2>1, <2>2, <3>1, <3>2 DEF Checked, Again
  <2>3. CASE job'.stage = "return"
    BY <2>3 DEF Checked
  <2>4. CASE /\ job.stage = "insert" /\ job'.stage = "answer" /\ job'.found = job.found
             /\ job'.row = n + 1 /\ u = current
    BY <1>1, <1>3, <2>1, <2>4 DEF Checked, Again
  <2> QED
    BY <2>2, <2>3, <2>4
<1> QED
  BY <1>4, <1>5, <1>6, <1>7

\* What is asked is asked of a card that is there, whose expense came before.
LEMMA AskedLater ==
  ASSUME DeliveryInv, MInv, RInv,
         NEW total \in Totals, NEW card \in 0..Len(chat), NEW kind, Ask(kind, total, card)
  PROVE  RInv'
<1> DEFINE ask == [kind |-> kind, total |-> total, card |-> card]
<1> USE DEF RInv
<1>1. /\ sent' = sent + 1 /\ Len(asks) = sent /\ asks' = Append(asks, ask)
      /\ UNCHANGED <<now, batch, current, handled, completed, dropped>>
      /\ UNCHANGED <<world, expenses, chat, job>>
      /\ \A u \in 1..sent : born'[u] = born[u]
  <2>1. born \in [Ids -> 0..now] /\ sent \in Nat
    BY BoundAssumption DEF DeliveryInv, DInv, DeliveryTypeOK
  <2> QED
    BY <2>1 DEF Ask, Send, MInv, Shape, clock, poll, history
<1>2. asks'[sent + 1] = ask /\ \A u \in 1..sent : asks'[u] = asks[u]
  <2> DEFINE Asking == [kind : {"add", "undo", "reply"}, total : Totals, card : 0..Len(chat)]
  <2>1. asks \in Seq(Asking)
    BY DEF MInv, Shape
  <2> HIDE DEF Asking, ask
  <2> QED
    BY <1>1, <2>1, AppendProperties
<1>3. job.stage # "idle" => current \in 1..sent /\ Asked' = Asked
  <2>1. job.stage # "idle" => current \in 1..sent
    BY DEF MInv, InCharge
  <2> QED
    BY <1>1, <1>2, <2>1 DEF Asked
<1>4. \A u \in 1..sent : Over(u)' <=> Over(u)
  BY <1>1 DEF Over, Expired
<1>5. AtWork'
  BY <1>1 DEF AtWork
<1>6. Sources'
  <2>1. ASSUME NEW v \in 1..sent + 1, asks'[v].card # 0 PROVE expenses[chat[asks'[v].card].row].from < v
    <3>1. CASE v \in 1..sent
      BY <1>2, <2>1, <3>1 DEF Sources
    <3>2. CASE v = sent + 1
      <4>1. asks'[v].card = card
        BY <1>2, <3>2
      <4>2. chat[card].row \in 1..Len(expenses)
        BY <2>1, <4>1, Known
      <4> QED
        BY <3>2, <4>1, <4>2, Known DEF Sources
    <3>3. sent \in Nat
      BY Known
    <3> QED
      BY <3>1, <3>2, <3>3
  <2>2. \A i \in 1..Len(expenses) : expenses[i].from \in 0..sent + 1
    BY Known DEF Sources
  <2>3. job.stage \in AboutACard => job.row = chat[Asked'.card].row
    BY <1>3 DEF Sources, AboutACard
  <2> QED
    BY <1>1, <2>1, <2>2, <2>3 DEF Sources
<1>7. Unedited'
  <2> SUFFICES ASSUME NEW i \in 1..Len(expenses), expenses[i].from # 0, ~Over(expenses[i].from)'
               PROVE  expenses[i].total = asks'[expenses[i].from].total
    BY <1>1, Zenon DEF Unedited
  <2>1. expenses[i].from \in 1..sent
    BY Known DEF Sources
  <2>2. ~Over(expenses[i].from)
    BY <1>1, <1>4, <2>1
  <2> QED
    BY <1>2, <2>1, <2>2 DEF Unedited
<1>8. Checked'
  BY <1>1, <1>3 DEF Checked, Again, IsAgain, Active
<1> QED
  BY <1>5, <1>6, <1>7, <1>8

\* A reply changes a row whose own update is over.
LEMMA EditedWhenOver ==
  ASSUME DeliveryInv, MInv, RInv, Edit
  PROVE  RInv'
<1> DEFINE n == Len(expenses)
<1> USE DEF RInv
<1>1. /\ job.stage = "edit" /\ job.row \in 1..n /\ Asked.card \in 1..Len(chat)
      /\ UNCHANGED <<deliveryVars, world, asks, chat>>
  BY Known DEF Edit, AboutACard
<1>2. UNCHANGED <<sent, current, completed>> /\ Asked' = Asked
  BY <1>1 DEF deliveryVars, Asked
<1>3. \A w : Over(w)' <=> Over(w)
  BY <1>1 DEF Over, Expired, deliveryVars
<1>4. job' = [job EXCEPT !.stage = job'.stage] /\ job'.stage \in {"redraw", "return"} /\ job'.row = job.row
  BY DEF Edit, Goto, MInv, Shape
<1>5. AtWork'
  BY <1>1, <1>2, <1>4 DEF AtWork
<1>6. /\ Len(expenses') = n
      /\ \A i \in 1..n : expenses'[i].from = expenses[i].from
      /\ \A i \in 1..n : i # job.row => expenses'[i].total = expenses[i].total
  <2>1. CASE UNCHANGED expenses
    BY <2>1
  <2>2. CASE expenses' = [expenses EXCEPT ![job.row].total = Asked.total]
    <3>1. expenses \in Seq(Rows) /\ \A i \in 1..n : expenses[i] \in Rows
      BY Known DEF MInv, Shape
    <3> QED
      BY <1>1, <2>2, <3>1 DEF Rows
  <2> QED
    BY <2>1, <2>2 DEF Edit
<1>7. Sources'
  <2>1. \A v \in 1..sent : asks[v].card # 0 => chat[asks[v].card].row \in 1..n
    BY Known
  <2> QED
    BY <1>1, <1>2, <1>4, <1>6, <2>1 DEF Sources, AboutACard
<1>8. expenses[job.row].from # 0 => Over(expenses[job.row].from)
  <2> DEFINE u == expenses[job.row].from
  <2>1. current \in 1..sent /\ current \in batch /\ \A b \in batch : current <= b
    BY <1>1 DEF AtWork, DeliveryInv, CurrentIsLowest, DInv, DeliveryTypeOK, MInv, InCharge
  <2>2. u < current /\ u \in 0..sent
    BY <1>1, <2>1 DEF Sources, Asked, AboutACard
  <2>3. u # 0 => u \in 1..sent \ batch
    BY <2>1, <2>2, Known
  <2>4. u # 0 => Settled(u)
    BY <2>1, <2>2, <2>3 DEF DeliveryInv, DInv, Gaps
  <2> QED
    BY <2>3, <2>4 DEF Settled, Over
<1>9. Unedited'
  <2> SUFFICES ASSUME NEW i \in 1..n, expenses[i].from # 0, ~Over(expenses[i].from)
               PROVE  expenses'[i].total = asks[expenses[i].from].total
    BY <1>1, <1>3, <1>6 DEF Unedited
  <2>1. i # job.row
    BY <1>8
  <2> QED
    BY <1>6, <2>1 DEF Unedited
<1>10. Checked'
  BY <1>4 DEF Checked
<1> QED
  BY <1>5, <1>7, <1>9, <1>10

\* What has been over stays so.
LEMMA OverStays ==
  ASSUME DeliveryInv, DeliveryInv', [Next]_vars PROVE \A u \in 1..sent : Over(u) => Over(u)'
<1> SUFFICES ASSUME NEW u \in 1..sent, Over(u) PROVE Over(u)'
  OBVIOUS
<1>1. [DeliveryNext]_deliveryVars
  BY StepDelivers
<1>2. handled \subseteq handled' /\ completed \subseteq completed' /\ dropped \subseteq dropped'
  BY <1>1 DEF DeliveryNext, Send, Tick, Crash, Boot, GetUpdates, Claim, Skip, ClaimFails, Complete,
     CompleteInside, CompleteFails, Panic, history, deliveryVars
<1>3. now \in Nat /\ now' \in Nat /\ born \in [Ids -> 0..now] /\ now <= now' /\ u \in Ids /\ sent \in Nat
  <2>1. now \in Nat /\ now' \in Nat /\ born \in [Ids -> 0..now] /\ sent \in 0..MaxUpdates
    BY BoundAssumption DEF DeliveryInv, DInv, DeliveryTypeOK
  <2>2. now' \in {now, now + 1}
    BY <1>1 DEF DeliveryNext, Send, Tick, Crash, Boot, GetUpdates, Claim, Skip, ClaimFails, Complete,
       CompleteInside, CompleteFails, Panic, Return, clock, deliveryVars
  <2> QED
    BY <2>1, <2>2, BoundAssumption DEF Ids
<1>4. born'[u] = born[u]
  BY <1>1, <1>3 DEF DeliveryNext, Send, Tick, Crash, Boot, GetUpdates, Claim, Skip, ClaimFails, Complete,
     CompleteInside, CompleteFails, Panic, Return, telegram, deliveryVars
<1>5. Expired(u) => Expired(u)'
  BY <1>3, <1>4, AgeAssumption DEF Expired
<1>6. CASE u \in handled \cup completed \cup dropped
  BY <1>2, <1>6 DEF Over
<1>7. CASE Expired(u) /\ u \notin batch
  <2>1. batch' \subseteq batch \/ batch' = Deliverable(ack')
    BY <1>1 DEF DeliveryNext, Send, Tick, Crash, Boot, GetUpdates, Claim, Skip, ClaimFails, Complete,
       CompleteInside, CompleteFails, Panic, Return, poll, deliveryVars
  <2>2. u \notin batch'
    BY <1>7, <2>1 DEF Deliverable
  <2> QED
    BY <1>5, <1>7, <2>2 DEF Over
<1> QED
  BY <1>6, <1>7 DEF Over

\* The steps of the handlers, apart from Edit.
LEMMA HandlerRedelivery == ASSUME DeliveryInv, MInv, RInv, Handler PROVE RInv'
<1> USE DEF RInv
<1>1. CASE Edit
  BY <1>1, EditedWhenOver
<1>2. CASE ~Edit
  <2>1. UNCHANGED <<deliveryVars, world, asks>>
    BY <1>2 DEF Handler, FindDuplicate, AddTransaction, Answer, Index, Undo, DrawUndone, Redraw
  <2>2. /\ UNCHANGED <<sent, current, completed>> /\ Asked' = Asked
        /\ \A u \in 1..sent : Over(u) => Over(u)'
    BY <2>1 DEF deliveryVars, Asked, Over, Expired
  <2>3. \/ job.stage # "idle" /\ job'.stage # "idle" /\ job'.row = job.row
        \/ AddTransaction
    BY <1>2 DEF Handler, FindDuplicate, Answer, Index, Undo, DrawUndone, Redraw, Goto, MInv, Shape
  <2>4. ASSUME job.stage # "idle", job'.stage # "idle" PROVE AtWork'
    BY <2>1, <2>2, <2>4 DEF AtWork
  <2>5. CASE AddTransaction
    <3>1. job.stage = "insert" /\ current \in 1..sent /\ Asked.total \in Totals
      BY <2>5, AskedIsAsked DEF AddTransaction, MInv, InCharge
    <3>2. CASE Insert(current, Asked.total)
      BY <2>1, <2>5, <3>1, <3>2, RowEntered DEF AddTransaction, Goto, MInv, Shape
    <3>3. CASE Goto("return") /\ UNCHANGED expenses
      <4>1. job'.stage = "return"
        BY <3>3 DEF Goto, MInv, Shape
      <4> QED
        BY <2>1, <2>2, <2>4, <2>5, <3>1, <3>3, <4>1, SameRows, Known DEF AddTransaction, AboutACard
    <3> QED
      BY <2>5, <3>2, <3>3 DEF AddTransaction
  <2>6. CASE FindDuplicate
    <3>1. /\ job'.stage = "insert"
          /\ job'.found = "none" => Alike(Asked.total) = {}
          /\ UNCHANGED <<expenses, chat>>
      BY <2>6 DEF FindDuplicate, MInv, Shape
    <3>2. job'.found = "none" => ~Again(Len(expenses))
      BY <3>1 DEF Alike, Again, IsAgain, MInv, Shape
    <3>3. AtWork'
      BY <2>4, <2>6, <3>1 DEF FindDuplicate
    <3> QED
      BY <2>1, <2>2, <3>1, <3>2, <3>3, SameRows, Known DEF AboutACard
  <2>7. CASE Answer
    <3>1. /\ job'.stage = "index" /\ UNCHANGED expenses /\ Len(chat') >= Len(chat)
          /\ \A m \in 1..Len(chat) : chat'[m].row = chat[m].row
      BY <2>7 DEF Answer, Goto, MInv, Shape
    <3>2. AtWork'
      BY <2>4, <2>7, <3>1 DEF Answer
    <3> QED
      BY <2>1, <2>2, <3>1, <3>2, SameRows DEF AboutACard
  <2>8. CASE Index
    <3>1. job'.stage = "return" /\ UNCHANGED <<expenses, chat>>
      BY <2>8 DEF Index, Goto, MInv, Shape
    <3>2. AtWork'
      BY <2>4, <2>8, <3>1 DEF Index
    <3> QED
      BY <2>1, <2>2, <3>1, <3>2, SameRows, Known DEF AboutACard
  <2>9. CASE Undo
    <3>1. /\ job.stage = "undo" /\ job'.stage \in {"undone", "return"} /\ job'.row = job.row
          /\ UNCHANGED chat /\ (expenses' = expenses \/ Voided(job.row))
      BY <2>9 DEF Undo, Goto, MInv, Shape
    <3>2. /\ Len(expenses') = Len(expenses)
          /\ \A i \in 1..Len(expenses) :
               /\ expenses'[i].from = expenses[i].from /\ expenses'[i].total = expenses[i].total
               /\ expenses'[i].active => expenses[i].active
      <4>1. \A i \in 1..Len(expenses) : expenses[i] \in Rows
        BY Known
      <4>2. CASE expenses' = expenses
        BY <4>2
      <4>3. CASE Voided(job.row)
        BY <3>1, <4>1, <4>3, Known DEF Voided, Rows, MInv, Shape
      <4> QED
        BY <3>1, <4>2, <4>3
    <3>3. job.row = chat[Asked.card].row /\ Asked.card \in 1..Len(chat)
      BY <3>1, Known DEF Sources, AboutACard
    <3>4. AtWork'
      BY <2>4, <3>1
    <3> QED
      BY <2>1, <2>2, <3>1, <3>2, <3>3, <3>4, SameRows, Known DEF AboutACard
  <2>10. CASE DrawUndone \/ Redraw
    <3>1. /\ job.stage \in AboutACard /\ job'.stage \in {"index", "return"} /\ UNCHANGED expenses
          /\ job.stage # "idle"
      BY <2>10 DEF DrawUndone, Redraw, Goto, AboutACard, MInv, Shape
    <3>2. job.row = chat[Asked.card].row /\ Asked.card \in 1..Len(chat)
      BY <3>1, Known DEF Sources
    <3>3. \E card : card.row = job.row /\ chat' \in {chat, [chat EXCEPT ![Asked.card] = card], Append(chat, card)}
      BY <2>10 DEF DrawUndone, Redraw, UndoneCard, SavedCard
    <3>4. Len(chat') >= Len(chat) /\ \A m \in 1..Len(chat) : chat'[m].row = chat[m].row
      <4> PICK card : /\ card.row = job.row
                      /\ chat' \in {chat, [chat EXCEPT ![Asked.card] = card], Append(chat, card)}
        BY <3>3
      <4>1. chat \in Seq(CardsOf(Len(expenses))) /\ Len(chat) \in Nat /\ DOMAIN chat = 1..Len(chat)
        BY DEF MInv, Shape
      <4>2. CASE chat' = [chat EXCEPT ![Asked.card] = card]
        <5>1. DOMAIN chat' = 1..Len(chat) /\ Len(chat') = Len(chat)
          BY <4>1, <4>2
        <5> QED
          BY <3>2, <4>1, <4>2, <5>1
      <4>3. CASE chat' = Append(chat, card)
        BY <4>1, <4>3
      <4> QED
        BY <4>1, <4>2, <4>3
    <3>5. AtWork'
      BY <2>4, <3>1
    <3> QED
      BY <2>1, <2>2, <3>1, <3>4, <3>5, SameRows DEF AboutACard
  <2> QED
    BY <1>2, <2>5, <2>6, <2>7, <2>8, <2>9, <2>10 DEF Handler
<1> QED
  BY <1>1, <1>2

LEMMA StepRedelivery == DeliveryInv /\ DeliveryInv' /\ MInv /\ RInv /\ [Next]_vars => RInv'
<1> SUFFICES ASSUME DeliveryInv, DeliveryInv', MInv, RInv, [Next]_vars PROVE RInv'
  OBVIOUS
<1> USE DEF RInv
<1>1. CASE User
  <2>1. ASSUME NEW total \in Totals, SendAdd(total) PROVE RInv'
    BY <2>1, AskedLater, Known DEF SendAdd
  <2>2. ASSUME NEW total \in Totals, CliAdd(total) PROVE RInv'
    BY <2>2, RowEntered DEF CliAdd
  <2>3. ASSUME NEW m \in DOMAIN chat, TapUndo(m) PROVE RInv'
    <3>1. chat[m] \in CardsOf(Len(expenses)) /\ m \in 0..Len(chat)
      BY DEF MInv, Shape
    <3>2. chat[m].total \in Totals
      BY <3>1 DEF CardsOf
    <3> QED
      BY <2>3, <3>1, <3>2, AskedLater DEF TapUndo
  <2>4. ASSUME NEW m \in DOMAIN chat, NEW total \in Totals, Reply(m, total) PROVE RInv'
    <3>1. m \in 0..Len(chat)
      BY DEF MInv, Shape
    <3> QED
      BY <2>4, <3>1, AskedLater DEF Reply
  <2>5. ASSUME NEW i \in DOMAIN expenses, CliVoid(i) PROVE RInv'
    <3>1. /\ Len(expenses') = Len(expenses)
          /\ \A k \in 1..Len(expenses) :
               /\ expenses'[k].from = expenses[k].from /\ expenses'[k].total = expenses[k].total
               /\ expenses'[k].active => expenses[k].active
      <4>1. \A k \in 1..Len(expenses) : expenses[k] \in Rows
        BY Known
      <4> QED
        BY <2>5, <4>1, Known DEF CliVoid, Voided, Rows, MInv, Shape
    <3>2. UNCHANGED <<deliveryVars, world, asks, chat, job>>
      BY <2>5 DEF CliVoid
    <3>3. \A u \in 1..sent : Over(u) => Over(u)'
      BY <3>2 DEF deliveryVars, Over, Expired
    <3>4. AtWork' /\ UNCHANGED <<sent, current, Asked>>
      BY <3>2 DEF deliveryVars, AtWork, Asked
    <3> QED
      BY <3>1, <3>2, <3>3, <3>4, SameRows, Known DEF Sources
  <2> QED
    BY <1>1, <2>1, <2>2, <2>3, <2>4, <2>5 DEF User
<1>2. CASE Handler
  BY <1>2, HandlerRedelivery
<1>3. CASE Fetch \/ Wait \/ Restart
  <2>1. UNCHANGED manual /\ UNCHANGED <<sent, current, completed>>
    BY <1>3 DEF Fetch, Wait, Restart, GetUpdates, Skip, ClaimFails, IsNext, Return, Tick, Boot,
       telegram, poll, history
  <2>2. AtWork' /\ Asked' = Asked
    BY <2>1 DEF AtWork, manual, Asked
  <2> QED
    BY <2>1, <2>2, OverStays, SameRows, Known DEF manual, Sources
<1>4. ASSUME NEW u \in Ids, Begin(u) PROVE RInv'
  <2>1. /\ current' = u /\ u \in batch /\ u \notin done /\ u \in 1..sent
        /\ UNCHANGED <<sent, completed, world, asks, expenses, chat>>
        /\ job'.stage = FirstStage(asks[u])
        /\ job'.row = IF asks[u].card = 0 THEN 0 ELSE chat[asks[u].card].row
    BY <1>4 DEF Begin, Claim, IsNext, telegram, history, DeliveryInv, DInv, DeliveryTypeOK
  <2>2. /\ asks[u].kind \in {"add", "undo", "reply"}
        /\ asks[u].kind # "add" => asks[u].card \in 1..Len(chat)
    <3> DEFINE Asking == [kind : {"add", "undo", "reply"}, total : Totals, card : 0..Len(chat)]
    <3>1. asks \in Seq(Asking) /\ u \in 1..Len(asks)
      BY <2>1 DEF MInv, Shape
    <3>2. asks[u] \in Asking
      <4> HIDE DEF Asking
      <4> QED
        BY <3>1
    <3> QED
      BY <2>1, <3>2 DEF MInv, InCharge
  <2>3. job'.stage \in {"check", "undo", "edit"} /\ (job'.stage # "check" => asks[u].card \in 1..Len(chat))
    BY <2>1, <2>2 DEF FirstStage
  <2>4. u \notin completed
    BY <2>1 DEF DeliveryInv, DInv, Remembered
  <2>5. AtWork' /\ Asked' = asks[u]
    BY <2>1, <2>3, <2>4 DEF AtWork, Asked
  <2>6. job'.stage \in AboutACard => job'.row = chat[Asked'.card].row /\ Asked'.card \in 1..Len(chat)
    BY <2>1, <2>3, <2>5, Known DEF AboutACard
  <2> QED
    BY <2>1, <2>3, <2>5, <2>6, OverStays, SameRows, Known
<1>5. ASSUME Killed \/ \E u \in Ids : End(u) PROVE RInv'
  <2>1. current' = 0 /\ job' = Idle /\ UNCHANGED <<sent, world, asks, expenses, chat>>
    BY <1>5 DEF Killed, Crash, End, Complete, CompleteFails, Panic, Return, telegram
  <2>2. completed' \subseteq 1..sent'
    BY DEF DeliveryInv, DInv, DeliveryTypeOK
  <2>3. AtWork'
    BY <2>1, <2>2 DEF AtWork, Idle
  <2> QED
    BY <2>1, <2>3, OverStays, SameRows, Known DEF Idle, AboutACard
<1>6. CASE UNCHANGED vars
  <2>1. UNCHANGED manual /\ UNCHANGED <<sent, current, completed>>
    BY <1>6 DEF vars, deliveryVars
  <2>2. AtWork' /\ Asked' = Asked
    BY <2>1 DEF AtWork, manual, Asked
  <2> QED
    BY <2>1, <2>2, OverStays, SameRows, Known DEF manual, Sources
<1> QED
  BY <1>1, <1>2, <1>3, <1>4, <1>5, <1>6 DEF Next, Poll

LEMMA RedeliveryInv == Spec => [](DeliveryInv /\ MInv /\ RInv)
<1>1. Spec => []DeliveryInv
  BY ManualDelivers, DeliveryInductive, PTL
<1>2. Spec => []MInv
  BY ManualInv, PTL
<1> QED
  BY <1>1, <1>2, InitRedelivery, StepRedelivery, PTL DEF Spec

\* The variables have their types: each row names the update or the shell it
\* comes from, each card a row, each update a card that was there.
THEOREM TypeTheorem == Spec => []TypeOK
<1>1. DeliveryInv /\ MInv /\ RInv => TypeOK
  <2> SUFFICES ASSUME DeliveryInv, MInv, RInv PROVE TypeOK
    OBVIOUS
  <2>1. /\ expenses \in Seq(Rows) /\ chat \in Seq(CardsOf(Len(expenses)))
        /\ DOMAIN expenses = 1..Len(expenses) /\ DOMAIN chat = 1..Len(chat)
        /\ Len(expenses) \in Nat /\ Len(chat) \in Nat
    BY DEF MInv, Shape
  <2>2. 0..Len(chat) = DOMAIN chat \cup {0} /\ 0..Len(expenses) = DOMAIN expenses \cup {0}
    BY <2>1
  <2>3. expenses \in Seq([from : 0..sent, total : Totals, active : BOOLEAN])
    <3> DEFINE S == [from : 0..sent, total : Totals, active : BOOLEAN]
    <3>1. ASSUME NEW i \in 1..Len(expenses) PROVE expenses[i] \in S
      <4>1. expenses[i] \in Rows /\ expenses[i].from \in 0..sent
        BY <2>1 DEF RInv, Sources
      <4> QED
        BY <4>1 DEF Rows
    <3>2. expenses \in Seq(S)
      <4> HIDE DEF S
      <4> QED
        BY <2>1, <3>1
    <3> QED
      BY <3>2
  <2> QED
    BY <2>1, <2>2, <2>3 DEF TypeOK, DeliveryInv, DInv, MInv, Shape, RInv, AtWork, CardsOf
<1> QED
  BY <1>1, RedeliveryInv, PTL

\* bot.go:534: the row that a redelivery duplicates is hinted at on its card,
\* with the button that undoes it, however many runs of the handler were cut,
\* and whatever replies and the shell did to the rows meanwhile.
THEOREM DuplicateTheorem == Spec => DuplicateIsHinted
<1> DEFINE HintStep ==
      \A j \in DOMAIN expenses :
        /\ Sends(j) /\ job.found # "error"
        /\ current \notin handled \cup dropped
        /\ \E i \in 1..j - 1 : expenses[i].from = expenses[j].from /\ Active(i)
        => chat'[Len(chat')].hint /\ chat'[Len(chat')].undo
<1>1. DeliveryInv /\ MInv /\ RInv /\ [Next]_vars => [HintStep]_vars
  <2> SUFFICES ASSUME DeliveryInv, MInv, RInv, Next, NEW j \in DOMAIN expenses,
                      Sends(j), job.found # "error", current \notin handled \cup dropped,
                      NEW i \in 1..j - 1, expenses[i].from = expenses[j].from, Active(i)
               PROVE  job.found = "hit"
    BY SendsAnswers
  <2>1. /\ job.stage = "answer" /\ j = job.row /\ j \in 1..Len(expenses) /\ i \in 1..Len(expenses)
        /\ current \in 1..sent /\ current \in batch
    BY SendsAnswers, Known DEF Answer, RInv, AtWork, DeliveryInv, DInv, DeliveryTypeOK
  <2>2. expenses[i].from = current
    BY <2>1 DEF RInv, Checked
  <2>3. ~Over(current)
    BY <2>1 DEF Over, RInv, AtWork
  <2>4. expenses[i].total = Asked.total
    BY <2>1, <2>2, <2>3 DEF RInv, Unedited, Asked
  <2>5. Again(j - 1)
    BY <2>2, <2>4 DEF Again, IsAgain
  <2>6. job.found \in {"none", "hit", "error"}
    BY DEF MInv, Shape
  <2> QED
    BY <2>1, <2>5, <2>6 DEF RInv, Checked
<1>2. DuplicateIsHinted <=> [][HintStep]_vars
  BY DEF DuplicateIsHinted
<1> QED
  BY <1>1, <1>2, RedeliveryInv, PTL DEF Spec
=============================================================================
