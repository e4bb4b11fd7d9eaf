------------------------------- MODULE Updates -------------------------------
(***************************************************************************)
(* The delivery of updates: Telegram keeps them until they are             *)
(* acknowledged, or for about a day; the bot acknowledges a batch by asking *)
(* for the next; processed_updates says which of them a handler has        *)
(* completed, and its old rows are purged at boot. What the handlers do is *)
(* in Cards and in ManualExpenses, which is composed with this module.     *)
(*                                                                         *)
(* Sources: internal/telegram/{serve,bot}.go, internal/store/receipts.go,  *)
(* processed_updates in migrations/0001_init.sql; getUpdates of Telegram   *)
(* as Poll uses it.                                                        *)
(***************************************************************************)
EXTENDS Integers

CONSTANTS
  MaxUpdates,     \* bound: updates ever sent
  MaxNow,         \* bound: the clock
  Retention,      \* how long Telegram keeps an update (24 h)
  PurgeAge        \* how old a row is when it is purged (7 days)

ASSUME BoundAssumption == MaxUpdates \in Nat /\ MaxNow \in Nat
ASSUME AgeAssumption == Retention \in Nat /\ PurgeAge \in Nat /\ Retention <= PurgeAge

Ids == 1..MaxUpdates

VARIABLES
  now,        \* the clock
  sent,       \* the updates sent so far are 1..sent
  born,       \* when each was sent
  ack,        \* Telegram has dropped the updates below this one
  up,         \* is the bot running?
  offset,     \* of Poll: the lowest update not handled
  batch,      \* of Poll: the updates returned and not yet handled
  current,    \* the update in its handler (0: none)
  rows,       \* processed_updates
  at,         \* created_at
  done,       \* the rows with a completed_at
  handled,    \* history: the handler has returned
  completed,  \* history: its completion has been stored
  dropped     \* history: the claim failed or the handler panicked

clock == <<now>>
telegram == <<sent, born, ack>>
poll == <<up, offset, batch, current>>
processed == <<rows, at, done>>
history == <<handled, completed, dropped>>
deliveryVars == <<now, sent, born, ack, up, offset, batch, current, rows, at, done,
                  handled, completed, dropped>>

DeliveryInit ==
  /\ now = 0 /\ sent = 0 /\ born = [u \in Ids |-> 0] /\ ack = 0
  /\ up = TRUE /\ offset = 0 /\ batch = {} /\ current = 0
  /\ rows = {} /\ at = [u \in Ids |-> 0] /\ done = {}
  /\ handled = {} /\ completed = {} /\ dropped = {}

-----------------------------------------------------------------------------
Expired(u) == now - born[u] > Retention

\* What getUpdates(o) returns: it acknowledges the updates below o.
Deliverable(o) == {u \in 1..sent : u >= o /\ ~Expired(u)}

Later(a, b) == IF a > b THEN a ELSE b

Send ==
  /\ sent < MaxUpdates
  /\ sent' = sent + 1
  /\ born' = [born EXCEPT ![sent + 1] = now]
  /\ UNCHANGED <<clock, ack, poll, processed, history>>

Tick ==
  /\ now < MaxNow
  /\ now' = now + 1
  /\ UNCHANGED <<telegram, poll, processed, history>>

\* Mutant: what was returned is acknowledged before it is handled.
AckOnReceipt ==
  /\ up /\ batch = {}
  /\ batch' = Deliverable(ack)
  /\ ack' = IF batch' = {} THEN ack ELSE sent + 1
  /\ UNCHANGED <<clock, sent, born, up, offset, current, processed, history>>

GetUpdates ==
  /\ up /\ batch = {}
  /\ ack' = Later(ack, offset)
  /\ batch' = Deliverable(ack')
  /\ UNCHANGED <<clock, sent, born, up, offset, current, processed, history>>

\* Mutant: the next offset is one too far.
SkipOne(u) ==
  /\ batch' = batch \ {u}
  /\ offset' = u + 2
  /\ current' = 0
  /\ UNCHANGED <<clock, telegram, up>>

\* HandleUpdate has returned, however: the loop of Poll moves the offset on.
Return(u) ==
  /\ batch' = batch \ {u}
  /\ offset' = u + 1
  /\ current' = 0
  /\ UNCHANGED <<clock, telegram, up>>

IsNext(u) == up /\ current = 0 /\ u \in batch /\ \A w \in batch : u <= w

\* ClaimUpdate: insert, or find the row of an earlier delivery.
Claim(u) ==
  /\ IsNext(u) /\ u \notin done
  /\ current' = u
  /\ rows' = rows \cup {u}
  /\ at' = [at EXCEPT ![u] = IF u \in rows THEN @ ELSE now]
  /\ UNCHANGED <<clock, telegram, up, offset, batch, done, history>>

\* It has been completed already.
Skip(u) == IsNext(u) /\ u \in done /\ Return(u) /\ UNCHANGED <<processed, history>>

\* The claim fails, with its row or without: the update is not handled, and
\* the next getUpdates acknowledges it.
ClaimFails(u) ==
  /\ IsNext(u)
  /\ \/ UNCHANGED <<rows, at>>
     \/ /\ u \notin rows
        /\ rows' = rows \cup {u}
        /\ at' = [at EXCEPT ![u] = now]
  /\ UNCHANGED done
  /\ dropped' = dropped \cup {u}
  /\ Return(u)
  /\ UNCHANGED <<handled, completed>>

\* ConfirmReceipt and DiscardReceipt complete the update in the transaction
\* that changes the receipt; the handler goes on to draw the card.
CompleteInside(u) ==
  /\ current = u /\ u \in rows /\ u \notin done
  /\ done' = done \cup {u}
  /\ completed' = completed \cup {u}
  /\ UNCHANGED <<clock, telegram, poll, rows, at, handled, dropped>>

\* The handler returns and CompleteUpdate stamps the row, unless that was done.
Complete(u) ==
  /\ current = u
  /\ done' = done \cup {u} /\ completed' = completed \cup {u}
  /\ handled' = handled \cup {u}
  /\ Return(u)
  /\ UNCHANGED <<rows, at, dropped>>

\* An error of CompleteUpdate is only logged.
CompleteFails(u) ==
  /\ current = u
  /\ handled' = handled \cup {u}
  /\ Return(u)
  /\ UNCHANGED <<processed, completed, dropped>>

\* HandleUpdate recovers from a panic, past the completion.
Panic(u) ==
  /\ current = u
  /\ dropped' = dropped \cup {u}
  /\ Return(u)
  /\ UNCHANGED <<processed, handled, completed>>

Crash ==
  /\ up
  /\ up' = FALSE /\ offset' = 0 /\ batch' = {} /\ current' = 0
  /\ UNCHANGED <<clock, telegram, processed, history>>

\* Mutant: what is purged is the rows that are not old.
BootKeepsOld ==
  LET old == {u \in rows : now - at[u] <= PurgeAge} IN
  /\ ~up /\ up' = TRUE
  /\ rows' = rows \ old /\ done' = done \ old
  /\ at' = [u \in Ids |-> IF u \in old THEN 0 ELSE at[u]]
  /\ UNCHANGED <<clock, telegram, offset, batch, current, history>>

\* PurgeProcessedUpdates, the first statement of BootSweep.
Boot ==
  LET old == {u \in rows : now - at[u] > PurgeAge} IN
  /\ ~up /\ up' = TRUE
  /\ rows' = rows \ old /\ done' = done \ old
  /\ at' = [u \in Ids |-> IF u \in old THEN 0 ELSE at[u]]
  /\ UNCHANGED <<clock, telegram, offset, batch, current, history>>

-----------------------------------------------------------------------------
DeliveryNext ==
  \/ Send \/ Tick \/ Crash \/ Boot \/ GetUpdates
  \/ \E u \in Ids :
       \/ Claim(u) \/ Skip(u) \/ ClaimFails(u)
       \/ Complete(u) \/ CompleteInside(u) \/ CompleteFails(u) \/ Panic(u)

DeliverySpec == DeliveryInit /\ [][DeliveryNext]_deliveryVars

-----------------------------------------------------------------------------
(***************************************************************************)
(* Properties.                                                             *)
(***************************************************************************)

DeliveryTypeOK ==
  /\ now \in 0..MaxNow /\ sent \in 0..MaxUpdates /\ born \in [Ids -> 0..now]
  /\ ack \in 0..sent + 1 /\ up \in BOOLEAN /\ offset \in 0..sent + 1
  /\ batch \subseteq 1..sent /\ current \in batch \cup {0}
  /\ rows \subseteq 1..sent /\ at \in [Ids -> 0..now] /\ done \subseteq rows
  /\ handled \cup completed \cup dropped \subseteq 1..sent

\* 0001_init.sql:58, "boot sweep purges rows older than 7 days (Telegram
\* redelivers within ~24h)": however often the bot is restarted and however
\* late an update is delivered again, one that was completed is never handled
\* again, although the row that says so is purged in the end.
HandledOnce == [][\A u \in completed : current' = u => current = u]_deliveryVars

\* Telegram does not keep what has been acknowledged, so an update is given
\* up only when its handler has returned, when it is older than Telegram keeps
\* it, or when HandleUpdate logged a failed claim or a panic: never by a crash.
Settled(u) == u \in handled \cup completed \cup dropped \/ Expired(u)
NothingIsForgotten == \A u \in 1..sent : u < ack => Settled(u)
=============================================================================
