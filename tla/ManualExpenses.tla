---------------------------- MODULE ManualExpenses ----------------------------
(***************************************************************************)
(* Expenses without a receipt: /add and its saved card, the button that    *)
(* undoes it, and replies that correct it, on top of the delivery of       *)
(* updates: a handler may be cut anywhere and run again from the start.    *)
(* `finbox add` and `finbox void` act beside the bot.                      *)
(*                                                                         *)
(* Sources: internal/telegram/bot.go, internal/command/command.go,         *)
(* internal/store/transactions.go, cmd/finbox/cli.go; the chat as Telegram *)
(* shows it.                                                               *)
(***************************************************************************)
EXTENDS Updates, Sequences

CONSTANTS
  Totals,          \* what an expense may amount to, on days that are close
  MaxExpenses,     \* bound: rows of transactions
  Worlds           \* what may happen around the bot: one of these sets

\* The clock moves; claims and completions fail and handlers panic; commands run
\* at a shell; the other statements and the messages fail.
Troubles == {"clock", "faults", "shell", "errors"}

ASSUME ExpensesAssumption == MaxExpenses \in Nat
ASSUME WorldAssumption == Worlds \subseteq SUBSET Troubles

VARIABLES
  world,     \* chosen once
  asks,      \* what each update asks for, in the order they are sent
  expenses,  \* transactions: the update it comes from (0: a shell), total, active
  chat,      \* the bot's cards: the expense, what it shows, the hint, the button
  job        \* where the handler of the current update is

manual == <<world, asks, expenses, chat, job>>
vars == <<deliveryVars, manual>>

Stages == {"idle", "check", "insert", "answer", "undo", "undone", "edit", "redraw", "index",
           "return"}

\* found: what FindDuplicate said; row: the expense the handler is about.
Idle == [stage |-> "idle", found |-> "none", row |-> 0]
Goto(stage) == job' = [job EXCEPT !.stage = stage]

SavedCard(i, total, hint) == [row |-> i, face |-> "saved", total |-> total, hint |-> hint, undo |-> TRUE]
UndoneCard(i, total) == [row |-> i, face |-> "undone", total |-> total, hint |-> FALSE, undo |-> FALSE]

Init ==
  /\ DeliveryInit /\ world \in Worlds
  /\ asks = << >> /\ expenses = << >> /\ chat = << >> /\ job = Idle

-----------------------------------------------------------------------------
(***************************************************************************)
(* The user, in the chat and at a shell.                                   *)
(***************************************************************************)
Ask(kind, total, card) ==
  /\ Send
  /\ asks' = Append(asks, [kind |-> kind, total |-> total, card |-> card])
  /\ UNCHANGED <<world, expenses, chat, job>>

SendAdd(total) == Ask("add", total, 0)
TapUndo(m) == chat[m].undo /\ Ask("undo", chat[m].total, m)
Reply(m, total) == Ask("reply", total, m)

\* AddTransaction: the insert of its two statements.
Insert(u, total) == expenses' = Append(expenses, [from |-> u, total |-> total, active |-> TRUE])

CliAdd(total) ==
  /\ "shell" \in world /\ Len(expenses) < MaxExpenses
  /\ Insert(0, total)
  /\ UNCHANGED <<deliveryVars, world, asks, chat, job>>

\* VoidTransaction.
Voided(i) == expenses' = [expenses EXCEPT ![i].active = FALSE]

CliVoid(i) ==
  /\ "shell" \in world /\ expenses[i].active
  /\ Voided(i)
  /\ UNCHANGED <<deliveryVars, world, asks, chat, job>>

-----------------------------------------------------------------------------
(***************************************************************************)
(* Poll and HandleUpdate, around the handlers.                             *)
(***************************************************************************)
FirstStage(what) ==
  CASE what.kind = "add" -> "check" [] what.kind = "undo" -> "undo" [] what.kind = "reply" -> "edit"

Begin(u) ==
  /\ Claim(u)
  /\ job' = [stage |-> FirstStage(asks[u]), found |-> "none",
             row |-> IF asks[u].card = 0 THEN 0 ELSE chat[asks[u].card].row]
  /\ UNCHANGED <<world, asks, expenses, chat>>

End(u) ==
  /\ \/ job.stage = "return" /\ Complete(u)
     \/ job.stage = "return" /\ "faults" \in world /\ CompleteFails(u)
     \/ "faults" \in world /\ Panic(u)
  /\ job' = Idle
  /\ UNCHANGED <<world, asks, expenses, chat>>

Fetch ==
  /\ \/ GetUpdates
     \/ \E u \in Ids : Skip(u) \/ ("faults" \in world /\ ClaimFails(u))
  /\ UNCHANGED manual

Restart == Boot /\ UNCHANGED manual
Wait == "clock" \in world /\ Tick /\ UNCHANGED manual
Killed == Crash /\ job' = Idle /\ UNCHANGED <<world, asks, expenses, chat>>

Asked == asks[current]

-----------------------------------------------------------------------------
(***************************************************************************)
(* handleAdd: each statement and message is a step.                        *)
(***************************************************************************)
Active(i) == expenses[i].active

\* Mutant: the amount is not compared.
AnyActive(total) == {i \in DOMAIN expenses : Active(i)}

Alike(total) == {i \in DOMAIN expenses : Active(i) /\ expenses[i].total = total}

\* Mutant: the expenses of the same update are not looked at.
FindOther ==
  /\ job.stage = "check"
  /\ LET others == {i \in Alike(Asked.total) : expenses[i].from # current} IN
       job' = [job EXCEPT !.stage = "insert", !.found = IF others = {} THEN "none" ELSE "hit"]
  /\ UNCHANGED <<deliveryVars, world, asks, expenses, chat>>

\* FindDuplicate, before the insert; an error costs only the hint.
FindDuplicate ==
  /\ job.stage = "check"
  /\ \E found \in {"hit", "none", "error"} :
       /\ found = "hit" => Alike(Asked.total) # {}
       /\ found = "none" => Alike(Asked.total) = {}
       /\ found = "error" => "errors" \in world
       /\ job' = [job EXCEPT !.stage = "insert", !.found = found]
  /\ UNCHANGED <<deliveryVars, world, asks, expenses, chat>>

\* command.Add: the insert and the read of the new row; when the second fails
\* the user is told of an error although the expense is there.
AddTransaction ==
  /\ job.stage = "insert"
  /\ \/ /\ Len(expenses) < MaxExpenses
        /\ Insert(current, Asked.total)
        /\ \/ job' = [job EXCEPT !.stage = "answer", !.row = Len(expenses) + 1]
           \/ "errors" \in world /\ Goto("return")
     \/ ("errors" \in world \/ Len(expenses) = MaxExpenses) /\ Goto("return") /\ UNCHANGED expenses
  /\ UNCHANGED <<deliveryVars, world, asks, chat>>

\* sendKB: an error is only logged.
Answer ==
  /\ job.stage = "answer"
  /\ \/ chat' = Append(chat, SavedCard(job.row, Asked.total, job.found = "hit"))
     \/ "errors" \in world /\ UNCHANGED chat
  /\ Goto("index")
  /\ UNCHANGED <<deliveryVars, world, asks, expenses>>

\* b.embed: seconds of waiting for the model; what it writes is in SearchIndex.
Index ==
  /\ job.stage = "index"
  /\ Goto("return")
  /\ UNCHANGED <<deliveryVars, world, asks, expenses, chat>>

-----------------------------------------------------------------------------
(***************************************************************************)
(* The button "v" of handleCallback, and handleReply on a manual card.     *)
(***************************************************************************)
\* Mutant: the card is drawn as undone whatever VoidTransaction returned.
UndoAnyway ==
  /\ job.stage = "undo"
  /\ \/ Voided(job.row)
     \/ "errors" \in world /\ UNCHANGED expenses
  /\ Goto("undone")
  /\ UNCHANGED <<deliveryVars, world, asks, chat>>

\* Another text than a card answers a second tap, or an error.
Undo ==
  /\ job.stage = "undo"
  /\ \/ Active(job.row) /\ Voided(job.row) /\ Goto("undone")
     \/ (Active(job.row) => "errors" \in world) /\ Goto("return") /\ UNCHANGED expenses
  /\ UNCHANGED <<deliveryVars, world, asks, chat>>

\* The tapped card becomes the undone card; past 48 hours that is a new message.
DrawUndone ==
  LET card == UndoneCard(job.row, expenses[job.row].total) IN
  /\ job.stage = "undone"
  /\ \/ chat' = [chat EXCEPT ![Asked.card] = card]
     \/ "errors" \in world /\ chat' \in {Append(chat, card), chat}
  /\ Goto("return")
  /\ UNCHANGED <<deliveryVars, world, asks, expenses>>

\* command.Edit by the id in the text of the card, up to its update;
\* ErrNotFound once it is undone.
Edit ==
  /\ job.stage = "edit"
  /\ \/ /\ Active(job.row)
        /\ expenses' = [expenses EXCEPT ![job.row].total = Asked.total]
        /\ Goto("redraw")
     \/ (Active(job.row) => "errors" \in world) /\ Goto("return") /\ UNCHANGED expenses
  /\ UNCHANGED <<deliveryVars, world, asks, chat>>

\* The row is read back, and the card drawn again from it, without its hint.  A
\* read that fails, or finds the row undone, leaves the card as it was.
Redraw ==
  /\ job.stage = "redraw"
  /\ \/ /\ chat' = [chat EXCEPT ![Asked.card] = SavedCard(job.row, Asked.total, FALSE)]
        /\ Goto("index")
     \/ "errors" \in world /\ Goto("index") /\ UNCHANGED chat
     \/ (Active(job.row) => "errors" \in world) /\ Goto("return") /\ UNCHANGED chat
  /\ UNCHANGED <<deliveryVars, world, asks, expenses>>

-----------------------------------------------------------------------------
User ==
  \/ \E total \in Totals : SendAdd(total) \/ CliAdd(total)
  \/ \E m \in DOMAIN chat : TapUndo(m) \/ \E total \in Totals : Reply(m, total)
  \/ \E i \in DOMAIN expenses : CliVoid(i)

Handler ==
  \/ FindDuplicate \/ AddTransaction \/ Answer \/ Index
  \/ Undo \/ DrawUndone \/ Edit \/ Redraw

Poll == Fetch \/ \E u \in Ids : Begin(u) \/ End(u)

Next == User \/ Handler \/ Poll \/ Wait \/ Killed \/ Restart

Spec == Init /\ [][Next]_vars

\* Poll and the handlers run on, and docker starts the container again.
FairSpec == Spec /\ WF_vars(Restart) /\ WF_vars(Handler) /\ WF_vars(Poll)

-----------------------------------------------------------------------------
(***************************************************************************)
(* Properties, beside those of Updates, which hold of this module as well. *)
(***************************************************************************)

TypeOK ==
  /\ DeliveryTypeOK /\ world \in Worlds
  /\ asks \in Seq([kind : {"add", "undo", "reply"}, total : Totals, card : DOMAIN chat \cup {0}])
  /\ Len(asks) = sent
  /\ expenses \in Seq([from : 0..sent, total : Totals, active : BOOLEAN])
  /\ chat \in Seq([row : DOMAIN expenses, face : {"saved", "undone"}, total : Totals,
                   hint : BOOLEAN, undo : BOOLEAN])
  /\ job \in [stage : Stages, found : {"none", "hit", "error"}, row : DOMAIN expenses \cup {0}]
  /\ (current = 0) = (job.stage = "idle")

\* The card that a step sends for a new expense.
Sends(i) ==
  /\ Len(chat') = Len(chat) + 1
  /\ chat'[Len(chat')].face = "saved" /\ chat'[Len(chat')].row = i

\* bot.go:534, "a redelivery in that ms window duplicates the row - the duplicate
\* hint shows it and Deshacer is one tap away": when a handler that was cut by a
\* crash is run again and enters the expense again, the new card has the hint
\* and the button, unless the first was undone meanwhile or the check failed.
DuplicateIsHinted ==
  [][\A j \in DOMAIN expenses :
       /\ Sends(j) /\ job.found # "error"
       /\ current \notin handled \cup dropped
       /\ \E i \in 1..j - 1 : expenses[i].from = expenses[j].from /\ Active(i)
       => chat'[Len(chat')].hint /\ chat'[Len(chat')].undo]_vars

\* bot.go:561, "before the insert, or it would find itself": a hint means that
\* an earlier expense amounts to the same, however often the handler is run.
HintMeansAnother ==
  [][\A j \in DOMAIN expenses :
       Sends(j) /\ chat'[Len(chat')].hint =>
         \E i \in 1..j - 1 : expenses[i].total = expenses[j].total]_vars

\* A card that says an expense is undone is right for ever, and as long as an
\* expense counts, its card still offers to undo it.
UndoneIsOut == \A m \in DOMAIN chat : ~chat[m].undo => ~Active(chat[m].row)

\* If the bot is not killed for ever, each update is settled.
BotStaysUp == <>[]up
UpdatesAreSettled == BotStaysUp => \A u \in Ids : (sent >= u) ~> (sent >= u /\ Settled(u))
=============================================================================
