-------------------------------- MODULE Cards --------------------------------
(***************************************************************************)
(* The conversation: updates from Telegram, the bot's handlers, and the    *)
(* cards with buttons that they draw, next to what the database holds.     *)
(* The bot is alone here (module Receipts has the reprocess commands), so  *)
(* a call into the pipeline is one step; but each edit of a message, the   *)
(* registration of the card and the completion of the update are steps of  *)
(* their own, between which the bot may be killed and the updates it had   *)
(* not acknowledged are delivered again.                                   *)
(*                                                                         *)
(* Sources: internal/telegram/{bot,serve,api}.go, ClaimUpdate,             *)
(* CompleteUpdate and SetCard in internal/store/receipts.go; Telegram      *)
(* itself (getUpdates, editMessageText) as the bot uses it.                *)
(***************************************************************************)
EXTENDS Integers, Sequences, FiniteSets

CONSTANTS
  Receipts,
  Drafts,        \* what a readable draft says
  Unreadable,    \* a draft that does not validate
  Nothing,       \* no expense in the totals; nothing shown
  Worlds         \* the kinds of user and of faults to consider, see World

ASSUME ValueAssumption == Unreadable \notin Drafts /\ Nothing \notin Drafts \cup {Unreadable}

\* What may happen around the bot in one behaviour; the counts are bounds.
World == [
  crashes : BOOLEAN,       \* the bot may be killed
  editsFail : BOOLEAN,     \* editMessageText may fail (the error is only logged)
  photosFail : BOOLEAN,    \* sending "Leyendo" or downloading a photo may fail
  tapsFail : BOOLEAN,      \* what the handler of a tap stores may fail
  says : SUBSET Drafts,    \* what a reading or a reply may make of the draft
  inbox : Nat \ {0},       \* updates not yet acknowledged (1: the user waits)
  cards : Nat \ {0},       \* messages that answer photos
  expenses : Nat \ {0}]    \* expenses ever entered for one receipt

ASSUME WorldAssumption == Worlds \subseteq World

VARIABLES
  world,     \* chosen once
  life,      \* receipts.status
  draft,     \* what the stored extraction says
  ledger,    \* the active expense of each receipt
  entered,   \* how many expenses have been entered for it
  card,      \* receipts.tg_card_message_id (0: null)
  chat,      \* the bot's messages: their text and buttons, by message id
  inbox,     \* Telegram's unacknowledged updates; done = completed_at is set
  batch,     \* how many of them the last getUpdates returned
  next,      \* the one being handled
  job        \* where its handler is

vars == <<world, life, draft, ledger, entered, card, chat, inbox, batch, next, job>>
database == <<life, draft, ledger, entered, card>>
poll == <<inbox, batch, next>>

Status == {"absent", "pending", "awaiting_confirm", "confirmed", "discarded", "failed"}
Faces == {"reading", "draft", "failed", "corrupt", "saved", "discarded", "undone", "notice"}
Buttons == {"confirm", "discard", "retry", "undo"}
\* txn: which expense of the receipt the undo button voids (0: no such button).
Card == [doc : Receipts, face : Faces, shown : Drafts \cup {Unreadable, Nothing},
         buttons : SUBSET Buttons, txn : Nat]

Face(r, face, shown, buttons) ==
  [doc |-> r, face |-> face, shown |-> shown, buttons |-> buttons, txn |-> 0]

(***************************************************************************)
(* renderResult and the texts of the callback handlers.                    *)
(***************************************************************************)
DraftCard(r, d) == Face(r, "draft", d, {"confirm", "discard"})
FailedCard(r) == Face(r, "failed", Nothing, {"retry", "discard"})
\* "extraccion corrupta, usa reintentar": the text of a failure, no keyboard.
CorruptCard(r) == Face(r, "corrupt", Nothing, {})
SavedCard(r, d) == Face(r, "saved", d, {})
DiscardedCard(r) == Face(r, "discarded", Nothing, {"retry"})
UndoneCard(r) == Face(r, "undone", Nothing, {})
Notice(r) == Face(r, "notice", Nothing, {})      \* a text, and no keyboard
\* The card that undoKB is drawn on.
UndoableCard(r, d) ==
  [Face(r, "saved", d, {"undo"}) EXCEPT !.txn = entered[r]]

\* The card of a result of the pipeline: awaiting_confirm or failed.
ResultCard(r, d) == IF d = Unreadable THEN FailedCard(r) ELSE DraftCard(r, d)
ResultStatus(d) == IF d = Unreadable THEN "failed" ELSE "awaiting_confirm"

Stages == {"down", "sweep", "idle", "send", "ingest", "read", "reprocess", "amend",
           "settle", "tap", "render", "register", "complete", "advance"}
\* then: the stage after render; look: the card to draw on message msg.
NoJob == [stage |-> "idle", msg |-> 0, then |-> "idle", look |-> Nothing]

Update == inbox[next]
Stage(s) == job' = [job EXCEPT !.stage = s]
Draw(msg, look, then) ==
  job' = [stage |-> "render", msg |-> msg, then |-> then, look |-> look]

Init ==
  /\ world \in Worlds
  /\ life = [r \in Receipts |-> "absent"]
  /\ draft = [r \in Receipts |-> Unreadable]
  /\ ledger = [r \in Receipts |-> Nothing]
  /\ entered = [r \in Receipts |-> 0]
  /\ card = [r \in Receipts |-> 0]
  /\ chat = << >>
  /\ inbox = << >> /\ batch = 0 /\ next = 1
  /\ job = NoJob

-----------------------------------------------------------------------------
(***************************************************************************)
(* The user.                                                               *)
(***************************************************************************)
OnCard(kind, m, what) ==
  [kind |-> kind, doc |-> chat[m].doc, msg |-> m, seen |-> chat[m], what |-> what,
   done |-> FALSE]

Say(update) == Len(inbox) < world.inbox /\ inbox' = Append(inbox, update)

\* Each of the photos not yet handled may need a message, also after a crash.
Unhandled == {i \in DOMAIN inbox : inbox[i].kind = "photo" /\ ~inbox[i].done}
Messages == Len(chat) + Cardinality(Unhandled)

SendPhoto(r) ==
  /\ Messages < world.cards
  /\ Len(inbox) < world.inbox
  /\ inbox' = Append(inbox, [kind |-> "photo", doc |-> r, msg |-> 0, seen |-> Notice(r),
                             what |-> Nothing, done |-> FALSE])
  /\ UNCHANGED <<database, chat, batch, next, job>>

\* A tap on a button that is on the card now; the card may change before the
\* tap is handled.
Tap(m, button) ==
  /\ button \in chat[m].buttons
  /\ button = "undo" => entered[chat[m].doc] < world.expenses
  /\ Say(OnCard("tap", m, button))
  /\ UNCHANGED <<database, chat, batch, next, job>>

\* A reply that corrects one field: the draft it results in is read from the
\* stored extraction when it is handled, here any draft.
Reply(m, fix) ==
  /\ Say(OnCard("reply", m, fix))
  /\ UNCHANGED <<database, chat, batch, next, job>>

\* `finbox void`, from a shell.
Void(r) ==
  /\ ledger[r] # Nothing /\ entered[r] < world.expenses
  /\ ledger' = [ledger EXCEPT ![r] = Nothing]
  /\ UNCHANGED <<life, draft, entered, card, chat, poll, job>>

-----------------------------------------------------------------------------
(***************************************************************************)
(* Poll and HandleUpdate.                                                  *)
(***************************************************************************)

\* getUpdates(offset): acknowledges the previous batch, returns the next one.
GetUpdates ==
  /\ job.stage = "idle" /\ next > batch /\ inbox # << >>
  /\ LET rest == SubSeq(inbox, next, Len(inbox)) IN
       inbox' = rest /\ batch' = Len(rest)
  /\ next' = 1
  /\ UNCHANGED <<database, chat, job>>

\* ClaimUpdate: an update completed before a crash is not handled again.
FirstStage(u) ==
  IF u.done THEN "advance"
  ELSE CASE u.kind = "photo" -> "send" [] u.kind = "tap" -> "tap" [] u.kind = "reply" -> "amend"

\* Mutant: the update is completed when it is claimed.
ClaimAndComplete ==
  /\ job.stage = "idle" /\ next <= batch
  /\ Stage(FirstStage(Update))
  /\ inbox' = [inbox EXCEPT ![next].done = TRUE]
  /\ UNCHANGED <<database, chat, batch, next>>

ClaimUpdate ==
  /\ job.stage = "idle" /\ next <= batch
  /\ Stage(FirstStage(Update))
  /\ UNCHANGED <<database, chat, poll>>

CompleteUpdate ==
  /\ job.stage = "complete"
  /\ inbox' = [inbox EXCEPT ![next].done = TRUE]
  /\ Stage("advance")
  /\ UNCHANGED <<database, chat, batch, next>>

\* The loop of Poll goes on to the next update of the batch.
Advance ==
  /\ job.stage = "advance"
  /\ next' = next + 1
  /\ job' = NoJob
  /\ UNCHANGED <<database, chat, inbox, batch>>

\* b.edit: a failed edit is logged, and the message stays as it was.
Render ==
  /\ job.stage = "render"
  /\ \/ chat' = [chat EXCEPT ![job.msg] = job.look]
     \/ world.editsFail /\ UNCHANGED chat
  /\ Stage(job.then)
  /\ UNCHANGED <<database, poll>>

-----------------------------------------------------------------------------
(***************************************************************************)
(* handlePhoto and handleDuplicate.                                        *)
(***************************************************************************)

\* SendMessage("Leyendo tu ticket") and the download.
SendReading ==
  LET r == Update.doc  m == Len(chat) + 1 IN
  /\ job.stage = "send"
  /\ \/ /\ chat' = Append(chat, Face(r, "reading", Nothing, {}))
        /\ job' = [job EXCEPT !.stage = "ingest", !.msg = m]
     \/ /\ world.photosFail       \* "no pude descargar el archivo"
        /\ chat' = Append(chat, Notice(r))
        /\ Stage("complete")
     \/ /\ world.photosFail /\ Stage("complete") /\ UNCHANGED chat
  /\ UNCHANGED <<database, poll>>

\* CreateReceipt, or the branches of handleDuplicate.
Ingest ==
  LET r == Update.doc IN
  /\ job.stage = "ingest"
  /\ \/ /\ life[r] = "absent"
        /\ life' = [life EXCEPT ![r] = "pending"]
        /\ Stage("read")
     \/ /\ life[r] \in {"discarded", "failed"}
        /\ Stage("read")
        /\ UNCHANGED life
     \/ /\ life[r] \in {"awaiting_confirm", "pending", "confirmed"}
        /\ Draw(job.msg, Notice(r), "complete")
        /\ UNCHANGED life
  /\ UNCHANGED <<draft, ledger, entered, card, chat, poll>>

\* runExtraction: the reading is stored and the receipt awaits confirmation or
\* has failed; a failed extraction leaves the stored reading alone.
Outcome(r) ==
  \/ \E d \in world.says \cup {Unreadable} :
       /\ draft' = [draft EXCEPT ![r] = d]
       /\ life' = [life EXCEPT ![r] = ResultStatus(d)]
  \/ /\ life' = [life EXCEPT ![r] = "failed"]
     /\ UNCHANGED draft

\* What renderResult draws on message m of the outcome just stored.
DrawOutcome(r, m, then) ==
  Draw(m, IF life'[r] = "failed" THEN FailedCard(r) ELSE DraftCard(r, draft'[r]), then)

ReadPhoto ==
  LET r == Update.doc IN
  /\ job.stage = "read"
  /\ Outcome(r)
  /\ DrawOutcome(r, job.msg, "register")
  /\ UNCHANGED <<ledger, entered, card, chat, poll>>

\* SetCard, after the card has been drawn.
Register ==
  /\ job.stage = "register"
  /\ card' = [card EXCEPT ![Update.doc] = job.msg]
  /\ Stage("complete")
  /\ UNCHANGED <<life, draft, ledger, entered, chat, poll>>

-----------------------------------------------------------------------------
(***************************************************************************)
(* handleCallback.                                                         *)
(***************************************************************************)

\* ConfirmReceipt completes the update in the transaction that saves.
Completed == inbox' = [inbox EXCEPT ![next].done = TRUE]

TapConfirm ==
  LET r == Update.doc  m == Update.msg IN
  /\ job.stage = "tap" /\ Update.what = "confirm"
  /\ \/ /\ draft[r] = Unreadable
        /\ Draw(m, CorruptCard(r), "complete")
        /\ UNCHANGED <<life, ledger, entered, inbox>>
     \/ /\ draft[r] # Unreadable /\ life[r] = "awaiting_confirm"
        /\ life' = [life EXCEPT ![r] = "confirmed"]
        /\ ledger' = [ledger EXCEPT ![r] = draft[r]]
        /\ entered' = [entered EXCEPT ![r] = @ + 1]
        /\ Completed
        /\ Draw(m, SavedCard(r, draft[r]), "advance")
     \/ /\ draft[r] # Unreadable /\ life[r] # "awaiting_confirm"
        /\ Draw(m, IF life[r] = "failed" THEN FailedCard(r) ELSE Notice(r), "complete")
        /\ UNCHANGED <<life, ledger, entered, inbox>>
  /\ UNCHANGED <<draft, card, chat, batch, next>>

\* DiscardReceipt completes the update even when there is nothing to discard.
TapDiscard ==
  LET r == Update.doc  m == Update.msg IN
  /\ job.stage = "tap" /\ Update.what = "discard"
  /\ Completed
  /\ IF life[r] \in {"awaiting_confirm", "failed"}
     THEN /\ life' = [life EXCEPT ![r] = "discarded"]
          /\ Draw(m, DiscardedCard(r), "advance")
     ELSE /\ Draw(m, Notice(r), "advance")
          /\ UNCHANGED life
  /\ UNCHANGED <<draft, ledger, entered, card, chat, batch, next>>

\* Reprocess refuses a draft under review and an expense that counts.
Reprocessable(r) ==
  \/ life[r] \in {"pending", "failed", "discarded"}
  \/ life[r] = "confirmed" /\ ledger[r] = Nothing

\* The result is drawn on the tapped message, which is not registered.
TapRetry ==
  LET r == Update.doc  m == Update.msg IN
  /\ job.stage = "tap" /\ Update.what = "retry"
  /\ IF Reprocessable(r)
     THEN Outcome(r) /\ DrawOutcome(r, m, "complete")
     ELSE Draw(m, Notice(r), "complete") /\ UNCHANGED <<life, draft>>
  /\ UNCHANGED <<ledger, entered, card, chat, poll>>

\* ConfirmReceipt, DiscardReceipt or Reprocess returns an error: it is logged,
\* the card stays as it is, and the update is completed all the same. Reprocess
\* may have stored its reading before it fails. (An error of GetReceipt, before
\* these, is answered over the card as "not found"; it is left out.)
TapFails ==
  LET r == Update.doc IN
  /\ world.tapsFail /\ job.stage = "tap" /\ Update.what # "undo"
  /\ \/ UNCHANGED draft
     \/ /\ Update.what = "retry" /\ Reprocessable(r)
        /\ \E d \in world.says \cup {Unreadable} : draft' = [draft EXCEPT ![r] = d]
  /\ Stage("complete")
  /\ UNCHANGED <<life, ledger, entered, card, chat, poll>>

\* Undo, the button of a card drawn by a reply to an unregistered message.
TapUndo ==
  LET r == Update.doc  m == Update.msg IN
  /\ job.stage = "tap" /\ Update.what = "undo"
  /\ IF ledger[r] # Nothing /\ entered[r] = Update.seen.txn
     THEN /\ ledger' = [ledger EXCEPT ![r] = Nothing]
          /\ Draw(m, UndoneCard(r), "complete")
     ELSE Stage("complete") /\ UNCHANGED ledger
  /\ UNCHANGED <<life, draft, entered, card, chat, poll>>

-----------------------------------------------------------------------------
(***************************************************************************)
(* handleReply: the registered card of a receipt, or else a message whose  *)
(* text begins with an id, which is taken for a receipt-less expense.      *)
(***************************************************************************)
IsRegistered(u) == card[u.doc] = u.msg

\* Mutant: a correction that is refused is answered over the card.
AmendOverTheCard ==
  LET r == Update.doc IN
  /\ job.stage = "amend" /\ IsRegistered(Update)
  /\ IF life[r] \in {"awaiting_confirm", "failed"}
     THEN draft' = [draft EXCEPT ![r] = Update.what] /\ Stage("settle")
     ELSE /\ life[r] # "confirmed"
          /\ Draw(Update.msg, Notice(r), "complete")
          /\ UNCHANGED draft
  /\ UNCHANGED <<life, ledger, entered, card, chat, poll>>

\* AmendExtraction: the patch is stored before the draft is validated.
AmendDraft ==
  LET r == Update.doc IN
  /\ job.stage = "amend" /\ IsRegistered(Update)
  /\ IF life[r] \in {"awaiting_confirm", "failed"}
     THEN draft' = [draft EXCEPT ![r] = Update.what] /\ Stage("settle")
     ELSE life[r] # "confirmed" /\ Stage("complete") /\ UNCHANGED draft
  /\ UNCHANGED <<life, ledger, entered, card, chat, poll>>

\* Mutant: the card is not drawn again while the draft stays valid.
SettleQuietly ==
  LET r == Update.doc IN
  /\ job.stage = "settle"
  /\ life' = [life EXCEPT ![r] = ResultStatus(draft[r])]
  /\ IF draft[r] # Unreadable /\ life[r] = "awaiting_confirm" THEN Stage("complete")
     ELSE Draw(card[r], ResultCard(r, draft[r]), "complete")
  /\ UNCHANGED <<draft, ledger, entered, card, chat, poll>>

SettleAmend ==
  LET r == Update.doc IN
  /\ job.stage = "settle"
  /\ life' = [life EXCEPT ![r] = ResultStatus(draft[r])]
  /\ Draw(card[r], ResultCard(r, draft[r]), "complete")
  /\ UNCHANGED <<draft, ledger, entered, card, chat, poll>>

\* Only the cards of drafts, failures and expenses begin with an id that
\* manualCardID finds; a reply to any other message is ordinary text.
BearsId(look) == look.face \in {"draft", "failed", "corrupt", "saved"}

\* Mutant: the edit completes the update, before the card is drawn.
EditAndComplete ==
  LET r == Update.doc
      look == IF IsRegistered(Update) THEN SavedCard(r, Update.what)
              ELSE UndoableCard(r, Update.what)
  IN /\ job.stage = "amend"
     /\ IF IsRegistered(Update) THEN life[r] = "confirmed" ELSE BearsId(Update.seen)
     /\ IF ledger[r] # Nothing /\ Update.what # Unreadable
        THEN /\ ledger' = [ledger EXCEPT ![r] = Update.what]
             /\ Completed
             /\ Draw(Update.msg, look, "advance")
        ELSE Stage("complete") /\ UNCHANGED <<ledger, inbox>>
     /\ UNCHANGED <<life, draft, entered, card, chat, batch, next>>

\* Mutant: a correction is stored although it cannot be parsed.
EditUnparsed ==
  LET r == Update.doc
      look == IF IsRegistered(Update) THEN SavedCard(r, Update.what)
              ELSE UndoableCard(r, Update.what)
  IN /\ job.stage = "amend"
     /\ IF IsRegistered(Update) THEN life[r] = "confirmed" ELSE BearsId(Update.seen)
     /\ IF ledger[r] # Nothing
        THEN /\ ledger' = [ledger EXCEPT ![r] = Update.what]
             /\ Draw(Update.msg, look, "complete")
        ELSE Stage("complete") /\ UNCHANGED ledger
     /\ UNCHANGED <<life, draft, entered, card, chat, poll>>

\* command.Edit on the active expense of the receipt, then the saved card again.
EditExpense ==
  LET r == Update.doc
      look == IF IsRegistered(Update) THEN SavedCard(r, Update.what)
              ELSE UndoableCard(r, Update.what)
  IN /\ job.stage = "amend"
     /\ IF IsRegistered(Update) THEN life[r] = "confirmed" ELSE BearsId(Update.seen)
     /\ IF ledger[r] # Nothing /\ Update.what # Unreadable
        THEN /\ ledger' = [ledger EXCEPT ![r] = Update.what]
             /\ Draw(Update.msg, look, "complete")
        ELSE Stage("complete") /\ UNCHANGED ledger
     /\ UNCHANGED <<life, draft, entered, card, chat, poll>>

NotACommand ==
  /\ job.stage = "amend" /\ ~IsRegistered(Update) /\ ~BearsId(Update.seen)
  /\ Stage("complete")
  /\ UNCHANGED <<database, chat, poll>>

-----------------------------------------------------------------------------
(***************************************************************************)
(* Crash, restart, boot sweep.                                             *)
(***************************************************************************)

\* Bounded by world.cards: a photo handled again is answered with a new message.
Crash ==
  /\ world.crashes /\ job.stage # "down"
  /\ Messages <= world.cards
  /\ job' = [NoJob EXCEPT !.stage = "down"]
  /\ batch' = 0 /\ next' = 1          \* the offset was in memory
  /\ UNCHANGED <<database, chat, inbox>>

Boot ==
  /\ job.stage = "down"
  /\ job' = [NoJob EXCEPT !.stage = "sweep"]
  /\ UNCHANGED <<database, chat, poll>>

\* Mutant: nothing is resumed at boot.
SweepNothing ==
  /\ job.stage = "sweep"
  /\ job' = NoJob
  /\ UNCHANGED <<database, chat, poll>>

\* BootSweep: the result is drawn only on a card that was registered.
Sweep ==
  /\ job.stage = "sweep"
  /\ \/ \E r \in Receipts :
          /\ life[r] = "pending"
          /\ Outcome(r)
          /\ IF card[r] # 0 THEN DrawOutcome(r, card[r], "sweep") ELSE UNCHANGED job
     \/ /\ \A r \in Receipts : life[r] # "pending"
        /\ job' = NoJob
        /\ UNCHANGED <<life, draft>>
  /\ UNCHANGED <<ledger, entered, card, chat, poll>>

-----------------------------------------------------------------------------
User ==
  \/ \E r \in Receipts : SendPhoto(r) \/ Void(r)
  \/ \E m \in DOMAIN chat :
       \/ \E button \in Buttons : Tap(m, button)
       \/ \E fix \in world.says \cup {Unreadable} : Reply(m, fix)

BotStep ==
  \/ GetUpdates \/ ClaimUpdate \/ CompleteUpdate \/ Advance \/ Render
  \/ SendReading \/ Ingest \/ ReadPhoto \/ Register
  \/ TapConfirm \/ TapDiscard \/ TapRetry \/ TapFails \/ TapUndo
  \/ AmendDraft \/ SettleAmend \/ EditExpense \/ NotACommand
  \/ Boot \/ Sweep

Next == (User \/ BotStep \/ Crash) /\ UNCHANGED world

Spec == Init /\ [][Next]_vars

\* The bot's code runs on and the container is restarted; the user need not act.
FairSpec == Spec /\ WF_vars(BotStep /\ UNCHANGED world)

-----------------------------------------------------------------------------
(***************************************************************************)
(* Properties.                                                             *)
(***************************************************************************)

Action == [kind : {"photo", "tap", "reply"}, doc : Receipts, msg : DOMAIN chat \cup {0},
           seen : Card, what : Buttons \cup Drafts \cup {Unreadable, Nothing},
           done : BOOLEAN]

TypeOK ==
  /\ world \in World
  /\ life \in [Receipts -> Status]
  /\ draft \in [Receipts -> Drafts \cup {Unreadable}]
  /\ ledger \in [Receipts -> Drafts \cup {Nothing}]
  /\ entered \in [Receipts -> Nat]
  /\ card \in [Receipts -> DOMAIN chat \cup {0}]
  /\ \A m \in DOMAIN chat : chat[m] \in Card
  /\ \A i \in DOMAIN inbox : inbox[i] \in Action
  /\ batch \in 0..Len(inbox) /\ next \in 1..batch + 1
  /\ job.stage \in Stages /\ job.then \in Stages /\ job.msg \in DOMAIN chat \cup {0}
  /\ job.stage = "render" => job.look \in Card

\* Everything the user has sent has been handled.
Quiescent == job.stage = "idle" /\ next > Len(inbox)

\* Some message offers these buttons for receipt r.
Offered(r, buttons) ==
  \E m \in DOMAIN chat : chat[m].doc = r /\ buttons \subseteq chat[m].buttons

\* An update that will not be delivered to the bot again, or that it would not
\* handle again, has done its work: however the bot is killed and restarted,
\* a photo is not lost between Telegram's queue and the database, unless its
\* download fails, which is answered.
HandledPhotosAreOnRecord ==
  ~world.photosFail => \A i \in DOMAIN inbox :
    inbox[i].kind = "photo" /\ (inbox[i].done \/ i < next) => life[inbox[i].doc] # "absent"

\* README.md:98, "The bot replies with a summary card ... and Confirmar /
\* Descartar buttons": a draft under review can be confirmed from the chat.
AwaitingIsConfirmable ==
  Quiescent => \A r \in Receipts :
    life[r] = "awaiting_confirm" => Offered(r, {"confirm", "discard"})

\* README.md:98, "A discarded card keeps a Reintentar button".
DiscardedIsRetriable ==
  Quiescent => \A r \in Receipts : life[r] = "discarded" => Offered(r, {"retry"})

\* bot.go:322, "never leave a dead card": whatever a user who waits for each
\* answer does on however many cards of a receipt, and whatever a tap fails to
\* store, the chat is left with the buttons that the status calls for, as long
\* as the bot is not killed and can draw.
CardsAreLive ==
  world.inbox = 1 /\ ~world.crashes /\ ~world.editsFail =>
    /\ AwaitingIsConfirmable
    /\ DiscardedIsRetriable
    /\ Quiescent => \A r \in Receipts : life[r] = "failed" => Offered(r, {"retry", "discard"})

\* bot.go:338, "so confirm always persists exactly what the card showed", and
\* README.md:108, "so you confirm what you see": what a tap on Confirm saves is
\* the draft that the tapped card showed when it was tapped, if the user waits
\* for each answer and has but one card of the receipt, and if the bot can draw
\* (when an edit fails, the old draft stays on the card and can be confirmed).
ConfirmWhatYouSee ==
  [][world.inbox = 1 /\ world.cards = 1 /\ ~world.editsFail => \A r \in Receipts :
       entered'[r] > entered[r] => ledger'[r] = Update.seen.shown]_vars

\* When all is quiet, a card that says an expense was saved shows the expense
\* as it is in the totals, corrections included, if there is one card of the
\* receipt and the bot can draw.
SavedCardsAreTrue ==
  world.inbox = 1 /\ world.cards = 1 /\ ~world.editsFail /\ Quiescent => \A m \in DOMAIN chat :
    chat[m].face = "saved" /\ ledger[chat[m].doc] # Nothing =>
      chat[m].shown = ledger[chat[m].doc]

\* If the bot is not killed for ever, a photo that reached Telegram is in the
\* end read, or reported as failed.
BotStaysUp == <>[](job.stage # "down")
Sent(r) == \E i \in DOMAIN inbox : inbox[i].kind = "photo" /\ inbox[i].doc = r
PhotosAreRead ==
  BotStaysUp /\ ~world.photosFail => \A r \in Receipts : Sent(r) ~> (life[r] \notin {"absent", "pending"})
=============================================================================
