----------------------------- MODULE CardsProofs ----------------------------
(***************************************************************************)
(* Theorems of Cards, for every set of receipts and drafts and every kind  *)
(* of user and of faults: any number of cards, of queued updates, of       *)
(* crashes.                                                                *)
(***************************************************************************)
EXTENDS Cards, SequenceTheorems, FiniteSetTheorems, TLAPS

-----------------------------------------------------------------------------
(***************************************************************************)
(* Types, and what the parts say of one another: the docs of the messages, *)
(* of the updates about them, and of the card at hand.                     *)
(***************************************************************************)
Readings == Drafts \cup {Unreadable}
Entry == [kind : {"photo", "tap", "reply"}, doc : Receipts, msg : Nat, seen : Card,
          what : Buttons \cup Drafts \cup {Unreadable, Nothing}, done : BOOLEAN]
Job(n) == [stage : Stages, msg : 0..n, then : Stages, look : Card \cup {Nothing}]

DataOK ==
  /\ world \in World
  /\ life \in [Receipts -> Status]
  /\ draft \in [Receipts -> Readings]
  /\ ledger \in [Receipts -> Drafts \cup {Nothing}]
  /\ entered \in [Receipts -> Nat]
  /\ card \in [Receipts -> Nat]

QueueOK ==
  /\ chat \in Seq(Card) /\ inbox \in Seq(Entry)
  /\ batch \in 0..Len(inbox) /\ next \in 1..batch + 1

\* Message m is there, and about receipt r.
IsAbout(m, r) == m \in 1..Len(chat) /\ chat[m].doc = r

LinkOK(u) ==
  /\ u.kind = "photo" => u.msg = 0
  /\ u.kind # "photo" => IsAbout(u.msg, u.doc)
  /\ u.kind = "tap" => u.what \in Buttons
  /\ u.kind = "reply" => u.what \in Readings

LinksOK ==
  /\ \A i \in 1..Len(inbox) : LinkOK(inbox[i])
  /\ \A r \in Receipts : card[r] # 0 => IsAbout(card[r], r)

\* Something is being done for an update of the batch, not at boot.
Handling ==
  /\ job.stage \notin {"down", "sweep", "idle"}
  /\ job.stage = "render" => job.then # "sweep"

OfPhoto ==
  \/ job.stage \in {"send", "ingest", "read", "register"}
  \/ job.stage = "render" /\ job.then = "register"

JobOK ==
  /\ job \in Job(Len(chat))
  /\ job.stage = "render" =>
       /\ job.look \in Card /\ IsAbout(job.msg, job.look.doc)
       /\ job.then \in {"register", "complete", "advance", "sweep"}
       /\ Handling => job.look.doc = Update.doc
  /\ Handling => next <= batch
  /\ OfPhoto => Update.kind = "photo"
  /\ OfPhoto /\ job.stage # "send" => IsAbout(job.msg, Update.doc)
  /\ job.stage = "tap" => Update.kind = "tap"
  /\ job.stage \in {"amend", "settle"} => Update.kind = "reply"
  /\ job.stage = "settle" => IsRegistered(Update)

TypeInv == DataOK /\ QueueOK /\ LinksOK /\ JobOK
\* What the parts are when the types are right.
LEMMA Basics ==
  ASSUME TypeInv
  PROVE  /\ Len(chat) \in Nat /\ Len(inbox) \in Nat /\ batch \in Nat /\ next \in Nat
         /\ DOMAIN chat = 1..Len(chat) /\ DOMAIN inbox = 1..Len(inbox)
         /\ \A m \in 1..Len(chat) : chat[m] \in Card
         /\ \A i \in 1..Len(inbox) : inbox[i] \in Entry /\ LinkOK(inbox[i])
         /\ world.says \in SUBSET Drafts
<1>1. chat \in Seq(Card) /\ inbox \in Seq(Entry)
  BY DEF TypeInv, QueueOK
<1>2. Len(chat) \in Nat /\ Len(inbox) \in Nat /\ DOMAIN chat = 1..Len(chat) /\ DOMAIN inbox = 1..Len(inbox)
  BY <1>1, LenProperties
<1>3. \A m \in 1..Len(chat) : chat[m] \in Card
  BY <1>1, ElementOfSeq
<1>4. \A i \in 1..Len(inbox) : inbox[i] \in Entry /\ LinkOK(inbox[i])
  BY <1>1, ElementOfSeq DEF TypeInv, LinksOK
<1>5. batch \in Nat /\ next \in Nat
  BY <1>2 DEF TypeInv, QueueOK
<1>6. world.says \in SUBSET Drafts
  BY DEF TypeInv, DataOK, World
<1> QED
  BY <1>2, <1>3, <1>4, <1>5, <1>6

\* The update at hand.
LEMMA AtHand ==
  ASSUME TypeInv, Handling
  PROVE  /\ next \in 1..Len(inbox) /\ Update \in Entry /\ LinkOK(Update) /\ Update.doc \in Receipts
         /\ Update.kind # "photo" => IsAbout(Update.msg, Update.doc)
<1>1. next \in 1..Len(inbox)
  BY Basics DEF TypeInv, JobOK, QueueOK
<1> QED
  BY <1>1, Basics DEF Update, Entry, LinkOK

\* The cards that the handlers draw.
LEMMA Drawn ==
  ASSUME NEW r \in Receipts
  PROVE  /\ \A look \in {FailedCard(r), CorruptCard(r), DiscardedCard(r), UndoneCard(r), Notice(r),
                         Face(r, "reading", Nothing, {})} : look \in Card /\ look.doc = r
         /\ \A d \in Drafts : DraftCard(r, d) \in Card /\ DraftCard(r, d).doc = r
         /\ \A d \in Drafts : SavedCard(r, d) \in Card /\ SavedCard(r, d).doc = r
         /\ \A d \in Readings : ResultCard(r, d) \in Card /\ ResultCard(r, d).doc = r
         /\ entered[r] \in Nat =>
              \A d \in Drafts : UndoableCard(r, d) \in Card /\ UndoableCard(r, d).doc = r
BY DEF FailedCard, CorruptCard, DiscardedCard, UndoneCard, Notice, DraftCard, SavedCard, ResultCard, UndoableCard,
   Readings, Face, Card, Faces, Buttons
-----------------------------------------------------------------------------
(* What a step does to the messages and to the queue: messages keep their    *)
(* receipt, updates what they ask for.                                       *)

ChatKept ==
  /\ chat' \in Seq(Card) /\ Len(chat') >= Len(chat)
  /\ \A m \in 1..Len(chat) : chat'[m].doc = chat[m].doc

SameAsk(u, v) ==
  u.kind = v.kind /\ u.doc = v.doc /\ u.msg = v.msg /\ u.seen = v.seen /\ u.what = v.what

InboxKept ==
  /\ inbox' \in Seq(Entry) /\ Len(inbox') = Len(inbox)
  /\ \A i \in 1..Len(inbox) : SameAsk(inbox'[i], inbox[i]) /\ (inbox[i].done => inbox'[i].done)

LEMMA Marked ==
  ASSUME TypeInv, inbox' = inbox \/ (next \in 1..Len(inbox) /\ Completed)
  PROVE  InboxKept
<1>1. inbox \in Seq(Entry) /\ Len(inbox) \in Nat /\ \A i \in 1..Len(inbox) : inbox[i] \in Entry
  BY Basics DEF TypeInv, QueueOK
<1>2. CASE inbox' = inbox
  BY <1>1, <1>2 DEF InboxKept, SameAsk
<1>3. CASE next \in 1..Len(inbox) /\ Completed
  <2> DEFINE u == [inbox[next] EXCEPT !.done = TRUE]
  <2>1. u \in Entry /\ SameAsk(u, inbox[next]) /\ u.done
    BY <1>1, <1>3 DEF Entry, SameAsk
  <2>2. inbox' = [inbox EXCEPT ![next] = u]
    BY <1>3 DEF Completed
  <2> HIDE DEF u
  <2>3. inbox' \in Seq(Entry) /\ Len(inbox') = Len(inbox)
    BY <1>1, <1>3, <2>1, <2>2, ExceptSeq
  <2>4. \A i \in 1..Len(inbox) : SameAsk(inbox'[i], inbox[i]) /\ (inbox[i].done => inbox'[i].done)
    BY <1>1, <1>3, <2>1, <2>2 DEF SameAsk
  <2> QED
    BY <2>3, <2>4 DEF InboxKept
<1> QED
  BY <1>2, <1>3

LEMMA ChatSame == ASSUME TypeInv, UNCHANGED chat PROVE ChatKept
BY Basics DEF ChatKept, TypeInv, QueueOK

LEMMA ChatDrawn == ASSUME TypeInv, Render PROVE ChatKept
<1>1. chat \in Seq(Card) /\ job.look \in Card /\ job.msg \in 1..Len(chat) /\ chat[job.msg].doc = job.look.doc
  BY DEF TypeInv, QueueOK, JobOK, Render, IsAbout
<1>2. CASE chat' = [chat EXCEPT ![job.msg] = job.look]
  <2>1. chat' \in Seq(Card) /\ Len(chat') = Len(chat)
    BY <1>1, <1>2, ExceptSeq
  <2> QED
    BY <1>1, <1>2, <2>1, Basics DEF ChatKept
<1> QED
  BY <1>2, ChatSame DEF Render

LEMMA ChatSent == ASSUME TypeInv, NEW look \in Card, chat' = Append(chat, look) PROVE ChatKept
BY Basics, AppendProperties DEF ChatKept, TypeInv, QueueOK

LEMMA AboutKept ==
  ASSUME TypeInv, ChatKept, NEW m, NEW r, IsAbout(m, r) PROVE IsAbout(m, r)'
BY Basics DEF ChatKept, IsAbout

\* What the handlers keep, whatever they do to the database and to the job.
LEMMA Keeps ==
  ASSUME TypeInv, DataOK', ChatKept, InboxKept, batch' = batch, next' \in 1..batch + 1,
         \A r \in Receipts : card'[r] = card[r] \/ IsAbout(card'[r], r),
         JobOK'
  PROVE  TypeInv'
<1>1. \A m, r : IsAbout(m, r) => m \in 1..Len(chat') /\ chat'[m].doc = r
  BY AboutKept DEF IsAbout
<1>2. ASSUME NEW i \in 1..Len(inbox) PROVE LinkOK(inbox[i])'
  <2>1. LinkOK(inbox[i]) /\ SameAsk(inbox'[i], inbox[i])
    BY Basics DEF InboxKept
  <2> QED
    BY <1>1, <2>1 DEF LinkOK, SameAsk, IsAbout
<1>3. LinksOK'
  BY <1>1, <1>2 DEF LinksOK, InboxKept, TypeInv, IsAbout
<1>4. QueueOK'
  BY DEF QueueOK, ChatKept, InboxKept, TypeInv
<1> QED
  BY <1>3, <1>4 DEF TypeInv

\* The update at hand asks the same after the step.
LEMMA SameUpdate ==
  ASSUME TypeInv, Handling, ChatKept, InboxKept, batch' = batch, next' = next
  PROVE  /\ next \in 1..Len(inbox) /\ next' <= batch'
         /\ Update.doc \in Receipts /\ SameAsk(Update', Update)
         /\ (Update.kind # "photo" => IsAbout(Update.msg, Update.doc)')
         /\ Len(chat) \in Nat /\ Len(chat') \in Nat
<1>1. next \in 1..Len(inbox) /\ next <= batch
  BY AtHand DEF TypeInv, JobOK
<1>2. SameAsk(Update', Update)
  BY <1>1 DEF InboxKept, Update
<1>3. Len(chat') \in Nat
  BY DEF ChatKept
<1>4. Update.kind # "photo" => IsAbout(Update.msg, Update.doc)'
  BY <1>2, AtHand, AboutKept DEF SameAsk, IsAbout
<1> QED
  BY <1>1, <1>2, <1>3, <1>4, AtHand, Basics

\* The handler goes on to another stage, without a card to draw.
LEMMA StageKeeps ==
  ASSUME TypeInv, Handling, ChatKept, InboxKept, batch' = batch, next' = next,
         NEW s \in Stages \ {"render", "down", "sweep", "idle"}, Stage(s),
         s \in {"send", "ingest", "read", "register"} => Update.kind = "photo",
         s \in {"ingest", "read", "register"} => IsAbout(job.msg, Update.doc),
         s = "tap" => Update.kind = "tap",
         s \in {"amend", "settle"} => Update.kind = "reply",
         s = "settle" => IsRegistered(Update) /\ card' = card
  PROVE  JobOK' /\ Handling'
<1>1. /\ job \in Job(Len(chat)) /\ Len(chat) \in Nat /\ Len(chat') \in Nat /\ Len(chat') >= Len(chat)
  BY SameUpdate DEF TypeInv, JobOK, ChatKept
<1>2. job' \in Job(Len(chat')) /\ job'.stage = s /\ job'.msg = job.msg
  BY <1>1 DEF Job, Stage
<1>3. s \in {"ingest", "read", "register"} => IsAbout(job.msg, Update.doc)'
  BY <1>2, SameUpdate, AboutKept DEF SameAsk, IsAbout
<1> QED
  BY <1>2, <1>3, SameUpdate DEF JobOK, Handling, OfPhoto, SameAsk, IsRegistered

\* The handler goes on to draw a card on a message of its receipt.
LEMMA DrawKeeps ==
  ASSUME TypeInv, Handling, ChatKept, InboxKept, batch' = batch, next' = next,
         NEW m, NEW look \in Card, NEW then \in {"register", "complete", "advance"}, Draw(m, look, then),
         IsAbout(m, Update.doc), look.doc = Update.doc, then = "register" => Update.kind = "photo"
  PROVE  JobOK' /\ Handling'
<1>1. job' = [stage |-> "render", msg |-> m, then |-> then, look |-> look]
  BY DEF Draw
<1>2. m \in 1..Len(chat') /\ chat'[m].doc = Update.doc
  BY AboutKept DEF IsAbout
<1>3. job' \in Job(Len(chat'))
  BY <1>1, <1>2 DEF Job, Stages
<1> QED
  BY <1>1, <1>2, <1>3, SameUpdate DEF JobOK, Handling, OfPhoto, SameAsk, IsAbout

\* No update is at hand.
LEMMA RestKeeps ==
  ASSUME NEW s \in {"idle", "down", "sweep"}, job' = [NoJob EXCEPT !.stage = s], Len(chat') \in Nat
  PROVE  JobOK'
BY DEF JobOK, Handling, OfPhoto, NoJob, Job, Stages

LEMMA InitTypes == Init => TypeInv
<1> SUFFICES ASSUME Init PROVE TypeInv
  OBVIOUS
<1>1. DataOK
  BY WorldAssumption DEF Init, DataOK, Status, Readings
<1>2. chat = << >> /\ inbox = << >> /\ Len(chat) = 0 /\ Len(inbox) = 0
  BY DEF Init
<1>3. QueueOK /\ LinksOK
  BY <1>2 DEF Init, QueueOK, LinksOK
<1>4. JobOK
  BY <1>2 DEF Init, JobOK, Handling, OfPhoto, NoJob, Job, Stages
<1> QED
  BY <1>1, <1>3, <1>4 DEF TypeInv
-----------------------------------------------------------------------------
(* The steps.                                                                *)

\* The user adds an update at the end of the queue.
LEMMA AskKeeps ==
  ASSUME TypeInv, NEW u \in Entry, LinkOK(u), inbox' = Append(inbox, u),
         UNCHANGED <<world, database, chat, batch, next, job>>
  PROVE  TypeInv' /\ (Handling => Update' = Update)
<1>1. /\ inbox' \in Seq(Entry) /\ Len(inbox') = Len(inbox) + 1
      /\ \A i \in 1..Len(inbox) : inbox'[i] = inbox[i]
      /\ inbox'[Len(inbox) + 1] = u
  BY AppendProperties DEF TypeInv, QueueOK
<1>2. DataOK'
  BY DEF TypeInv, DataOK, database
<1>3. QueueOK'
  BY <1>1, Basics DEF TypeInv, QueueOK
<1>4. LinksOK'
  <2> SUFFICES ASSUME NEW i \in 1..Len(inbox) + 1 PROVE LinkOK(inbox[i])'
    BY <1>1 DEF LinksOK, TypeInv, IsAbout, database
  <2>1. LinkOK(inbox'[i])
    BY <1>1, Basics
  <2> QED
    BY <2>1 DEF LinkOK, IsAbout
<1>5. Handling => Update' = Update
  BY <1>1, AtHand DEF Update
<1>6. JobOK'
  <2>1. Handling' = Handling /\ OfPhoto' = OfPhoto
    BY DEF Handling, OfPhoto
  <2>2. OfPhoto \/ job.stage \in {"tap", "amend", "settle"} => Handling
    BY DEF Handling, OfPhoto
  <2> QED
    BY <1>5, <2>1, <2>2 DEF TypeInv, JobOK, IsAbout, IsRegistered, database
<1> QED
  BY <1>2, <1>3, <1>4, <1>5, <1>6 DEF TypeInv

LEMMA UserTypes == ASSUME TypeInv, User, UNCHANGED world PROVE TypeInv'
<1>1. ASSUME NEW r \in Receipts, SendPhoto(r) PROVE TypeInv'
  <2> DEFINE u == [kind |-> "photo", doc |-> r, msg |-> 0, seen |-> Notice(r), what |-> Nothing,
                   done |-> FALSE]
  <2>1. u \in Entry /\ LinkOK(u)
    BY Drawn DEF Entry, LinkOK
  <2> QED
    BY <1>1, <2>1, AskKeeps DEF SendPhoto
<1>2. ASSUME NEW r \in Receipts, Void(r) PROVE TypeInv'
  <2>1. DataOK' /\ ChatKept /\ InboxKept
    BY <1>2, ChatSame, Marked DEF Void, TypeInv, DataOK, poll
  <2>2. JobOK'
    BY <1>2 DEF Void, TypeInv, JobOK, Handling, OfPhoto, Update, IsAbout, IsRegistered, poll
  <2> QED
    BY <1>2, <2>1, <2>2, Keeps DEF Void, poll, TypeInv, QueueOK
<1>3. ASSUME NEW m \in DOMAIN chat, NEW kind \in {"tap", "reply"}, NEW what,
             kind = "tap" => what \in Buttons, kind = "reply" => what \in Readings,
             Say(OnCard(kind, m, what)), UNCHANGED <<database, chat, batch, next, job>>
      PROVE  TypeInv'
  <2>1. m \in 1..Len(chat) /\ m \in Nat /\ chat[m] \in Card /\ chat[m].doc \in Receipts
    BY Basics DEF Card
  <2>2. OnCard(kind, m, what) \in Entry /\ LinkOK(OnCard(kind, m, what))
    BY <1>3, <2>1 DEF OnCard, Entry, LinkOK, IsAbout, Readings
  <2> QED
    BY <1>3, <2>2, AskKeeps DEF Say
<1>4. ASSUME NEW m \in DOMAIN chat, NEW button \in Buttons, Tap(m, button) PROVE TypeInv'
  BY <1>3, <1>4 DEF Tap
<1>5. ASSUME NEW m \in DOMAIN chat, NEW fix \in world.says \cup {Unreadable}, Reply(m, fix) PROVE TypeInv'
  <2>1. fix \in Readings
    BY Basics DEF Readings
  <2> QED
    BY <1>3, <1>5, <2>1 DEF Reply
<1> QED
  BY <1>1, <1>2, <1>4, <1>5 DEF User

LEMMA PollTypes ==
  ASSUME TypeInv, UNCHANGED world,
         GetUpdates \/ ClaimUpdate \/ CompleteUpdate \/ Advance \/ Render
  PROVE  TypeInv'
<1>1. CASE GetUpdates
  <2> DEFINE rest == SubSeq(inbox, next, Len(inbox))
  <2>1. /\ inbox' = rest /\ batch' = Len(rest) /\ next' = 1 /\ job.stage = "idle"
        /\ UNCHANGED <<database, chat, job>>
    BY <1>1 DEF GetUpdates
  <2>2. next \in 1..Len(inbox) + 1 /\ Len(inbox) \in Nat
    BY Basics DEF TypeInv, QueueOK
  <2>3. /\ rest \in Seq(Entry) /\ Len(rest) \in Nat
        /\ Len(rest) = Len(inbox) - next + 1
        /\ \A i \in 1..Len(rest) : rest[i] = inbox[next + i - 1]
    BY <2>2, SubSeqProperties DEF TypeInv, QueueOK
  <2> HIDE DEF rest
  <2>4. \A i \in 1..Len(rest) : next + i - 1 \in 1..Len(inbox)
    BY <2>2, <2>3
  <2>5. LinksOK'
    BY <2>1, <2>3, <2>4 DEF TypeInv, LinksOK, LinkOK, IsAbout, database
  <2>6. QueueOK' /\ DataOK'
    BY <2>1, <2>3 DEF TypeInv, QueueOK, DataOK, database
  <2>7. JobOK'
    BY <2>1 DEF TypeInv, JobOK, Handling, OfPhoto
  <2> QED
    BY <2>5, <2>6, <2>7 DEF TypeInv
<1>2. CASE ClaimUpdate
  <2>1. /\ next \in 1..Len(inbox) /\ UNCHANGED <<database, chat, inbox, batch, next>>
        /\ job.stage = "idle" /\ next <= batch
    BY <1>2, Basics DEF ClaimUpdate, TypeInv, QueueOK, poll
  <2>2. Update.kind \in {"photo", "tap", "reply"} /\ Update.done \in BOOLEAN
    BY <2>1, Basics DEF Update, Entry
  <2>3. /\ FirstStage(Update) \in {"advance", "send", "tap", "amend"}
        /\ FirstStage(Update) = "send" => Update.kind = "photo"
        /\ FirstStage(Update) = "tap" => Update.kind = "tap"
        /\ FirstStage(Update) = "amend" => Update.kind = "reply"
    BY <2>2 DEF FirstStage
  <2>4. job' \in Job(Len(chat)) /\ job'.stage = FirstStage(Update) /\ Update' = Update
    BY <1>2, <2>1, <2>3 DEF ClaimUpdate, Stage, TypeInv, JobOK, Job, Stages, Update
  <2>5. JobOK'
    BY <2>1, <2>3, <2>4 DEF JobOK, Handling, OfPhoto
  <2>6. DataOK' /\ ChatKept /\ InboxKept
    BY <2>1, ChatSame, Marked DEF TypeInv, DataOK, database
  <2> QED
    BY <2>1, <2>5, <2>6, Keeps DEF database, TypeInv, QueueOK
<1>3. CASE CompleteUpdate
  <2>1. Handling /\ Completed /\ Stage("advance") /\ UNCHANGED <<database, chat, batch, next>>
    BY <1>3 DEF CompleteUpdate, Handling, Completed
  <2>2. DataOK' /\ ChatKept /\ InboxKept
    BY <2>1, AtHand, ChatSame, Marked DEF TypeInv, DataOK, database
  <2>3. JobOK'
    BY <2>1, <2>2, StageKeeps DEF Stages
  <2> QED
    BY <2>1, <2>2, <2>3, Keeps DEF database, TypeInv, QueueOK
<1>4. CASE Advance
  <2>1. Handling /\ job' = NoJob /\ next' = next + 1 /\ UNCHANGED <<database, chat, inbox, batch>>
    BY <1>4 DEF Advance, Handling
  <2>2. DataOK' /\ ChatKept /\ InboxKept
    BY <2>1, ChatSame, Marked DEF TypeInv, DataOK, database
  <2>3. job' = [NoJob EXCEPT !.stage = "idle"] /\ Len(chat') \in Nat
    BY <2>1, Basics DEF NoJob
  <2>4. JobOK'
    BY <2>3, RestKeeps
  <2>5. next' \in 1..batch + 1
    BY <2>1, Basics DEF TypeInv, JobOK, QueueOK
  <2> QED
    BY <2>1, <2>2, <2>4, <2>5, Keeps DEF database
<1>5. CASE Render
  <2>1. /\ job.stage = "render" /\ Stage(job.then) /\ UNCHANGED <<database, inbox, batch, next>>
        /\ job.then \in {"register", "complete", "advance", "sweep"}
    BY <1>5 DEF Render, poll, TypeInv, JobOK
  <2>2. DataOK' /\ ChatKept /\ InboxKept
    BY <1>5, <2>1, ChatDrawn, Marked DEF TypeInv, DataOK, database
  <2>3. CASE Handling
    <3>1. job.then \in Stages \ {"render", "down", "sweep", "idle"}
      BY <2>1, <2>3 DEF Handling, Stages
    <3>2. job.then = "register" => Update.kind = "photo" /\ IsAbout(job.msg, Update.doc)
      BY <2>1 DEF TypeInv, JobOK, OfPhoto
    <3>3. JobOK'
      BY <2>1, <2>2, <2>3, <3>1, <3>2, StageKeeps
    <3> QED
      BY <2>1, <2>2, <3>3, Keeps DEF database, TypeInv, QueueOK
  <2>4. CASE job.then = "sweep"
    <3>1. job' \in Job(Len(chat')) /\ job'.stage = "sweep"
      BY <2>1, <2>2, <2>4, Basics DEF Stage, TypeInv, JobOK, Job, ChatKept
    <3>2. JobOK'
      BY <3>1 DEF JobOK, Handling, OfPhoto
    <3> QED
      BY <2>1, <2>2, <3>2, Keeps DEF database, TypeInv, QueueOK
  <2> QED
    BY <2>1, <2>3, <2>4 DEF Handling
<1> QED
  BY <1>1, <1>2, <1>3, <1>4, <1>5

\* What an extraction may leave of a receipt.
LEMMA Extracted ==
  ASSUME TypeInv, NEW r \in Receipts, Outcome(r)
  PROVE  /\ life' \in [Receipts -> Status] /\ draft' \in [Receipts -> Readings]
         /\ life'[r] \in {"failed", "awaiting_confirm"}
         /\ life'[r] = "awaiting_confirm" => draft'[r] \in Drafts
         /\ \A q \in Receipts \ {r} : life'[q] = life[q] /\ draft'[q] = draft[q]
<1>1. /\ life \in [Receipts -> Status] /\ draft \in [Receipts -> Readings] /\ world.says \in SUBSET Drafts
  BY Basics DEF TypeInv, DataOK
<1>2. ASSUME NEW d \in world.says \cup {Unreadable},
             draft' = [draft EXCEPT ![r] = d], life' = [life EXCEPT ![r] = ResultStatus(d)]
      PROVE  /\ life' \in [Receipts -> Status] /\ draft' \in [Receipts -> Readings]
             /\ life'[r] \in {"failed", "awaiting_confirm"}
             /\ life'[r] = "awaiting_confirm" => draft'[r] \in Drafts
             /\ \A q \in Receipts \ {r} : life'[q] = life[q] /\ draft'[q] = draft[q]
  BY <1>1, <1>2 DEF ResultStatus, Status, Readings
<1>3. CASE life' = [life EXCEPT ![r] = "failed"] /\ UNCHANGED draft
  BY <1>1, <1>3 DEF Status
<1> QED
  BY <1>2, <1>3 DEF Outcome

\* The card of what was extracted.
OutcomeCard(r) == IF life'[r] = "failed" THEN FailedCard(r) ELSE DraftCard(r, draft'[r])

LEMMA OutcomeDrawn ==
  ASSUME TypeInv, NEW r \in Receipts, Outcome(r)
  PROVE  OutcomeCard(r) \in Card /\ OutcomeCard(r).doc = r
BY Extracted, Drawn DEF OutcomeCard

LEMMA PhotoTypes ==
  ASSUME TypeInv, UNCHANGED world, SendReading \/ Ingest \/ ReadPhoto \/ Register
  PROVE  TypeInv'
<1> DEFINE r == Update.doc
<1>1. Handling /\ OfPhoto /\ Update.kind = "photo" /\ UNCHANGED <<inbox, batch, next>>
  BY DEF SendReading, Ingest, ReadPhoto, Register, Handling, OfPhoto, TypeInv, JobOK, poll
<1>2. r \in Receipts /\ InboxKept
  BY <1>1, AtHand, Marked
<1>3. CASE SendReading
  <2>1. DataOK' /\ UNCHANGED <<database, batch, next>>
    BY <1>3 DEF SendReading, TypeInv, DataOK, database, poll
  <2>2. CASE /\ chat' = Append(chat, Face(r, "reading", Nothing, {}))
             /\ job' = [job EXCEPT !.stage = "ingest", !.msg = Len(chat) + 1]
    <3> DEFINE look == Face(r, "reading", Nothing, {})
    <3>1. look \in Card /\ look.doc = r
      BY <1>2, Drawn
    <3> HIDE DEF look
    <3>2. ChatKept /\ Len(chat') = Len(chat) + 1 /\ chat'[Len(chat) + 1] = look /\ Len(chat) \in Nat
      BY <2>2, <3>1, ChatSent, Basics, AppendProperties DEF TypeInv, QueueOK, look
    <3>3. job' \in Job(Len(chat')) /\ job'.stage = "ingest" /\ job'.msg = Len(chat) + 1
      <4>1. job' = [stage |-> "ingest", msg |-> Len(chat) + 1, then |-> job.then, look |-> job.look]
        BY <2>2 DEF TypeInv, JobOK, Job
      <4> QED
        BY <3>2, <4>1 DEF TypeInv, JobOK, Job, Stages
    <3>4. JobOK'
      BY <1>1, <1>2, <2>1, <3>1, <3>2, <3>3, SameUpdate DEF JobOK, Handling, OfPhoto, SameAsk, IsAbout
    <3> QED
      BY <1>2, <2>1, <3>2, <3>4, Keeps DEF database, TypeInv, QueueOK
  <2>3. CASE chat' = Append(chat, Notice(r)) /\ Stage("complete")
    <3>1. Notice(r) \in Card
      BY <1>2, Drawn
    <3>2. ChatKept
      BY <2>3, <3>1, ChatSent
    <3>3. JobOK'
      BY <1>1, <1>2, <2>1, <2>3, <3>2, StageKeeps DEF Stages
    <3> QED
      BY <1>2, <2>1, <3>2, <3>3, Keeps DEF database, TypeInv, QueueOK
  <2>4. CASE Stage("complete") /\ UNCHANGED chat
    <3>1. ChatKept
      BY <2>4, ChatSame
    <3>2. JobOK'
      BY <1>1, <1>2, <2>1, <2>4, <3>1, StageKeeps DEF Stages
    <3> QED
      BY <1>2, <2>1, <3>1, <3>2, Keeps DEF database, TypeInv, QueueOK
  <2> QED
    BY <1>3, <2>2, <2>3, <2>4 DEF SendReading
<1>4. CASE Ingest
  <2>1. /\ IsAbout(job.msg, r) /\ ChatKept /\ UNCHANGED card
        /\ job.stage = "ingest"
    BY <1>1, <1>4, ChatSame DEF Ingest, TypeInv, JobOK
  <2>2. DataOK'
    BY <1>4, <1>2 DEF Ingest, TypeInv, DataOK, Status
  <2>3. JobOK'
    <3>1. CASE Stage("read")
      BY <1>1, <1>2, <2>1, <3>1, StageKeeps DEF Stages
    <3>2. CASE Draw(job.msg, Notice(r), "complete")
      BY <1>1, <1>2, <2>1, <3>2, DrawKeeps, Drawn
    <3> QED
      BY <1>4, <3>1, <3>2 DEF Ingest
  <2> QED
    BY <1>1, <1>2, <2>1, <2>2, <2>3, Keeps DEF TypeInv, QueueOK
<1>5. CASE ReadPhoto
  <2>1. /\ IsAbout(job.msg, r) /\ ChatKept /\ UNCHANGED <<ledger, entered, card>> /\ Outcome(r)
        /\ Draw(job.msg, OutcomeCard(r), "register")
    BY <1>1, <1>5, ChatSame DEF ReadPhoto, TypeInv, JobOK, DrawOutcome, OutcomeCard
  <2>2. DataOK'
    BY <1>2, <2>1, Extracted DEF TypeInv, DataOK
  <2>3. JobOK'
    BY <1>1, <1>2, <2>1, DrawKeeps, OutcomeDrawn
  <2> QED
    BY <1>1, <1>2, <2>1, <2>2, <2>3, Keeps DEF TypeInv, QueueOK
<1>6. CASE Register
  <2>1. /\ IsAbout(job.msg, r) /\ ChatKept /\ card' = [card EXCEPT ![r] = job.msg] /\ Stage("complete")
    BY <1>1, <1>6, ChatSame DEF Register, TypeInv, JobOK
  <2>2. DataOK'
    BY <1>2, <1>6, <2>1, Basics DEF Register, TypeInv, DataOK, IsAbout
  <2>3. JobOK'
    BY <1>1, <1>2, <2>1, StageKeeps DEF Stages
  <2>4. \A q \in Receipts : card'[q] = card[q] \/ IsAbout(card'[q], q)
    BY <1>2, <2>1 DEF TypeInv, DataOK
  <2> QED
    BY <1>1, <1>2, <2>1, <2>2, <2>3, <2>4, Keeps DEF TypeInv, QueueOK
<1> QED
  BY <1>3, <1>4, <1>5, <1>6

LEMMA TapTypes ==
  ASSUME TypeInv, UNCHANGED world, TapConfirm \/ TapDiscard \/ TapRetry \/ TapFails \/ TapUndo
  PROVE  TypeInv'
<1> DEFINE r == Update.doc
           m == Update.msg
<1>1. /\ Handling /\ Update.kind = "tap" /\ UNCHANGED <<chat, batch, next, card>>
      /\ inbox' = inbox \/ Completed
  BY DEF TapConfirm, TapDiscard, TapRetry, TapFails, TapUndo, Handling, TypeInv, JobOK, poll, Completed
<1>2. r \in Receipts /\ InboxKept /\ ChatKept /\ IsAbout(m, r)
  BY <1>1, AtHand, Marked, ChatSame
<1>3. DataOK'
  <2>1. TapConfirm => DataOK'
    <3>1. TapConfirm /\ draft[r] # Unreadable => draft[r] \in Drafts
      BY <1>2 DEF TypeInv, DataOK, Readings
    <3> QED
      BY <1>2, <3>1 DEF TapConfirm, TypeInv, DataOK, Status
  <2>2. TapDiscard \/ TapUndo => DataOK'
    BY <1>2 DEF TapDiscard, TapUndo, TypeInv, DataOK, Status
  <2>3. TapRetry => DataOK'
    BY <1>2, Extracted DEF TapRetry, TypeInv, DataOK
  <2>4. TapFails => DataOK'
    BY <1>2, Basics DEF TapFails, TypeInv, DataOK, Readings
  <2> QED
    BY <2>1, <2>2, <2>3, <2>4
<1>4. \/ Stage("complete")
      \/ \E look \in Card : look.doc = r /\ \E then \in {"complete", "advance"} : Draw(m, look, then)
  <2>1. CASE TapConfirm
    <3>1. draft[r] # Unreadable => draft[r] \in Drafts
      BY <1>2 DEF TypeInv, DataOK, Readings
    <3> QED
      BY <1>2, <2>1, <3>1, Drawn DEF TapConfirm
  <2>2. CASE TapDiscard \/ TapUndo
    BY <1>2, <2>2, Drawn DEF TapDiscard, TapUndo
  <2>3. CASE TapRetry
    BY <1>2, <2>3, Drawn, OutcomeDrawn DEF TapRetry, DrawOutcome, OutcomeCard
  <2>4. CASE TapFails
    BY <2>4 DEF TapFails
  <2> QED
    BY <2>1, <2>2, <2>3, <2>4
<1>5. JobOK'
  <2>1. CASE Stage("complete")
    BY <1>1, <1>2, <2>1, StageKeeps DEF Stages
  <2>2. ASSUME NEW look \in Card, look.doc = r, NEW then \in {"complete", "advance"}, Draw(m, look, then)
        PROVE  JobOK'
    BY <1>1, <1>2, <2>2, DrawKeeps
  <2> QED
    BY <1>4, <2>1, <2>2
<1> QED
  BY <1>1, <1>2, <1>3, <1>5, Keeps DEF TypeInv, QueueOK

LEMMA ReplyTypes ==
  ASSUME TypeInv, UNCHANGED world, AmendDraft \/ SettleAmend \/ EditExpense \/ NotACommand
  PROVE  TypeInv'
<1> DEFINE r == Update.doc
           m == Update.msg
<1>1. Handling /\ Update.kind = "reply" /\ UNCHANGED <<chat, inbox, batch, next, card>>
  BY DEF AmendDraft, SettleAmend, EditExpense, NotACommand, Handling, TypeInv, JobOK, poll, database
<1>2. r \in Receipts /\ InboxKept /\ ChatKept /\ IsAbout(m, r) /\ Update.what \in Readings
  BY <1>1, AtHand, Marked, ChatSame DEF LinkOK
<1>3. draft[r] \in Readings /\ entered[r] \in Nat
  BY <1>2 DEF TypeInv, DataOK
<1>4. DataOK'
  <2>1. AmendDraft \/ NotACommand => DataOK'
    BY <1>2 DEF AmendDraft, NotACommand, TypeInv, DataOK, database
  <2>2. SettleAmend => DataOK'
    BY <1>2 DEF SettleAmend, TypeInv, DataOK, Status, ResultStatus
  <2>3. EditExpense => DataOK'
    BY <1>2 DEF EditExpense, TypeInv, DataOK, Readings
  <2> QED
    BY <2>1, <2>2, <2>3
<1>5. \/ Stage("complete")
      \/ Stage("settle") /\ IsRegistered(Update)
      \/ \E look \in Card : look.doc = r /\ Draw(m, look, "complete")
  <2>1. CASE AmendDraft \/ NotACommand
    BY <2>1 DEF AmendDraft, NotACommand
  <2>2. CASE SettleAmend
    <3>1. card[r] = m
      BY <2>2 DEF SettleAmend, TypeInv, JobOK, IsRegistered
    <3> QED
      BY <1>2, <1>3, <2>2, <3>1, Drawn DEF SettleAmend
  <2>3. CASE EditExpense
    <3>1. Update.what # Unreadable => Update.what \in Drafts
      BY <1>2 DEF Readings
    <3> QED
      BY <1>2, <1>3, <2>3, <3>1, Drawn DEF EditExpense
  <2> QED
    BY <2>1, <2>2, <2>3
<1>6. JobOK'
  <2>1. CASE Stage("complete")
    BY <1>1, <1>2, <2>1, StageKeeps DEF Stages
  <2>2. CASE Stage("settle") /\ IsRegistered(Update)
    BY <1>1, <1>2, <2>2, StageKeeps DEF Stages
  <2>3. ASSUME NEW look \in Card, look.doc = r, Draw(m, look, "complete") PROVE JobOK'
    BY <1>1, <1>2, <2>3, DrawKeeps
  <2> QED
    BY <1>5, <2>1, <2>2, <2>3
<1> QED
  BY <1>1, <1>2, <1>4, <1>6, Keeps DEF TypeInv, QueueOK

LEMMA BootTypes == ASSUME TypeInv, UNCHANGED world, Crash \/ Boot \/ Sweep PROVE TypeInv'
<1>1. CASE Crash
  <2>1. DataOK' /\ Len(chat') \in Nat
    BY <1>1, Basics DEF Crash, TypeInv, DataOK, database
  <2>2. JobOK'
    BY <1>1, <2>1, RestKeeps DEF Crash
  <2> QED
    BY <1>1, <2>1, <2>2, Basics DEF Crash, TypeInv, QueueOK, LinksOK, LinkOK, IsAbout, database
<1>2. ASSUME UNCHANGED <<ledger, entered, card, chat, inbox, batch, next>>, DataOK', JobOK' PROVE TypeInv'
  BY <1>2, ChatSame, Marked, Keeps DEF TypeInv, QueueOK
<1>3. CASE Boot
  <2>1. DataOK' /\ Len(chat') \in Nat
    BY <1>3, Basics DEF Boot, TypeInv, DataOK, database
  <2>2. JobOK'
    BY <1>3, <2>1, RestKeeps DEF Boot
  <2> QED
    BY <1>2, <1>3, <2>1, <2>2 DEF Boot, database, poll
<1>4. CASE Sweep
  <2>1. job.stage = "sweep" /\ UNCHANGED <<ledger, entered, card, chat, inbox, batch, next>>
    BY <1>4 DEF Sweep, poll
  <2>2. ASSUME NEW r \in Receipts, Outcome(r),
               IF card[r] # 0 THEN DrawOutcome(r, card[r], "sweep") ELSE UNCHANGED job
        PROVE  TypeInv'
    <3>1. DataOK'
      BY <2>1, <2>2, Extracted DEF TypeInv, DataOK
    <3>2. CASE card[r] # 0
      <4> DEFINE look == OutcomeCard(r)
      <4>1. look \in Card /\ look.doc = r /\ IsAbout(card[r], r)
        BY <2>2, <3>2, OutcomeDrawn DEF TypeInv, LinksOK
      <4>2. job' = [stage |-> "render", msg |-> card[r], then |-> "sweep", look |-> look]
        BY <2>2, <3>2 DEF DrawOutcome, Draw, OutcomeCard
      <4> HIDE DEF look
      <4>3. JobOK'
        BY <2>1, <4>1, <4>2 DEF JobOK, Job, Stages, Handling, OfPhoto, IsAbout
      <4> QED
        BY <1>2, <2>1, <3>1, <4>3
    <3>3. CASE UNCHANGED job
      <4>1. JobOK'
        BY <2>1, <3>3 DEF TypeInv, JobOK, Handling, OfPhoto
      <4> QED
        BY <1>2, <2>1, <3>1, <4>1
    <3> QED
      BY <2>2, <3>2, <3>3
  <2>3. CASE job' = NoJob /\ UNCHANGED <<life, draft>>
    <3>1. job' = [NoJob EXCEPT !.stage = "idle"] /\ DataOK' /\ Len(chat') \in Nat
      BY <2>1, <2>3, Basics DEF NoJob, TypeInv, DataOK
    <3>2. JobOK'
      BY <3>1, RestKeeps
    <3> QED
      BY <1>2, <2>1, <3>1, <3>2
  <2> QED
    BY <1>4, <2>2, <2>3 DEF Sweep
<1> QED
  BY <1>1, <1>3, <1>4

LEMMA StepTypes == TypeInv /\ [Next]_vars => TypeInv'
<1>1. CASE UNCHANGED vars
  BY <1>1 DEF vars, TypeInv, DataOK, QueueOK, LinksOK, LinkOK, IsAbout, JobOK, Handling, OfPhoto,
     IsRegistered, Update
<1> QED
  BY <1>1, UserTypes, PollTypes, PhotoTypes, TapTypes, ReplyTypes, BootTypes DEF Next, BotStep

\* The inductive invariant of the types.
THEOREM Typed == Spec => []TypeInv
BY InitTypes, StepTypes, PTL DEF Spec

\* The variables have their types: the card of a receipt, the card that is
\* drawn and the message of an update are messages of the chat.
THEOREM TypeTheorem == Spec => []TypeOK
<1>1. TypeInv => TypeOK
  <2> SUFFICES ASSUME TypeInv PROVE TypeOK
    OBVIOUS
  <2>1. card \in [Receipts -> DOMAIN chat \cup {0}]
    BY Basics DEF TypeInv, DataOK, LinksOK, IsAbout
  <2>2. job.stage \in Stages /\ job.then \in Stages /\ job.msg \in DOMAIN chat \cup {0}
    BY Basics DEF TypeInv, JobOK, Job
  <2>3. ASSUME NEW i \in DOMAIN inbox PROVE inbox[i] \in Action
    <3>1. inbox[i] \in Entry /\ inbox[i].msg \in DOMAIN chat \cup {0}
      BY Basics DEF Entry, LinkOK, IsAbout
    <3> QED
      BY <3>1 DEF Entry, Action
  <2> QED
    BY <2>1, <2>2, <2>3, Basics DEF TypeInv, DataOK, QueueOK, JobOK, TypeOK, Readings
<1> QED
  BY <1>1, Typed, PTL
-----------------------------------------------------------------------------
(***************************************************************************)
(* Photos: a photo that is completed, or passed over, is on record, since  *)
(* its handler creates the receipt before it goes on, and no step takes a  *)
(* receipt away.                                                           *)
(***************************************************************************)
OnRecord(r) == life[r] # "absent"

PhotoInv ==
  ~world.photosFail =>
    /\ HandledPhotosAreOnRecord
    /\ Handling /\ Update.kind = "photo" /\ job.stage \notin {"send", "ingest"} => OnRecord(Update.doc)

LEMMA RecordsStay == ASSUME TypeInv, [Next]_vars, NEW r \in Receipts, OnRecord(r) PROVE OnRecord(r)'
<1>1. UNCHANGED life => OnRecord(r)'
  BY DEF OnRecord
<1>2. ASSUME NEW q \in Receipts, NEW s \in Status \ {"absent"}, life' = [life EXCEPT ![q] = s]
      PROVE  OnRecord(r)'
  BY <1>2 DEF OnRecord, TypeInv, DataOK
<1>3. ASSUME NEW q \in Receipts, Outcome(q) PROVE OnRecord(r)'
  BY <1>3, Extracted DEF OnRecord
<1>4. Handling => Update.doc \in Receipts
  BY AtHand
<1>5. CASE Ingest \/ ReadPhoto \/ TapConfirm \/ TapDiscard \/ TapRetry \/ SettleAmend
  <2>1. Update.doc \in Receipts
    BY <1>4, <1>5 DEF Handling, Ingest, ReadPhoto, TapConfirm, TapDiscard, TapRetry, SettleAmend
  <2> QED
    BY <1>1, <1>2, <1>3, <1>5, <2>1 DEF Ingest, ReadPhoto, TapConfirm, TapDiscard, TapRetry, SettleAmend,
       ResultStatus, Status
<1>6. CASE Sweep
  BY <1>1, <1>3, <1>6 DEF Sweep
<1> QED
  BY <1>1, <1>5, <1>6 DEF Next, User, SendPhoto, Void, Tap, Reply, BotStep, GetUpdates, ClaimUpdate,
     CompleteUpdate, Advance, Render, SendReading, Register, TapFails, TapUndo, AmendDraft, EditExpense,
     NotACommand, Boot, Crash, database, vars

\* What a step may do to the queue and to the place in it.
LEMMA QueueSteps ==
  ASSUME TypeInv, [Next]_vars
  PROVE  \/ UNCHANGED <<inbox, batch, next>>
         \/ Handling /\ Completed /\ UNCHANGED <<batch, next>> /\ (Update.kind = "photo" => CompleteUpdate)
         \/ /\ \E u : u.done = FALSE /\ inbox' = Append(inbox, u)
            /\ UNCHANGED <<batch, next, job>>
         \/ GetUpdates \/ Advance \/ Crash
<1>1. CASE User
  BY <1>1 DEF User, SendPhoto, Void, Tap, Reply, Say, OnCard, poll
<1>2. CASE TapConfirm \/ TapDiscard
  BY <1>2 DEF TapConfirm, TapDiscard, Handling, TypeInv, JobOK
<1>3. CASE CompleteUpdate
  BY <1>3 DEF CompleteUpdate, Completed, Handling
<1> QED
  BY <1>1, <1>2, <1>3 DEF Next, BotStep, ClaimUpdate, Render, SendReading, Ingest, ReadPhoto, Register,
     TapRetry, TapFails, TapUndo, AmendDraft, SettleAmend, EditExpense, NotACommand, Boot, Sweep, poll, vars

LEMMA PhotoStep == ASSUME TypeInv, TypeInv', PhotoInv, [Next]_vars PROVE PhotoInv'
<1> SUFFICES ASSUME ~world.photosFail PROVE PhotoInv'
  BY DEF PhotoInv, Next, vars
<1> DEFINE Due(u) == u.kind = "photo" /\ ~OnRecord(u.doc)
<1>1. /\ DOMAIN inbox = 1..Len(inbox) /\ Len(inbox) \in Nat /\ next \in Nat /\ DOMAIN inbox' = 1..Len(inbox')
      /\ \A i \in 1..Len(inbox) : inbox[i] \in Entry /\ inbox[i].doc \in Receipts
  BY Basics DEF Entry, TypeInv, QueueOK
<1>2. \A i \in 1..Len(inbox) : inbox[i].kind = "photo" /\ (inbox[i].done \/ i < next) => OnRecord(inbox[i].doc)
  BY <1>1 DEF PhotoInv, HandledPhotosAreOnRecord, OnRecord
<1>3. \A r \in Receipts : OnRecord(r) => OnRecord(r)'
  BY RecordsStay
<1>4. Handling => next \in 1..Len(inbox) /\ Update = inbox[next] /\ Update.doc \in Receipts
  BY AtHand DEF Update
<1>5. HandledPhotosAreOnRecord'
  <2> SUFFICES ASSUME NEW i \in 1..Len(inbox'), inbox'[i].kind = "photo", inbox'[i].done \/ i < next'
               PROVE  life'[inbox'[i].doc] # "absent"
    BY <1>1 DEF HandledPhotosAreOnRecord
  <2>1. CASE UNCHANGED <<inbox, batch, next>>
    BY <1>1, <1>2, <1>3, <2>1 DEF OnRecord
  <2>2. CASE Handling /\ Completed /\ UNCHANGED <<batch, next>> /\ (Update.kind = "photo" => CompleteUpdate)
    <3>1. InboxKept
      BY <1>4, <2>2, Marked
    <3>2. i \in 1..Len(inbox) /\ SameAsk(inbox'[i], inbox[i]) /\ inbox[i].doc \in Receipts
      BY <1>1, <3>1 DEF InboxKept
    <3>3. CASE i = next
      <4>1. Update.kind = "photo" /\ CompleteUpdate
        BY <1>4, <2>2, <3>2, <3>3 DEF SameAsk
      <4>2. OnRecord(inbox[i].doc)
        BY <1>4, <2>2, <3>3, <4>1 DEF PhotoInv, CompleteUpdate
      <4> QED
        BY <1>3, <3>2, <4>2 DEF OnRecord, SameAsk
    <3>4. CASE i # next
      <4>1. inbox'[i] = inbox[i]
        BY <1>1, <2>2, <3>2, <3>4 DEF Completed
      <4> QED
        BY <1>2, <1>3, <2>2, <3>2, <4>1 DEF OnRecord
    <3> QED
      BY <3>3, <3>4
  <2>3. ASSUME NEW u, u.done = FALSE, inbox' = Append(inbox, u), UNCHANGED <<batch, next, job>>
        PROVE  life'[inbox'[i].doc] # "absent"
    <3>1. Len(inbox') = Len(inbox) + 1 /\ inbox'[Len(inbox) + 1] = u
          /\ \A k \in 1..Len(inbox) : inbox'[k] = inbox[k]
      BY <2>3 DEF TypeInv, QueueOK
    <3>2. next <= Len(inbox) + 1
      BY DEF TypeInv, QueueOK
    <3>3. i \in 1..Len(inbox)
      BY <1>1, <2>3, <3>1, <3>2
    <3> QED
      BY <1>1, <1>2, <1>3, <2>3, <3>1, <3>3 DEF OnRecord
  <2>4. CASE GetUpdates
    <3>1. next' = 1 /\ inbox' = SubSeq(inbox, next, Len(inbox)) /\ next \in 1..Len(inbox) + 1
      BY <2>4 DEF GetUpdates, TypeInv, QueueOK
    <3>2. inbox'[i] = inbox[next + i - 1] /\ next + i - 1 \in 1..Len(inbox)
      BY <1>1, <3>1, SubSeqProperties DEF TypeInv, QueueOK
    <3>3. PICK k \in 1..Len(inbox) : inbox'[i] = inbox[k]
      BY <3>2
    <3>4. OnRecord(inbox[k].doc) /\ inbox[k].doc \in Receipts
      BY <1>1, <1>2, <3>1, <3>3
    <3> QED
      BY <1>3, <3>3, <3>4 DEF OnRecord
  <2>5. CASE Advance
    <3>1. Handling /\ job.stage = "advance" /\ next' = next + 1 /\ UNCHANGED inbox
      BY <2>5 DEF Advance, Handling
    <3>2. CASE i = next
      BY <1>3, <1>4, <3>1, <3>2 DEF PhotoInv, OnRecord
    <3>3. CASE i # next
      BY <1>1, <1>2, <1>3, <3>1, <3>3 DEF OnRecord
    <3> QED
      BY <3>2, <3>3
  <2>6. CASE Crash
    BY <1>1, <1>2, <1>3, <2>6 DEF Crash, OnRecord
  <2> QED
    BY <2>1, <2>2, <2>3, <2>4, <2>5, <2>6, QueueSteps
<1>6. ASSUME Handling', Update'.kind = "photo", job'.stage \notin {"send", "ingest"}
      PROVE  OnRecord(Update.doc)'
  <2>1. CASE Handling /\ Update.kind = "photo" /\ job.stage \notin {"send", "ingest"} /\ Update'.doc = Update.doc
    BY <1>3, <1>4, <2>1 DEF PhotoInv, OnRecord
  <2>2. CASE ClaimUpdate
    <3>1. Update' = Update /\ next \in 1..Len(inbox) /\ FirstStage(Update) \notin {"send", "ingest"}
      BY <1>1, <1>6, <2>2 DEF ClaimUpdate, poll, Update, Stage, TypeInv, QueueOK, JobOK, Job
    <3>2. Update.done
      BY <1>1, <1>6, <3>1 DEF FirstStage, Update, Entry
    <3> QED
      BY <1>1, <1>2, <1>3, <1>6, <3>1, <3>2 DEF Update, OnRecord
  <2>3. CASE SendReading
    BY <1>6, <2>3 DEF SendReading, TypeInv, JobOK, Job
  <2>4. CASE Ingest
    <3>1. Update.doc \in Receipts /\ Update' = Update
      BY <1>4, <2>4 DEF Ingest, Handling, Update, poll
    <3> QED
      BY <2>4, <3>1 DEF Ingest, OnRecord, TypeInv, DataOK
  <2>5. CASE ~Handling'
    BY <1>6, <2>5
  <2>6. CASE User \/ UNCHANGED vars
    <3>1. UNCHANGED job /\ Handling
      BY <1>6, <2>6 DEF User, SendPhoto, Void, Tap, Reply, vars, Handling
    <3>2. Update' = Update
      <4>1. next' = next /\ (inbox' = inbox \/ \E u : inbox' = Append(inbox, u))
        BY <2>6 DEF User, SendPhoto, Void, Tap, Reply, Say, poll, vars
      <4>2. inbox'[next] = inbox[next]
        BY <1>4, <3>1, <4>1 DEF TypeInv, QueueOK
      <4> QED
        BY <4>1, <4>2 DEF Update
    <3> QED
      BY <1>6, <2>1, <3>1, <3>2
  <2>7. CASE \/ CompleteUpdate \/ ReadPhoto \/ Register
             \/ TapConfirm \/ TapDiscard \/ TapRetry \/ TapFails \/ TapUndo
             \/ AmendDraft \/ SettleAmend \/ EditExpense \/ NotACommand
             \/ Render /\ Handling
    <3>1. Handling /\ job.stage \notin {"send", "ingest"} /\ (inbox' = inbox \/ Completed) /\ UNCHANGED next
      BY <2>7 DEF CompleteUpdate, Completed, Render, ReadPhoto, Register, TapConfirm, TapDiscard, TapRetry,
         TapFails, TapUndo, AmendDraft, SettleAmend, EditExpense, NotACommand, Handling, poll
    <3>2. SameAsk(Update', Update)
      BY <1>4, <3>1, Marked DEF InboxKept, Update
    <3> QED
      BY <1>6, <2>1, <3>1, <3>2 DEF SameAsk
  <2>8. GetUpdates \/ Advance \/ Boot \/ Sweep \/ Crash \/ (Render /\ ~Handling) => ~Handling'
    BY DEF GetUpdates, Advance, Boot, Sweep, Crash, Render, Handling, NoJob, Stage, Draw, DrawOutcome,
       TypeInv, JobOK, Job
  <2> QED
    BY <2>2, <2>3, <2>4, <2>5, <2>6, <2>7, <2>8 DEF Next, BotStep
<1> QED
  BY <1>5, <1>6 DEF PhotoInv

\* serve.go:54-59 and bot.go: whatever is killed and restarted, a photo that
\* Telegram has given up, or that would be skipped when it came again, is on
\* record, unless its download failed.
THEOREM PhotoTheorem == Spec => []HandledPhotosAreOnRecord
<1>1. Init => PhotoInv
  BY DEF Init, PhotoInv, HandledPhotosAreOnRecord, Handling, NoJob
<1>2. PhotoInv => HandledPhotosAreOnRecord
  BY DEF PhotoInv, HandledPhotosAreOnRecord
<1> QED
  BY <1>1, <1>2, Typed, PhotoStep, PTL DEF Spec
-----------------------------------------------------------------------------
(***************************************************************************)
(* A user who waits for each answer, and a bot that is not killed and can  *)
(* draw: whatever is tapped or replied on however many cards, the buttons  *)
(* that the status of a receipt calls for are on some message, or about to *)
(* be drawn. A handler draws a card without them only over a message whose *)
(* face, which the user tapped, was not the one that is called for.        *)
(***************************************************************************)
Proper(look) ==
  /\ look.face = "draft" => look.buttons = {"confirm", "discard"}
  /\ look.face = "failed" => look.buttons = {"retry", "discard"}
  /\ look.face = "discarded" => look.buttons = {"retry"}
  /\ look.face = "saved" => look.buttons \subseteq {"undo"}
  /\ look.face \in {"reading", "undone", "notice", "corrupt"} => look.buttons = {}

ButtonsOK ==
  /\ \A m \in 1..Len(chat) : Proper(chat[m])
  /\ job.stage = "render" => Proper(job.look)

\* The user waits, and the bot is up.
NotAtBoot == job.stage \notin {"down", "sweep"} /\ (job.stage = "render" => job.then # "sweep")
Waits == Len(inbox) <= 1 /\ NotAtBoot

\* A tap that is not handled yet is about a message as it is.
TapsAreFresh ==
  \A i \in next..Len(inbox) :
    inbox[i].kind = "tap" /\ job.stage \in {"idle", "tap"} =>
      inbox[i].what \in chat[inbox[i].msg].buttons

\* The statuses that the stages and the totals go with.
StatusOK ==
  /\ \A r \in Receipts : ledger[r] # Nothing => life[r] = "confirmed"
  /\ \A r \in Receipts : life[r] = "awaiting_confirm" /\ draft[r] = Unreadable =>
       job.stage = "settle" /\ Update.doc = r
  /\ job.stage = "read" => life[Update.doc] \in {"pending", "discarded", "failed"}
  /\ job.stage = "settle" => life[Update.doc] \in {"awaiting_confirm", "failed"}
  /\ job.stage \in {"ingest", "read"} => chat[job.msg].face = "reading"

\* The face of the card that a status calls for.
CalledFor(s) ==
  IF s = "awaiting_confirm" THEN "draft" ELSE IF s \in {"failed", "discarded"} THEN s ELSE "none"

Shows(r, face) ==
  \/ job.stage = "render" /\ job.look.doc = r /\ job.look.face = face
  \/ \E m \in 1..Len(chat) :
       /\ chat[m].doc = r /\ chat[m].face = face
       /\ job.stage = "render" => m # job.msg

Shown == \A r \in Receipts : CalledFor(life[r]) # "none" => Shows(r, CalledFor(life[r]))

Patient == world.inbox = 1 /\ ~world.crashes /\ ~world.editsFail

LiveInv == ButtonsOK /\ (Patient => Waits /\ TapsAreFresh /\ StatusOK /\ Shown)

LEMMA InitLive == Init => LiveInv
BY DEF Init, LiveInv, ButtonsOK, Waits, NotAtBoot, TapsAreFresh, StatusOK, Shown, CalledFor, NoJob

LEMMA DrawnProperly ==
  ASSUME NEW r \in Receipts
  PROVE  /\ \A look \in {FailedCard(r), CorruptCard(r), DiscardedCard(r), UndoneCard(r), Notice(r),
                         Face(r, "reading", Nothing, {})} : Proper(look)
         /\ \A d : Proper(DraftCard(r, d)) /\ Proper(SavedCard(r, d)) /\ Proper(ResultCard(r, d))
                   /\ Proper(UndoableCard(r, d)) /\ Proper(OutcomeCard(r))
BY DEF FailedCard, CorruptCard, DiscardedCard, UndoneCard, Notice, DraftCard, SavedCard, ResultCard, UndoableCard,
   OutcomeCard, Face, Proper

\* Every handler draws proper cards.
LEMMA DrawsProperly ==
  ASSUME TypeInv, BotStep, job.stage # "render", job'.stage = "render" PROVE Proper(job'.look)
<1>1. Handling => Update.doc \in Receipts
  BY AtHand
<1>2. CASE Ingest \/ ReadPhoto
  BY <1>1, <1>2, DrawnProperly DEF Ingest, ReadPhoto, Handling, Stage, Draw, DrawOutcome, OutcomeCard,
     TypeInv, JobOK, Job
<1>3. CASE TapConfirm \/ TapDiscard
  BY <1>1, <1>3, DrawnProperly DEF TapConfirm, TapDiscard, Handling, Stage, Draw
<1>4. CASE TapRetry \/ TapUndo
  BY <1>1, <1>4, DrawnProperly DEF TapRetry, TapUndo, Handling, Stage, Draw, DrawOutcome, OutcomeCard,
     TypeInv, JobOK, Job
<1>5. CASE SettleAmend \/ EditExpense
  BY <1>1, <1>5, DrawnProperly DEF SettleAmend, EditExpense, Handling, Stage, Draw, TypeInv, JobOK, Job
<1>6. CASE Sweep
  BY <1>6, DrawnProperly DEF Sweep, Draw, DrawOutcome, OutcomeCard, NoJob
<1>7. CASE SendReading
  BY <1>7 DEF SendReading, Stage, TypeInv, JobOK, Job
<1>8. CASE ClaimUpdate
  <2>1. next \in 1..Len(inbox) /\ Update \in Entry
    BY <1>8, Basics DEF ClaimUpdate, TypeInv, QueueOK, Update
  <2>2. FirstStage(Update) # "render"
    BY <2>1 DEF FirstStage, Entry
  <2> QED
    BY <1>8, <2>2 DEF ClaimUpdate, Stage, TypeInv, JobOK, Job
<1> QED
  BY <1>2, <1>3, <1>4, <1>5, <1>6, <1>7, <1>8 DEF BotStep, GetUpdates, CompleteUpdate, Advance, Render,
     Register, TapFails, AmendDraft, NotACommand, Boot, Stage, TypeInv, JobOK, Job, NoJob

LEMMA ButtonsStep == ASSUME TypeInv, ButtonsOK, [Next]_vars PROVE ButtonsOK'
<1>1. chat \in Seq(Card) /\ Len(chat) \in Nat
  BY Basics DEF TypeInv, QueueOK
<1>2. CASE Render
  <2>1. job.stage = "render" /\ job.look \in Card /\ job.msg \in 1..Len(chat) /\ job'.stage # "render"
    BY <1>2 DEF Render, Stage, TypeInv, JobOK, Job, IsAbout
  <2>2. CASE chat' = [chat EXCEPT ![job.msg] = job.look]
    BY <1>1, <2>1, <2>2 DEF ButtonsOK
  <2> QED
    BY <1>2, <2>1, <2>2 DEF Render, ButtonsOK
<1>3. CASE SendReading
  <2>1. Update.doc \in Receipts /\ job'.stage # "render"
    BY <1>3, AtHand DEF SendReading, Handling, Stage, TypeInv, JobOK, Job
  <2>2. \/ UNCHANGED chat
        \/ \E look \in Card : Proper(look) /\ chat' = Append(chat, look)
    BY <1>3, <2>1, Drawn, DrawnProperly DEF SendReading
  <2> QED
    BY <1>1, <2>1, <2>2 DEF ButtonsOK
<1>4. CASE BotStep /\ ~Render /\ ~SendReading
  <2>1. UNCHANGED chat
    BY <1>4 DEF BotStep, GetUpdates, ClaimUpdate, CompleteUpdate, Advance, Ingest, ReadPhoto, Register,
       TapConfirm, TapDiscard, TapRetry, TapFails, TapUndo, AmendDraft, SettleAmend, EditExpense,
       NotACommand, Boot, Sweep
  <2>2. job.stage # "render"
    BY <1>4 DEF BotStep, GetUpdates, ClaimUpdate, CompleteUpdate, Advance, Ingest, ReadPhoto, Register,
       TapConfirm, TapDiscard, TapRetry, TapFails, TapUndo, AmendDraft, SettleAmend, EditExpense,
       NotACommand, Boot, Sweep
  <2> QED
    BY <1>4, <2>1, <2>2, DrawsProperly DEF ButtonsOK
<1>5. CASE User \/ Crash \/ UNCHANGED vars
  BY <1>5 DEF User, SendPhoto, Void, Tap, Reply, Crash, vars, NoJob, ButtonsOK
<1> QED
  BY <1>2, <1>3, <1>4, <1>5 DEF Next

\* The steps of a handler, from the claim of its update to its completion.
HandlerStep ==
  \/ CompleteUpdate \/ Render \/ SendReading \/ Ingest \/ ReadPhoto \/ Register
  \/ TapConfirm \/ TapDiscard \/ TapRetry \/ TapFails \/ TapUndo
  \/ AmendDraft \/ SettleAmend \/ EditExpense \/ NotACommand

\* The update at hand is completed, or will be when the card is drawn.
Advancing == job.stage = "advance" \/ (job.stage = "render" /\ job.then = "advance")

\* A handler stays at work until it advances, which it does as it completes the
\* update; it does not go back to its first stage.
LEMMA Going ==
  ASSUME TypeInv, HandlerStep, job.stage = "render" => job.then # "sweep"
  PROVE  /\ Handling /\ Handling' /\ job'.stage \notin {"send", "tap", "amend"}
         /\ UNCHANGED <<batch, next>>
         /\ \/ UNCHANGED inbox /\ (Advancing' <=> Advancing)
            \/ Completed /\ Advancing' /\ ~Advancing
<1>1. job \in Job(Len(chat))
  BY DEF TypeInv, JobOK
<1>2. CASE Render
  <2>1. job.then \in {"register", "complete", "advance"} /\ job.stage = "render" /\ job'.stage = job.then
    BY <1>1, <1>2 DEF Render, Stage, Job, TypeInv, JobOK
  <2> QED
    BY <1>2, <2>1 DEF Render, Handling, Advancing, poll
<1>3. CASE CompleteUpdate
  BY <1>1, <1>3 DEF CompleteUpdate, Completed, Stage, Job, Handling, Advancing
<1>4. CASE SendReading
  <2>1. job.stage = "send" /\ job'.stage \in {"ingest", "complete"}
    BY <1>1, <1>4 DEF SendReading, Stage, Job
  <2> QED
    BY <1>4, <2>1 DEF SendReading, Handling, Advancing, poll
<1>5. ASSUME job.stage \in {"ingest", "read", "register", "tap", "amend", "settle"}, UNCHANGED poll,
             \/ \E s \in {"read", "settle", "complete"} : Stage(s)
             \/ \E m, look : \E then \in {"register", "complete"} : Draw(m, look, then)
      PROVE  /\ Handling /\ Handling' /\ job'.stage \notin {"send", "tap", "amend"}
             /\ UNCHANGED <<batch, next, inbox>> /\ (Advancing' <=> Advancing)
  <2>1. CASE \E s \in {"read", "settle", "complete"} : Stage(s)
    BY <1>1, <1>5, <2>1 DEF Stage, Job, Handling, Advancing, poll
  <2>2. CASE \E m, look : \E then \in {"register", "complete"} : Draw(m, look, then)
    BY <1>5, <2>2 DEF Draw, Handling, Advancing, poll
  <2> QED
    BY <1>5, <2>1, <2>2
<1>6. CASE Ingest \/ ReadPhoto \/ Register
  BY <1>5, <1>6 DEF Ingest, ReadPhoto, Register, DrawOutcome
<1>7. CASE TapConfirm \/ TapDiscard
  <2>1. job.stage = "tap" /\ UNCHANGED <<batch, next>>
    BY <1>7 DEF TapConfirm, TapDiscard
  <2>2. \/ UNCHANGED inbox /\ \E m, look : Draw(m, look, "complete")
        \/ Completed /\ \E m, look : Draw(m, look, "advance")
    BY <1>7 DEF TapConfirm, TapDiscard
  <2> QED
    BY <2>1, <2>2 DEF Draw, Handling, Advancing
<1>8. CASE TapRetry \/ TapFails \/ TapUndo
  BY <1>5, <1>8 DEF TapRetry, TapFails, TapUndo, DrawOutcome
<1>9. CASE AmendDraft \/ SettleAmend \/ EditExpense \/ NotACommand
  BY <1>5, <1>9 DEF AmendDraft, SettleAmend, EditExpense, NotACommand
<1> QED
  BY <1>2, <1>3, <1>4, <1>6, <1>7, <1>8, <1>9 DEF HandlerStep

\* What the poll leaves in the queue.
LEMMA Fetched ==
  ASSUME TypeInv, GetUpdates
  PROVE  /\ next \in 1..Len(inbox) + 1 /\ Len(inbox) \in Nat /\ Len(inbox') = Len(inbox) - next + 1
         /\ \A i \in 1..Len(inbox') : inbox'[i] = inbox[next + i - 1]
<1>1. inbox' = SubSeq(inbox, next, Len(inbox)) /\ next \in 1..Len(inbox) + 1 /\ Len(inbox) \in Nat
  BY Basics DEF GetUpdates, TypeInv, QueueOK
<1> QED
  BY <1>1, SubSeqProperties DEF TypeInv, QueueOK

\* A user who waits has one update in the queue at most.
LEMMA OneAtATime ==
  ASSUME TypeInv, world.inbox = 1, Len(inbox) <= 1, [Next]_vars PROVE Len(inbox') <= 1
<1>1. CASE User
  <2>1. UNCHANGED inbox \/ (Len(inbox) < 1 /\ \E u : inbox' = Append(inbox, u))
    BY <1>1 DEF User, SendPhoto, Void, Tap, Reply, Say, poll
  <2> QED
    BY <2>1, Basics DEF TypeInv, QueueOK
<1>2. CASE ~User
  <2>1. UNCHANGED inbox \/ (Handling /\ Completed) \/ GetUpdates
    BY <1>2, QueueSteps DEF Next, BotStep, GetUpdates, ClaimUpdate, CompleteUpdate, Completed, Advance,
       Render, SendReading, Ingest, ReadPhoto, Register, TapConfirm, TapDiscard, TapRetry, TapFails,
       TapUndo, AmendDraft, SettleAmend, EditExpense, NotACommand, Boot, Sweep, Crash, poll, vars,
       Handling
  <2>2. CASE Handling /\ Completed
    BY <2>2, AtHand, Marked DEF InboxKept
  <2>3. CASE GetUpdates
    BY <2>3, Fetched
  <2> QED
    BY <2>1, <2>2, <2>3
<1> QED
  BY <1>1, <1>2

LEMMA WaitsStep == ASSUME TypeInv, Patient, Waits, [Next]_vars PROVE Waits'
<1>1. NotAtBoot'
  <2>1. CASE HandlerStep
    BY <2>1, Going DEF Waits, NotAtBoot, Handling
  <2>2. CASE ClaimUpdate
    <3>1. next \in 1..Len(inbox) /\ Update \in Entry
      BY <2>2, Basics DEF ClaimUpdate, TypeInv, QueueOK, Update
    <3>2. FirstStage(Update) \in {"advance", "send", "tap", "amend"}
      BY <3>1 DEF FirstStage, Entry
    <3> QED
      BY <2>2, <3>2 DEF ClaimUpdate, Stage, TypeInv, JobOK, Job, NotAtBoot
  <2>3. CASE GetUpdates \/ User \/ UNCHANGED vars
    BY <2>3 DEF GetUpdates, User, SendPhoto, Void, Tap, Reply, vars, Waits, NotAtBoot
  <2>4. CASE Advance
    BY <2>4 DEF Advance, NoJob, NotAtBoot
  <2> QED
    BY <2>1, <2>2, <2>3, <2>4 DEF Next, BotStep, HandlerStep, Boot, Sweep, Crash, Patient, Waits, NotAtBoot
<1> QED
  BY <1>1, OneAtATime DEF Waits, Patient

\* A handler that is at work leaves nothing to a user who waits but `finbox
\* void`, and has the whole queue at hand.
LEMMA Busy ==
  ASSUME TypeInv, world.inbox = 1, Len(inbox) <= 1, Handling
  PROVE  /\ Len(inbox) = 1 /\ next = 1 /\ batch = 1
         /\ User => /\ \E r \in Receipts : ledger' = [ledger EXCEPT ![r] = Nothing]
                    /\ UNCHANGED <<life, draft, entered, card, chat, poll, job>>
<1>1. Len(inbox) = 1 /\ next = 1 /\ batch = 1
  <2>1. next \in Nat /\ batch \in Nat /\ Len(inbox) \in Nat /\ 1 <= next
    BY AtHand, Basics
  <2>2. next <= batch /\ batch <= Len(inbox)
    BY <2>1 DEF TypeInv, QueueOK, JobOK
  <2> DEFINE n == Len(inbox)
  <2>3. n \in Nat /\ next \in Nat /\ batch \in Nat /\ 1 <= next /\ next <= batch /\ batch <= n /\ n <= 1
    BY <2>1, <2>2
  <2> HIDE DEF n
  <2>4. n = 1 /\ next = 1 /\ batch = 1
    BY <2>3
  <2> QED
    BY <2>4 DEF n
<1>2. ASSUME User PROVE \E r \in Receipts : Void(r)
  BY <1>1, <1>2 DEF User, SendPhoto, Tap, Reply, Say
<1> QED
  BY <1>1, <1>2 DEF Void

LEMMA TapsStep ==
  ASSUME TypeInv, Patient, Waits, TapsAreFresh, [Next]_vars PROVE TapsAreFresh'
<1>1. inbox \in Seq(Entry) /\ Len(inbox) \in Nat /\ next \in Nat \ {0} /\ batch <= Len(inbox) /\ batch \in Nat
      /\ next <= Len(inbox) + 1
  BY Basics DEF TypeInv, QueueOK
<1>2. CASE User
  <2>1. CASE UNCHANGED inbox
    BY <1>2, <2>1 DEF User, SendPhoto, Void, Tap, Reply, TapsAreFresh, poll
  <2>2. CASE ~UNCHANGED inbox
    <3>1. PICK u : /\ Len(inbox) < 1 /\ inbox' = Append(inbox, u) /\ UNCHANGED <<chat, next, job>>
                   /\ u.kind = "tap" => u.what \in chat[u.msg].buttons
      <4>1. world.inbox = 1
        BY DEF Patient
      <4>2. ASSUME NEW q \in Receipts, SendPhoto(q)
            PROVE  \E u : /\ Len(inbox) < 1 /\ inbox' = Append(inbox, u) /\ UNCHANGED <<chat, next, job>>
                          /\ u.kind = "tap" => u.what \in chat[u.msg].buttons
        BY <4>1, <4>2 DEF SendPhoto
      <4>3. ASSUME NEW n \in DOMAIN chat, NEW button \in Buttons, Tap(n, button)
            PROVE  \E u : /\ Len(inbox) < 1 /\ inbox' = Append(inbox, u) /\ UNCHANGED <<chat, next, job>>
                          /\ u.kind = "tap" => u.what \in chat[u.msg].buttons
        <5>1. OnCard("tap", n, button).what = button /\ OnCard("tap", n, button).msg = n
          BY DEF OnCard
        <5> QED
          BY <4>1, <4>3, <5>1 DEF Tap, Say
      <4>4. ASSUME NEW n \in DOMAIN chat, NEW fix, Reply(n, fix)
            PROVE  \E u : /\ Len(inbox) < 1 /\ inbox' = Append(inbox, u) /\ UNCHANGED <<chat, next, job>>
                          /\ u.kind = "tap" => u.what \in chat[u.msg].buttons
        <5>1. OnCard("reply", n, fix).kind = "reply"
          BY DEF OnCard
        <5> QED
          BY <4>1, <4>4, <5>1 DEF Reply, Say
      <4> QED
        BY <1>2, <2>2, <4>2, <4>3, <4>4 DEF User, Void, poll
    <3>2. Len(inbox') = 1 /\ inbox'[1] = u
      BY <1>1, <3>1
    <3> QED
      BY <1>1, <3>1, <3>2 DEF TapsAreFresh
  <2> QED
    BY <2>1, <2>2
<1>3. CASE GetUpdates
  <2>1. next' = 1 /\ UNCHANGED <<chat, job>>
    BY <1>3 DEF GetUpdates
  <2>2. Len(inbox') = Len(inbox) - next + 1 /\ \A i \in 1..Len(inbox') : inbox'[i] = inbox[next + i - 1]
    BY <1>3, Fetched
  <2> QED
    BY <1>1, <2>1, <2>2 DEF TapsAreFresh
<1>4. CASE ClaimUpdate
  BY <1>4 DEF ClaimUpdate, TapsAreFresh, poll
<1>5. CASE Advance
  <2>1. Handling
    BY <1>5 DEF Advance, Handling
  <2>2. next' = 2 /\ Len(inbox') = 1
    BY <1>5, <2>1, Busy DEF Advance, Patient, Waits
  <2> QED
    BY <2>2 DEF TapsAreFresh
<1>6. CASE HandlerStep
  BY <1>6, Going DEF TapsAreFresh, Handling, Waits, NotAtBoot
<1>7. CASE UNCHANGED vars
  BY <1>7 DEF vars, TapsAreFresh
<1> QED
  BY <1>2, <1>3, <1>4, <1>5, <1>6, <1>7 DEF Next, BotStep, HandlerStep, Boot, Sweep, Crash, Patient, Waits,
     NotAtBoot

\* The poll and the steps that leave the database alone.
LEMMA StatusRests ==
  ASSUME TypeInv, StatusOK, UNCHANGED <<life, draft, ledger>>,
         job.stage # "settle", job'.stage \notin {"ingest", "read", "settle"}
  PROVE  StatusOK'
BY DEF StatusOK

LEMMA StatusStep ==
  ASSUME TypeInv, Patient, Waits, StatusOK, [Next]_vars PROVE StatusOK'
<1> DEFINE r == Update.doc
<1>1. /\ job \in Job(Len(chat)) /\ ~Boot /\ ~Sweep
      /\ life \in [Receipts -> Status] /\ draft \in [Receipts -> Readings]
      /\ ledger \in [Receipts -> Drafts \cup {Nothing}]
  BY DEF TypeInv, DataOK, JobOK, Waits, NotAtBoot, Boot, Sweep
<1>2. Handling => r \in Receipts
  BY AtHand
<1>3. CASE User
  <2>1. CASE Handling
    <3>1. PICK q \in Receipts : /\ ledger' = [ledger EXCEPT ![q] = Nothing]
                                /\ UNCHANGED <<life, draft, chat, poll, job>>
      BY <1>3, <2>1, Busy DEF Patient, Waits
    <3> QED
      BY <1>1, <3>1 DEF StatusOK, poll, Update
  <2>2. CASE ~Handling
    <3>1. /\ UNCHANGED <<life, draft, job>>
          /\ UNCHANGED ledger \/ \E q \in Receipts : ledger' = [ledger EXCEPT ![q] = Nothing]
      BY <1>3 DEF User, SendPhoto, Void, Tap, Reply, database
    <3>2. job.stage \notin {"ingest", "read", "settle"}
      BY <2>2 DEF Handling
    <3> QED
      BY <1>1, <3>1, <3>2 DEF StatusOK
  <2> QED
    BY <2>1, <2>2
<1>4. CASE GetUpdates \/ ClaimUpdate
  <2>1. UNCHANGED <<life, draft, ledger>> /\ job.stage = "idle"
    BY <1>4 DEF GetUpdates, ClaimUpdate, database
  <2>2. CASE ClaimUpdate
    <3>1. next \in 1..Len(inbox) /\ Update \in Entry
      BY <2>2, Basics DEF ClaimUpdate, TypeInv, QueueOK, Update
    <3>2. FirstStage(Update) \in {"advance", "send", "tap", "amend"}
      BY <3>1 DEF FirstStage, Entry
    <3> QED
      BY <1>1, <2>1, <2>2, <3>2, StatusRests DEF ClaimUpdate, Stage, Job
  <2>3. CASE GetUpdates
    BY <2>1, <2>3, StatusRests DEF GetUpdates
  <2> QED
    BY <1>4, <2>2, <2>3
<1>5. CASE CompleteUpdate \/ Advance \/ Render \/ Register \/ NotACommand
  <2>1. UNCHANGED <<life, draft, ledger>> /\ job.stage # "settle"
    BY <1>5 DEF CompleteUpdate, Advance, Render, Register, NotACommand, database
  <2>2. CASE CompleteUpdate \/ Advance \/ Register \/ NotACommand
    BY <1>1, <2>1, <2>2, StatusRests DEF CompleteUpdate, Advance, Register, NotACommand, Stage, Job, NoJob
  <2>3. CASE Render
    BY <1>1, <2>1, <2>3, StatusRests DEF Render, Stage, Job, TypeInv, JobOK
  <2> QED
    BY <1>5, <2>2, <2>3
<1>6. CASE SendReading
  <2>1. UNCHANGED <<life, draft, ledger>> /\ job.stage = "send"
    BY <1>6 DEF SendReading, database
  <2>2. CASE Stage("complete")
    BY <1>1, <2>1, <2>2, StatusRests DEF Stage, Job
  <2>3. CASE /\ chat' = Append(chat, Face(r, "reading", Nothing, {}))
             /\ job' = [job EXCEPT !.stage = "ingest", !.msg = Len(chat) + 1]
    <3>1. chat \in Seq(Card) /\ Len(chat) \in Nat
      BY Basics DEF TypeInv, QueueOK
    <3>2. chat'[Len(chat) + 1].face = "reading"
      BY <2>3, <3>1, AppendProperties DEF Face
    <3>3. job'.stage = "ingest" /\ job'.msg = Len(chat) + 1
      BY <1>1, <2>3 DEF Job
    <3> QED
      BY <2>1, <3>2, <3>3 DEF StatusOK
  <2> QED
    BY <1>6, <2>2, <2>3 DEF SendReading
<1>7. CASE Ingest
  <2>1. /\ Handling /\ r \in Receipts /\ job.stage = "ingest" /\ chat[job.msg].face = "reading"
        /\ UNCHANGED <<draft, ledger, chat, inbox, next>>
    BY <1>2, <1>7 DEF Ingest, Handling, StatusOK, poll
  <2>2. CASE life[r] = "absent" /\ life' = [life EXCEPT ![r] = "pending"] /\ Stage("read")
    BY <1>1, <2>1, <2>2 DEF StatusOK, Stage, Job, Update, Status
  <2>3. CASE life[r] \in {"discarded", "failed"} /\ Stage("read") /\ UNCHANGED life
    BY <1>1, <2>1, <2>3 DEF StatusOK, Stage, Job, Update
  <2>4. CASE Draw(job.msg, Notice(r), "complete") /\ UNCHANGED life
    BY <2>1, <2>4, StatusRests DEF Draw
  <2> QED
    BY <1>7, <2>2, <2>3, <2>4 DEF Ingest
<1>8. ASSUME Handling, Outcome(r), UNCHANGED ledger, ledger[r] = Nothing, job.stage # "settle",
             job'.stage = "render"
      PROVE  StatusOK'
  BY <1>1, <1>2, <1>8, Extracted, ValueAssumption DEF StatusOK
<1>9. CASE ReadPhoto
  <2>1. Handling /\ r \in Receipts /\ job.stage = "read" /\ Outcome(r) /\ UNCHANGED ledger
    BY <1>2, <1>9 DEF ReadPhoto, Handling
  <2>2. job'.stage = "render"
    BY <1>9 DEF ReadPhoto, DrawOutcome, Draw
  <2> QED
    BY <1>8, <2>1, <2>2 DEF StatusOK
<1>10. CASE TapConfirm
  <2>1. r \in Receipts /\ job.stage = "tap" /\ job'.stage = "render" /\ UNCHANGED draft
    BY <1>2, <1>10 DEF TapConfirm, Handling, Draw
  <2>2. CASE UNCHANGED <<life, ledger>>
    BY <2>1, <2>2, StatusRests
  <2>3. CASE life' = [life EXCEPT ![r] = "confirmed"] /\ ledger' = [ledger EXCEPT ![r] = draft[r]]
    BY <1>1, <2>1, <2>3 DEF StatusOK
  <2> QED
    BY <1>10, <2>2, <2>3 DEF TapConfirm
<1>11. CASE TapDiscard
  <2>1. r \in Receipts /\ job.stage = "tap" /\ job'.stage = "render" /\ UNCHANGED <<draft, ledger>>
    BY <1>2, <1>11 DEF TapDiscard, Handling, Draw
  <2>2. CASE life[r] \in {"awaiting_confirm", "failed"} /\ life' = [life EXCEPT ![r] = "discarded"]
    BY <1>1, <2>1, <2>2 DEF StatusOK
  <2> QED
    BY <1>11, <2>1, <2>2, StatusRests DEF TapDiscard
<1>12. CASE TapRetry
  <2>1. r \in Receipts /\ Handling /\ job.stage = "tap" /\ job'.stage = "render" /\ UNCHANGED ledger
    BY <1>2, <1>12 DEF TapRetry, Handling, DrawOutcome, Draw
  <2>2. CASE Reprocessable(r)
    BY <1>8, <1>12, <2>1, <2>2 DEF TapRetry, Reprocessable, StatusOK
  <2>3. CASE ~Reprocessable(r)
    BY <1>12, <2>1, <2>3, StatusRests DEF TapRetry
  <2> QED
    BY <2>2, <2>3
<1>13. CASE TapFails
  <2>1. r \in Receipts /\ job.stage = "tap" /\ job'.stage = "complete" /\ UNCHANGED <<life, ledger>>
    BY <1>1, <1>2, <1>13 DEF TapFails, Handling, Stage, Job
  <2>2. CASE UNCHANGED draft
    BY <2>1, <2>2, StatusRests
  <2>3. CASE Reprocessable(r) /\ \E d \in world.says \cup {Unreadable} : draft' = [draft EXCEPT ![r] = d]
    BY <1>1, <2>1, <2>3 DEF StatusOK, Reprocessable
  <2> QED
    BY <1>13, <2>2, <2>3 DEF TapFails
<1>14. CASE TapUndo
  <2>1. /\ r \in Receipts /\ job.stage = "tap" /\ job'.stage \in {"render", "complete"}
        /\ UNCHANGED <<life, draft>>
        /\ ledger' = [ledger EXCEPT ![r] = Nothing] \/ UNCHANGED ledger
    BY <1>1, <1>2, <1>14 DEF TapUndo, Handling, Stage, Draw, Job
  <2> QED
    BY <1>1, <2>1 DEF StatusOK
<1>15. CASE AmendDraft
  <2>1. r \in Receipts /\ job.stage = "amend" /\ UNCHANGED <<life, ledger, inbox, next>>
    BY <1>2, <1>15 DEF AmendDraft, Handling, poll
  <2>2. CASE life[r] \in {"awaiting_confirm", "failed"}
    <3>1. draft' = [draft EXCEPT ![r] = Update.what] /\ job'.stage = "settle"
      BY <1>1, <1>15, <2>2 DEF AmendDraft, Stage, Job
    <3> QED
      BY <1>1, <2>1, <2>2, <3>1 DEF StatusOK, Update
  <2>3. CASE ~(life[r] \in {"awaiting_confirm", "failed"})
    BY <1>1, <1>15, <2>1, <2>3, StatusRests DEF AmendDraft, Stage, Job
  <2> QED
    BY <2>2, <2>3
<1>16. CASE SettleAmend
  <2>1. /\ r \in Receipts /\ job.stage = "settle" /\ job'.stage = "render" /\ UNCHANGED <<draft, ledger>>
        /\ life' = [life EXCEPT ![r] = ResultStatus(draft[r])]
    BY <1>2, <1>16 DEF SettleAmend, Handling, Draw
  <2> QED
    BY <1>1, <2>1 DEF StatusOK, ResultStatus
<1>17. CASE EditExpense
  <2>1. /\ r \in Receipts /\ job.stage = "amend" /\ job'.stage \in {"render", "complete"}
        /\ UNCHANGED <<life, draft>>
    BY <1>1, <1>2, <1>17 DEF EditExpense, Handling, Stage, Draw, Job
  <2>2. UNCHANGED ledger \/ (ledger[r] # Nothing /\ ledger' = [ledger EXCEPT ![r] = Update.what])
    BY <1>17 DEF EditExpense
  <2> QED
    BY <1>1, <2>1, <2>2 DEF StatusOK
<1>18. CASE UNCHANGED vars
  BY <1>18 DEF vars, StatusOK, Update
<1> QED
  BY <1>1, <1>3, <1>4, <1>5, <1>6, <1>7, <1>9, <1>10, <1>11, <1>12, <1>13, <1>14, <1>15, <1>16, <1>17,
     <1>18 DEF Next, BotStep, Crash, Patient

\* A step that draws nothing and makes no status call for another card.
LEMMA ShownRests ==
  ASSUME TypeInv, Shown, job.stage # "render", job'.stage # "render",
         UNCHANGED chat \/ \E look \in Card : chat' = Append(chat, look),
         \A q \in Receipts : life'[q] = life[q] \/ CalledFor(life'[q]) = "none"
  PROVE  Shown'
<1>1. chat \in Seq(Card) /\ Len(chat) \in Nat
  BY Basics DEF TypeInv, QueueOK
<1>2. Len(chat') >= Len(chat) /\ Len(chat') \in Nat /\ \A m \in 1..Len(chat) : chat'[m] = chat[m]
  BY <1>1, AppendProperties
<1>3. ASSUME NEW q \in Receipts, CalledFor(life'[q]) # "none" PROVE Shows(q, CalledFor(life[q]))'
  <2>1. life'[q] = life[q] /\ Shows(q, CalledFor(life[q]))
    BY <1>3 DEF Shown
  <2> QED
    BY <1>1, <1>2, <2>1 DEF Shows
<1> QED
  BY <1>3 DEF Shown

\* A handler goes on to draw on message m a card that its receipt calls for, or
\* one over a face that is not called for.
LEMMA ShownDraws ==
  ASSUME Shown, job.stage # "render", UNCHANGED chat,
         NEW r \in Receipts, NEW m, NEW look, NEW then, Draw(m, look, then), IsAbout(m, r), look.doc = r,
         \A q \in Receipts \ {r} : life'[q] = life[q],
         \/ CalledFor(life'[r]) \in {"none", look.face}
         \/ life'[r] = life[r] /\ chat[m].face # CalledFor(life[r])
  PROVE  Shown'
<1>1. job'.stage = "render" /\ job'.msg = m /\ job'.look = look
  BY DEF Draw
<1>2. ASSUME NEW q \in Receipts, CalledFor(life'[q]) # "none" PROVE Shows(q, CalledFor(life[q]))'
  <2>1. CASE q # r
    BY <1>1, <1>2, <2>1 DEF Shown, Shows, IsAbout
  <2>2. CASE q = r /\ CalledFor(life'[r]) = look.face
    BY <1>1, <2>2 DEF Shows
  <2>3. CASE q = r /\ life'[r] = life[r] /\ chat[m].face # CalledFor(life[r])
    BY <1>1, <1>2, <2>3 DEF Shown, Shows
  <2> QED
    BY <1>2, <2>1, <2>2, <2>3
<1> QED
  BY <1>2 DEF Shown

\* The steps of the bot that have a card drawn.
Drawing == Ingest \/ ReadPhoto \/ TapConfirm \/ TapDiscard \/ TapRetry \/ TapUndo \/ SettleAmend \/ EditExpense

LEMMA ShownDrawing ==
  ASSUME TypeInv, ButtonsOK, Waits, TapsAreFresh, StatusOK, Shown, Drawing
  PROVE  Shown'
<1> DEFINE r == Update.doc
           m == Update.msg
<1>1. /\ job \in Job(Len(chat)) /\ Handling /\ job.stage # "render" /\ UNCHANGED chat
      /\ life \in [Receipts -> Status] /\ draft \in [Receipts -> Readings] /\ entered \in [Receipts -> Nat]
      /\ ledger \in [Receipts -> Drafts \cup {Nothing}]
  BY DEF TypeInv, DataOK, JobOK, Drawing, Ingest, ReadPhoto, TapConfirm, TapDiscard, TapRetry, TapUndo,
     SettleAmend, EditExpense, Handling
<1>2. /\ next \in 1..Len(inbox) /\ r \in Receipts /\ Update \in Entry /\ LinkOK(Update)
      /\ Update.kind # "photo" => IsAbout(m, r)
  BY <1>1, AtHand
<1>3. job.stage = "tap" => /\ IsAbout(m, r) /\ Proper(chat[m]) /\ chat[m].face \in Faces
                           /\ Update.what \in chat[m].buttons
  <2>1. ASSUME job.stage = "tap" PROVE Update.kind = "tap" /\ IsAbout(m, r) /\ chat[m] \in Card
    BY <1>2, <2>1, Basics DEF TypeInv, JobOK, IsAbout
  <2> QED
    BY <1>2, <2>1, Basics DEF TapsAreFresh, ButtonsOK, IsAbout, Card, Update
<1>4. ASSUME NEW n, NEW look, NEW then, Draw(n, look, then), IsAbout(n, r), look.doc = r,
             \A q \in Receipts \ {r} : life'[q] = life[q],
             \/ CalledFor(life'[r]) \in {"none", look.face}
             \/ life'[r] = life[r] /\ chat[n].face # CalledFor(life[r])
      PROVE  Shown'
  BY <1>1, <1>2, <1>4, ShownDraws
<1>5. ASSUME NEW n, NEW then, IsAbout(n, r), Outcome(r), DrawOutcome(r, n, then)
      PROVE  Shown'
  <2>1. /\ Draw(n, OutcomeCard(r), then) /\ OutcomeCard(r).doc = r
        /\ \A q \in Receipts \ {r} : life'[q] = life[q]
    BY <1>2, <1>5, Extracted, OutcomeDrawn DEF DrawOutcome, OutcomeCard
  <2>2. CalledFor(life'[r]) = OutcomeCard(r).face
    BY <1>2, <1>5, Extracted DEF OutcomeCard, CalledFor, FailedCard, DraftCard, Face
  <2>3. PICK look : look = OutcomeCard(r)
    OBVIOUS
  <2> QED
    BY <1>4, <1>5, <2>1, <2>2, <2>3
<1>6. /\ Notice(r).doc = r /\ Notice(r).face = "notice"
      /\ CorruptCard(r).doc = r /\ CorruptCard(r).face = "corrupt"
  BY DEF Notice, CorruptCard, Face
<1>7. CASE Ingest
  <2>1. IsAbout(job.msg, r) /\ chat[job.msg].face = "reading"
    BY <1>7 DEF Ingest, TypeInv, JobOK, OfPhoto, StatusOK
  <2>2. CASE Stage("read") /\ (UNCHANGED life \/ life' = [life EXCEPT ![r] = "pending"])
    BY <1>1, <1>2, <2>2, ShownRests DEF Stage, Job, CalledFor
  <2>3. CASE Draw(job.msg, Notice(r), "complete") /\ UNCHANGED life
    BY <1>4, <1>6, <2>1, <2>3 DEF CalledFor
  <2> QED
    BY <1>7, <2>2, <2>3 DEF Ingest
<1>8. CASE ReadPhoto
  <2>1. IsAbout(job.msg, r)
    BY <1>8 DEF ReadPhoto, TypeInv, JobOK, OfPhoto
  <2> QED
    BY <1>5, <1>8, <2>1 DEF ReadPhoto
<1>9. CASE TapConfirm
  <2>1. /\ job.stage = "tap" /\ IsAbout(m, r) /\ chat[m].face \notin {"failed", "discarded"}
        /\ life[r] \in Status
    BY <1>1, <1>2, <1>3, <1>9 DEF TapConfirm, Proper, Faces
  <2>2. CASE draft[r] = Unreadable /\ Draw(m, CorruptCard(r), "complete") /\ UNCHANGED life
    <3>1. life[r] # "awaiting_confirm"
      BY <1>2, <2>1, <2>2 DEF StatusOK
    <3> QED
      BY <1>4, <1>6, <2>1, <2>2, <3>1 DEF CalledFor
  <2>3. CASE life' = [life EXCEPT ![r] = "confirmed"] /\ Draw(m, SavedCard(r, draft[r]), "advance")
    <3>1. CalledFor(life'[r]) = "none" /\ SavedCard(r, draft[r]).doc = r
      BY <1>1, <1>2, <2>3 DEF CalledFor, SavedCard, Face
    <3> QED
      BY <1>1, <1>2, <1>4, <2>1, <2>3, <3>1
  <2>4. CASE /\ life[r] # "awaiting_confirm" /\ UNCHANGED life
             /\ Draw(m, IF life[r] = "failed" THEN FailedCard(r) ELSE Notice(r), "complete")
    <3>1. CASE life[r] = "failed"
      <4>1. FailedCard(r).doc = r /\ CalledFor(life'[r]) = FailedCard(r).face
        BY <2>4, <3>1 DEF FailedCard, Face, CalledFor
      <4> QED
        BY <1>4, <2>1, <2>4, <3>1, <4>1
    <3>2. CASE life[r] # "failed"
      BY <1>4, <1>6, <2>1, <2>4, <3>2 DEF CalledFor
    <3> QED
      BY <3>1, <3>2
  <2> QED
    BY <1>9, <2>2, <2>3, <2>4 DEF TapConfirm
<1>10. CASE TapDiscard
  <2>1. job.stage = "tap" /\ IsAbout(m, r) /\ chat[m].face # "discarded"
    BY <1>3, <1>10 DEF TapDiscard, Proper
  <2>2. CASE life' = [life EXCEPT ![r] = "discarded"] /\ Draw(m, DiscardedCard(r), "advance")
    <3>1. CalledFor(life'[r]) = DiscardedCard(r).face /\ DiscardedCard(r).doc = r
      BY <1>1, <1>2, <2>2 DEF CalledFor, DiscardedCard, Face
    <3> QED
      BY <1>1, <1>2, <1>4, <2>1, <2>2, <3>1
  <2>3. CASE life[r] \notin {"awaiting_confirm", "failed"} /\ Draw(m, Notice(r), "advance") /\ UNCHANGED life
    BY <1>4, <1>6, <2>1, <2>3 DEF CalledFor
  <2> QED
    BY <1>10, <2>2, <2>3 DEF TapDiscard
<1>11. CASE TapRetry
  <2>1. job.stage = "tap" /\ IsAbout(m, r) /\ chat[m].face # "draft"
    BY <1>3, <1>11 DEF TapRetry, Proper
  <2>2. CASE Reprocessable(r)
    BY <1>5, <1>11, <2>1, <2>2 DEF TapRetry
  <2>3. CASE ~Reprocessable(r)
    <3>1. life[r] \notin {"failed", "discarded"} /\ Draw(m, Notice(r), "complete") /\ UNCHANGED life
      BY <1>11, <2>3 DEF TapRetry, Reprocessable
    <3> QED
      BY <1>4, <1>6, <2>1, <3>1 DEF CalledFor
  <2> QED
    BY <2>2, <2>3
<1>12. CASE TapUndo
  <2>1. job.stage = "tap" /\ IsAbout(m, r) /\ UNCHANGED life
    BY <1>3, <1>12 DEF TapUndo
  <2>2. CASE ledger[r] # Nothing /\ Draw(m, UndoneCard(r), "complete")
    <3>1. CalledFor(life'[r]) = "none" /\ UndoneCard(r).doc = r
      BY <1>2, <2>1, <2>2 DEF StatusOK, CalledFor, UndoneCard, Face
    <3> QED
      BY <1>4, <2>1, <2>2, <3>1
  <2>3. CASE Stage("complete")
    BY <1>1, <2>1, <2>3, ShownRests DEF Stage, Job
  <2> QED
    BY <1>12, <2>2, <2>3 DEF TapUndo
<1>13. CASE SettleAmend
  <2>1. /\ card[r] = m /\ IsAbout(m, r) /\ Draw(card[r], ResultCard(r, draft[r]), "complete")
        /\ life' = [life EXCEPT ![r] = ResultStatus(draft[r])]
    BY <1>2, <1>13 DEF SettleAmend, TypeInv, JobOK, IsRegistered
  <2>2. CalledFor(life'[r]) = ResultCard(r, draft[r]).face /\ ResultCard(r, draft[r]).doc = r
    BY <1>1, <1>2, <2>1 DEF CalledFor, ResultStatus, ResultCard, FailedCard, DraftCard, Face
  <2> QED
    BY <1>1, <1>2, <1>4, <2>1, <2>2
<1>14. CASE EditExpense
  <2> DEFINE look == IF IsRegistered(Update) THEN SavedCard(r, Update.what) ELSE UndoableCard(r, Update.what)
  <2>1. IsAbout(m, r) /\ UNCHANGED life
    BY <1>2, <1>14 DEF EditExpense, TypeInv, JobOK
  <2>2. CASE ledger[r] # Nothing /\ Draw(m, look, "complete")
    <3>1. CalledFor(life'[r]) = "none" /\ look.doc = r
      BY <1>2, <2>1, <2>2 DEF StatusOK, CalledFor, SavedCard, UndoableCard, Face
    <3> HIDE DEF look
    <3> QED
      BY <1>4, <2>1, <2>2, <3>1
  <2>3. CASE Stage("complete")
    BY <1>1, <2>1, <2>3, ShownRests DEF Stage, Job
  <2> QED
    BY <1>14, <2>2, <2>3 DEF EditExpense
<1> QED
  BY <1>7, <1>8, <1>9, <1>10, <1>11, <1>12, <1>13, <1>14 DEF Drawing

LEMMA ShownStep ==
  ASSUME TypeInv, ButtonsOK, Patient, Waits, TapsAreFresh, StatusOK, Shown, [Next]_vars
  PROVE  Shown'
<1>1. job \in Job(Len(chat)) /\ ~Boot /\ ~Sweep
  BY DEF TypeInv, JobOK, Waits, NotAtBoot, Boot, Sweep
<1>2. CASE User \/ UNCHANGED vars
  <2>1. UNCHANGED <<life, chat, job>>
    BY <1>2 DEF User, SendPhoto, Void, Tap, Reply, database, vars
  <2> QED
    BY <2>1 DEF Shown, Shows
<1>3. CASE Render
  <2>1. /\ UNCHANGED life /\ job.stage = "render" /\ chat' = [chat EXCEPT ![job.msg] = job.look]
        /\ job.msg \in 1..Len(chat) /\ job'.stage # "render" /\ chat \in Seq(Card)
    BY <1>1, <1>3 DEF Render, Patient, Stage, Job, TypeInv, JobOK, QueueOK, IsAbout, database
  <2>2. Len(chat') = Len(chat) /\ Len(chat) \in Nat /\ chat'[job.msg] = job.look
        /\ \A m \in 1..Len(chat) \ {job.msg} : chat'[m] = chat[m]
    BY <2>1, Basics
  <2>3. ASSUME NEW r \in Receipts, NEW face, Shows(r, face) PROVE Shows(r, face)'
    BY <2>1, <2>2, <2>3 DEF Shows
  <2> QED
    BY <2>1, <2>3 DEF Shown
<1>4. CASE SendReading
  <2>1. /\ UNCHANGED life /\ job.stage = "send" /\ job'.stage # "render" /\ Update.doc \in Receipts
    BY <1>1, <1>4, AtHand DEF SendReading, Stage, Job, Handling, database
  <2>2. UNCHANGED chat \/ \E look \in Card : chat' = Append(chat, look)
    BY <1>4, <2>1, Drawn DEF SendReading
  <2> QED
    BY <2>1, <2>2, ShownRests
<1>5. CASE GetUpdates \/ CompleteUpdate \/ Advance \/ Register
  <2>1. UNCHANGED <<life, chat>> /\ job.stage # "render" /\ job'.stage # "render"
    BY <1>1, <1>5 DEF GetUpdates, CompleteUpdate, Advance, Register, Stage, Job, NoJob, database
  <2> QED
    BY <2>1, ShownRests
<1>6. CASE ClaimUpdate
  <2>1. next \in 1..Len(inbox) /\ Update \in Entry
    BY <1>6, Basics DEF ClaimUpdate, TypeInv, QueueOK, Update
  <2>2. FirstStage(Update) # "render"
    BY <2>1 DEF FirstStage, Entry
  <2> QED
    BY <1>1, <1>6, <2>2, ShownRests DEF ClaimUpdate, Stage, Job, database
<1>7. CASE TapFails \/ AmendDraft \/ NotACommand
  <2>1. UNCHANGED <<life, chat>> /\ job.stage \in {"tap", "amend"} /\ (Stage("complete") \/ Stage("settle"))
    BY <1>7 DEF TapFails, AmendDraft, NotACommand, database
  <2> QED
    BY <1>1, <2>1, ShownRests DEF Stage, Job
<1> QED
  BY <1>1, <1>2, <1>3, <1>4, <1>5, <1>6, <1>7, ShownDrawing DEF Drawing, Next, BotStep, Crash, Patient

LEMMA LiveStep == TypeInv /\ LiveInv /\ [Next]_vars => LiveInv'
<1> SUFFICES ASSUME TypeInv, LiveInv, [Next]_vars PROVE LiveInv'
  OBVIOUS
<1>1. ButtonsOK'
  BY ButtonsStep DEF LiveInv
<1>2. ASSUME Patient' PROVE Waits' /\ TapsAreFresh' /\ StatusOK' /\ Shown'
  <2>1. Patient
    BY <1>2 DEF Patient, Next, vars
  <2> QED
    BY <2>1, WaitsStep, TapsStep, StatusStep, ShownStep DEF LiveInv
<1> QED
  BY <1>1, <1>2 DEF LiveInv

\* bot.go:322, "never leave a dead card": if the user waits for each answer and
\* the bot is neither killed nor refused an edit, then whenever all is quiet a
\* receipt that awaits confirmation can be confirmed or discarded from the
\* chat, one that was discarded can be read again, and one that failed both.
THEOREM LiveTheorem == Spec => []CardsAreLive
<1>1. TypeInv /\ LiveInv => CardsAreLive
  <2> SUFFICES ASSUME TypeInv, LiveInv, Patient, Quiescent,
                      NEW r \in Receipts, NEW s \in Status, s = life[r]
               PROVE  /\ s = "awaiting_confirm" => Offered(r, {"confirm", "discard"})
                      /\ s = "discarded" => Offered(r, {"retry"})
                      /\ s = "failed" => Offered(r, {"retry", "discard"})
    BY DEF CardsAreLive, AwaitingIsConfirmable, DiscardedIsRetriable, Patient, TypeInv, DataOK
  <2>1. ASSUME CalledFor(s) # "none"
        PROVE  \E m \in DOMAIN chat : chat[m].doc = r /\ chat[m].face = CalledFor(s) /\ Proper(chat[m])
    BY <2>1, Basics DEF LiveInv, Shown, Shows, Quiescent, ButtonsOK
  <2> QED
    BY <2>1 DEF CalledFor, Offered, Proper
<1> QED
  BY <1>1, InitLive, LiveStep, Typed, PTL DEF Spec
-----------------------------------------------------------------------------
(***************************************************************************)
(* One photo answered by one card, a user who waits, edits that succeed:   *)
(* however taps and photos fail and whenever the bot is killed, what a     *)
(* draft card or a saved card shows is what the database holds, unless a   *)
(* correction is at hand that will be handled, again if need be, and drawn.*)
(* So a tap on Confirm saves what its card showed.                         *)
(***************************************************************************)
Alone == world.inbox = 1 /\ world.cards = 1 /\ ~world.editsFail

\* An update of this kind is still to be completed.
Pending(kind) == Len(inbox) = 1 /\ inbox[1].kind = kind /\ ~inbox[1].done

OneUpdate ==
  /\ Len(inbox) <= 1
  /\ next > 1 => inbox[1].done
  /\ Handling => (inbox[1].done <=> Advancing)
  /\ job.stage = "render" => job.then # "sweep"

\* A photo has no message before its handler sends one, and the bot is not
\* killed after that, since there would be two.
OneMessage ==
  /\ Len(chat) <= 1
  /\ Pending("photo") /\ Len(chat) = 1 => Handling /\ job.stage # "send"
  /\ job.stage = "send" => Len(chat) = 0
  /\ job.stage \in {"ingest", "read"} => chat[1].face = "reading"

Registering == job.stage = "register" \/ (job.stage = "render" /\ job.then = "register")

\* The receipt of the one message, which is its registered card.
OneReceipt ==
  /\ \A r \in Receipts : life[r] # "absent" => Len(chat) = 1 /\ chat[1].doc = r
  /\ \A r \in Receipts : life[r] = "pending" => job.stage = "read"
  /\ \A r \in Receipts : life[r] \notin {"absent", "pending"} /\ ~Registering => card[r] = 1
  /\ \A r \in Receipts : ledger[r] # Nothing => life[r] = "confirmed"
  /\ job.stage = "ingest" => life[Update.doc] = "absent"
  /\ job.stage = "read" => life[Update.doc] = "pending"
  /\ job.stage = "settle" => life[Update.doc] \in {"awaiting_confirm", "failed"}

\* A correction that is not on the card yet.
Correcting == Pending("reply") /\ job.stage # "complete"

DraftTrue ==
  Len(chat) = 1 /\ chat[1].face = "draft" /\ life[chat[1].doc] = "awaiting_confirm" =>
    chat[1].shown = draft[chat[1].doc] \/ Correcting

SavedTrue ==
  Len(chat) = 1 /\ chat[1].face = "saved" /\ ledger[chat[1].doc] # Nothing =>
    \/ chat[1].shown = ledger[chat[1].doc]
    \/ Correcting /\ inbox[1].what = ledger[chat[1].doc]

LookTrue ==
  job.stage = "render" =>
    /\ job.look.face = "draft" => /\ life[job.look.doc] = "awaiting_confirm"
                                  /\ job.look.shown = draft[job.look.doc]
    /\ job.look.face = "saved" /\ ledger[job.look.doc] # Nothing =>
         job.look.shown = ledger[job.look.doc]

\* A tap that is not completed yet.
TapTrue ==
  /\ Pending("tap") /\ inbox[1].what = "confirm" =>
       /\ life[inbox[1].doc] = "awaiting_confirm" => inbox[1].seen.shown = draft[inbox[1].doc]
       /\ chat[1].face # "saved"
       /\ job.stage = "render" => job.look.face # "saved"
  /\ Pending("tap") /\ inbox[1].what = "retry" /\ chat[1].face = "draft" =>
       life[inbox[1].doc] = "awaiting_confirm"

AloneInv == OneUpdate /\ OneMessage /\ OneReceipt /\ DraftTrue /\ SavedTrue /\ LookTrue /\ TapTrue

\* The parts of the state, while a handler is at work.
LEMMA Single ==
  ASSUME TypeInv, Alone, OneUpdate, Handling
  PROVE  /\ Len(inbox) = 1 /\ next = 1 /\ batch = 1 /\ Update = inbox[1] /\ inbox[1] \in Entry
         /\ LinkOK(inbox[1]) /\ inbox[1].doc \in Receipts
         /\ User => /\ \E r \in Receipts : ledger' = [ledger EXCEPT ![r] = Nothing]
                    /\ UNCHANGED <<life, draft, entered, card, chat, inbox, batch, next, job>>
<1>1. /\ Len(inbox) = 1 /\ next = 1 /\ batch = 1
      /\ User => /\ \E r \in Receipts : ledger' = [ledger EXCEPT ![r] = Nothing]
                 /\ UNCHANGED <<life, draft, entered, card, chat, inbox, batch, next, job>>
  BY Busy DEF Alone, OneUpdate, poll
<1> QED
  BY <1>1, AtHand DEF Update

LEMMA FetchedOne ==
  ASSUME TypeInv, OneUpdate, GetUpdates, Len(inbox') = 1
  PROVE  Len(inbox) = 1 /\ next = 1 /\ inbox'[1] = inbox[1]
<1> DEFINE n == Len(inbox)
<1>1. next \in 1..n + 1 /\ n <= 1 /\ n \in Nat /\ 1 = n - next + 1
  BY Fetched DEF OneUpdate
<1> HIDE DEF n
<1>2. next = 1 /\ n = 1
  BY <1>1
<1>3. inbox'[1] = inbox[next + 1 - 1]
  BY Fetched
<1> QED
  BY <1>2, <1>3 DEF n

\* The photos to be handled can be counted.
LEMMA Counted ==
  ASSUME TypeInv PROVE Cardinality(Unhandled) \in Nat /\ (Cardinality(Unhandled) = 0 => Unhandled = {})
<1>1. IsFiniteSet(1..Len(inbox)) /\ Unhandled \in SUBSET (1..Len(inbox))
  BY Basics, FS_Interval DEF Unhandled
<1>2. IsFiniteSet(Unhandled)
  BY <1>1, FS_Subset
<1> QED
  BY <1>2, FS_CardinalityType, FS_EmptySet

\* The bot is not killed between the message that a photo is answered with and
\* the completion of the photo.
LEMMA CrashAlone == ASSUME TypeInv, Alone, Crash PROVE ~(Len(chat) = 1 /\ Pending("photo"))
<1> SUFFICES ASSUME Len(chat) = 1, Pending("photo") PROVE FALSE
  OBVIOUS
<1>1. 1 \in Unhandled
  BY Basics DEF Pending, Unhandled
<1> DEFINE n == Cardinality(Unhandled)
<1>2. n \in Nat /\ n # 0
  BY <1>1, Counted
<1>3. 1 + n <= 1
  BY DEF Crash, Messages, Alone
<1> HIDE DEF n
<1> QED
  BY <1>2, <1>3

\* The first stage of the handler of an update.
LEMMA Claimed ==
  ASSUME TypeInv, ClaimUpdate
  PROVE  /\ next \in 1..Len(inbox) /\ Update \in Entry /\ job.stage = "idle" /\ Handling'
         /\ UNCHANGED <<life, draft, ledger, entered, card, chat, inbox, batch, next>>
         /\ \/ Update.done /\ job'.stage = "advance"
            \/ /\ ~Update.done /\ job'.stage \in {"send", "tap", "amend"}
               /\ job'.stage = "send" => Update.kind = "photo"
<1>1. next \in 1..Len(inbox) /\ Update \in Entry
  BY Basics DEF ClaimUpdate, TypeInv, QueueOK, Update
<1>2. job'.stage = FirstStage(Update)
  BY DEF ClaimUpdate, Stage, TypeInv, JobOK, Job
<1>3. Update.kind \in {"photo", "tap", "reply"} /\ Update.done \in BOOLEAN
  BY <1>1 DEF Entry
<1>4. \/ Update.done /\ job'.stage = "advance"
      \/ /\ ~Update.done /\ job'.stage \in {"send", "tap", "amend"}
         /\ job'.stage = "send" => Update.kind = "photo"
  <2>1. CASE Update.done
    BY <1>2, <2>1 DEF FirstStage
  <2>2. CASE ~Update.done /\ Update.kind = "photo"
    BY <1>2, <2>2 DEF FirstStage
  <2>3. CASE ~Update.done /\ Update.kind \in {"tap", "reply"}
    BY <1>2, <2>3 DEF FirstStage
  <2> QED
    BY <1>3, <2>1, <2>2, <2>3
<1> QED
  BY <1>1, <1>4 DEF ClaimUpdate, Handling, database, poll

LEMMA ClaimedOne ==
  ASSUME TypeInv, OneUpdate, ClaimUpdate
  PROVE  Len(inbox) = 1 /\ next = 1 /\ Update = inbox[1]
<1> DEFINE n == Len(inbox)
<1>1. next \in 1..n /\ n <= 1 /\ n \in Nat
  BY Claimed, Basics DEF OneUpdate
<1> HIDE DEF n
<1>2. next = 1 /\ n = 1
  BY <1>1
<1> QED
  BY <1>2 DEF n, Update

\* A user who waits asks something only when the queue is empty.
LEMMA Asked ==
  ASSUME TypeInv, Alone, OneUpdate, User, ~UNCHANGED inbox
  PROVE  /\ ~Handling /\ next = 1 /\ Len(inbox) = 0 /\ Len(inbox') = 1
         /\ UNCHANGED <<life, draft, ledger, entered, card, chat, batch, next, job>>
         /\ ~inbox'[1].done
         /\ \/ inbox'[1].kind = "photo" /\ Len(chat) = 0
            \/ inbox'[1].kind = "reply"
            \/ /\ inbox'[1].kind = "tap"
               /\ \E m \in 1..Len(chat) : /\ inbox'[1].what \in chat[m].buttons
                                          /\ inbox'[1].seen = chat[m] /\ inbox'[1].doc = chat[m].doc
<1>1. /\ inbox \in Seq(Entry) /\ Len(inbox) \in Nat /\ DOMAIN chat = 1..Len(chat) /\ Len(chat) \in Nat
      /\ batch \in 0..Len(inbox) /\ next \in 1..batch + 1
  BY Basics DEF TypeInv, QueueOK
<1>2. ~Handling
  BY Single
<1>3. ASSUME NEW u, inbox' = Append(inbox, u), Len(inbox) < 1
      PROVE  next = 1 /\ Len(inbox) = 0 /\ Len(inbox') = 1 /\ inbox'[1] = u
  BY <1>1, <1>3
<1>4. world.inbox = 1 /\ world.cards = 1
  BY DEF Alone
<1>5. ASSUME NEW r \in Receipts, SendPhoto(r)
      PROVE  /\ Len(chat) = 0 /\ Len(inbox) < 1 /\ UNCHANGED <<database, chat, batch, next, job>>
             /\ \E u : inbox' = Append(inbox, u) /\ u.kind = "photo" /\ ~u.done
  <2>1. Cardinality(Unhandled) \in Nat
    BY Counted
  <2> DEFINE n == Cardinality(Unhandled)
  <2>2. n \in Nat /\ Len(chat) + n < 1
    BY <1>4, <1>5, <2>1 DEF SendPhoto, Messages
  <2> HIDE DEF n
  <2>3. Len(chat) = 0
    BY <1>1, <2>2
  <2> QED
    BY <1>4, <1>5, <2>3 DEF SendPhoto
<1>6. ASSUME NEW m \in DOMAIN chat, NEW button, Tap(m, button)
      PROVE  /\ Len(inbox) < 1 /\ UNCHANGED <<database, chat, batch, next, job>>
             /\ \E u : /\ inbox' = Append(inbox, u) /\ u.kind = "tap" /\ ~u.done
                       /\ u.what \in chat[m].buttons /\ u.seen = chat[m] /\ u.doc = chat[m].doc
  <2>1. inbox' = Append(inbox, OnCard("tap", m, button)) /\ button \in chat[m].buttons
    BY <1>6 DEF Tap, Say
  <2> QED
    BY <1>4, <1>6, <2>1 DEF Tap, Say, OnCard
<1>7. ASSUME NEW m \in DOMAIN chat, NEW fix, Reply(m, fix)
      PROVE  /\ Len(inbox) < 1 /\ UNCHANGED <<database, chat, batch, next, job>>
             /\ \E u : inbox' = Append(inbox, u) /\ u.kind = "reply" /\ ~u.done
  <2>1. inbox' = Append(inbox, OnCard("reply", m, fix))
    BY <1>7 DEF Reply, Say
  <2> QED
    BY <1>4, <1>7, <2>1 DEF Reply, Say, OnCard
<1>8. CASE \E r \in Receipts : SendPhoto(r)
  BY <1>2, <1>3, <1>5, <1>8 DEF database
<1>9. CASE \E m \in DOMAIN chat : \E button : Tap(m, button)
  BY <1>1, <1>2, <1>3, <1>6, <1>9 DEF database
<1>10. CASE \E m \in DOMAIN chat : \E fix : Reply(m, fix)
  BY <1>2, <1>3, <1>7, <1>10 DEF database
<1> QED
  BY <1>8, <1>9, <1>10 DEF User, Void, poll

\* A handler that is at work is done with its update when it advances.
LEMMA AtOne ==
  ASSUME TypeInv, Alone, OneUpdate, HandlerStep
  PROVE  /\ Handling /\ Handling' /\ UNCHANGED <<batch, next>> /\ job'.stage \notin {"send", "tap", "amend"}
         /\ Len(inbox) = 1 /\ Len(inbox') = 1 /\ next = 1 /\ batch = 1
         /\ Update = inbox[1] /\ Update' = inbox'[1]
         /\ inbox'[1].kind = inbox[1].kind /\ inbox'[1].what = inbox[1].what
         /\ inbox'[1].doc = inbox[1].doc /\ inbox'[1].seen = inbox[1].seen
         /\ inbox'[1].done <=> Advancing'
         /\ \/ UNCHANGED inbox
            \/ inbox'[1].done
<1>1. /\ Handling /\ Handling' /\ UNCHANGED <<batch, next>> /\ job'.stage \notin {"send", "tap", "amend"}
      /\ \/ UNCHANGED inbox /\ (Advancing' <=> Advancing)
         \/ Completed /\ Advancing' /\ ~Advancing
  BY Going DEF OneUpdate
<1>2. /\ Len(inbox) = 1 /\ next = 1 /\ batch = 1 /\ Update = inbox[1] /\ inbox[1] \in Entry
      /\ inbox[1].done <=> Advancing
  BY <1>1, Single DEF OneUpdate
<1>3. CASE UNCHANGED inbox /\ (Advancing' <=> Advancing)
  BY <1>1, <1>2, <1>3 DEF Update
<1>4. CASE Completed /\ Advancing'
  <2>1. InboxKept
    BY <1>2, <1>4, Marked
  <2>2. inbox'[1] = [inbox[1] EXCEPT !.done = TRUE]
    BY <1>2, <1>4, Basics DEF Completed
  <2> DEFINE u == inbox[1]
             v == inbox'[1]
  <2>3. v.done /\ v.kind = u.kind /\ v.what = u.what /\ v.doc = u.doc /\ v.seen = u.seen
    BY <1>2, <2>2 DEF Entry
  <2>4. Len(inbox') = 1 /\ Update' = inbox'[1]
    BY <1>1, <1>2, <2>1 DEF InboxKept, Update
  <2> QED
    BY <1>1, <1>2, <1>4, <2>3, <2>4
<1> QED
  BY <1>1, <1>3, <1>4

\* Nothing to resume at boot.
LEMMA SweepAlone ==
  ASSUME OneReceipt, Sweep
  PROVE  job.stage = "sweep" /\ job' = NoJob
         /\ UNCHANGED <<life, draft, ledger, entered, card, chat, inbox, batch, next>>
BY DEF OneReceipt, Sweep, poll

LEMMA OneUpdateStep ==
  ASSUME TypeInv, Alone, OneUpdate, OneReceipt, [Next]_vars PROVE OneUpdate'
<1>1. Len(inbox') <= 1
  BY OneAtATime DEF Alone, OneUpdate
<1>2. CASE HandlerStep
  BY <1>1, <1>2, AtOne DEF OneUpdate, Handling
<1>3. CASE User /\ ~UNCHANGED inbox
  BY <1>1, <1>3, Asked DEF OneUpdate, Handling
<1>4. CASE (User /\ UNCHANGED inbox) \/ UNCHANGED vars
  <2>1. UNCHANGED <<inbox, next, job>>
    BY <1>4 DEF User, SendPhoto, Void, Tap, Reply, poll, vars
  <2> QED
    BY <2>1 DEF OneUpdate, Handling, Advancing
<1>5. CASE ClaimUpdate
  <2>1. next = 1 /\ Update = inbox[1]
    BY <1>5, ClaimedOne
  <2> QED
    BY <1>1, <1>5, <2>1, Claimed DEF OneUpdate, Advancing
<1>6. CASE GetUpdates
  <2>1. next' = 1 /\ job'.stage = "idle"
    BY <1>6 DEF GetUpdates
  <2> QED
    BY <1>1, <2>1 DEF OneUpdate, Handling
<1>7. CASE Advance
  <2>1. Handling /\ Advancing
    BY <1>7 DEF Advance, Handling, Advancing
  <2>2. inbox[1].done
    BY <2>1 DEF OneUpdate
  <2> QED
    BY <1>1, <1>7, <2>2 DEF Advance, NoJob, OneUpdate, Handling
<1>8. CASE Crash \/ Boot \/ Sweep
  <2>1. Crash => next' = 1
    BY DEF Crash
  <2>2. ~Crash => UNCHANGED <<inbox, next>>
    BY <1>8, SweepAlone DEF Boot, poll
  <2>3. job'.stage \in {"idle", "down", "sweep"}
    BY <1>8, SweepAlone DEF Crash, Boot, NoJob
  <2> QED
    BY <1>1, <2>1, <2>2, <2>3 DEF OneUpdate, Handling
<1> QED
  BY <1>2, <1>3, <1>4, <1>5, <1>6, <1>7, <1>8 DEF Next, BotStep, HandlerStep
LEMMA OneMessageStep ==
  ASSUME TypeInv, Alone, OneUpdate, OneMessage, OneReceipt, [Next]_vars PROVE OneMessage'
<1>1. chat \in Seq(Card) /\ Len(chat) \in Nat
  BY Basics DEF TypeInv, QueueOK
<1>2. CASE SendReading
  <2>1. /\ Len(chat) = 0 /\ Handling' /\ job'.stage # "send" /\ Update.doc \in Receipts /\ job.stage = "send"
    BY <1>2, AtOne, Single DEF HandlerStep, OneMessage, SendReading
  <2>2. \/ UNCHANGED chat /\ Stage("complete")
        \/ \E look \in Card : chat' = Append(chat, look) /\ (look.face = "reading" \/ Stage("complete"))
    BY <1>2, <2>1, Drawn DEF SendReading, Face
  <2>3. Stage("complete") => job'.stage = "complete"
    BY DEF Stage, TypeInv, JobOK, Job
  <2>4. CASE UNCHANGED chat /\ Stage("complete")
    BY <2>1, <2>3, <2>4 DEF OneMessage
  <2>5. ASSUME NEW look \in Card, chat' = Append(chat, look), look.face = "reading" \/ Stage("complete")
        PROVE  OneMessage'
    <3>1. Len(chat') = 1 /\ chat'[1] = look
      BY <1>1, <2>1, <2>5, AppendProperties
    <3> QED
      BY <2>1, <2>3, <2>5, <3>1 DEF OneMessage
  <2> QED
    BY <2>2, <2>4, <2>5
<1>3. CASE HandlerStep /\ ~SendReading
  <2>1. Handling' /\ job'.stage # "send" /\ Handling
    BY <1>3, AtOne
  <2>2. Len(chat') = Len(chat)
    <3>1. CASE Render
      BY <1>1, <3>1 DEF Render
    <3>2. CASE ~Render
      BY <1>3, <3>2 DEF HandlerStep, CompleteUpdate, Ingest, ReadPhoto, Register, TapConfirm, TapDiscard,
         TapRetry, TapFails, TapUndo, AmendDraft, SettleAmend, EditExpense, NotACommand
    <3> QED
      BY <3>1, <3>2
  <2>3. job'.stage \in {"ingest", "read"} => chat'[1].face = "reading"
    <3>1. job \in Job(Len(chat))
      BY DEF TypeInv, JobOK
    <3>2. Ingest => UNCHANGED chat /\ job.stage = "ingest"
      BY DEF Ingest
    <3>3. CASE Ingest
      BY <3>2, <3>3 DEF OneMessage
    <3>4. CASE CompleteUpdate \/ ReadPhoto \/ Register
      BY <3>1, <3>4 DEF CompleteUpdate, ReadPhoto, Register, DrawOutcome, Draw, Stage, Job
    <3>5. CASE Render
      BY <3>1, <3>5 DEF Render, Stage, Job, TypeInv, JobOK
    <3>6. CASE TapConfirm \/ TapDiscard \/ TapRetry \/ TapFails \/ TapUndo
      <4>1. Stage("complete") \/ \E m, look, then : Draw(m, look, then)
        BY <3>6 DEF TapConfirm, TapDiscard, TapRetry, TapFails, TapUndo, DrawOutcome
      <4> QED
        BY <3>1, <4>1 DEF Draw, Stage, Job
    <3>7. CASE AmendDraft \/ SettleAmend \/ EditExpense \/ NotACommand
      <4>1. Stage("complete") \/ Stage("settle") \/ \E m, look, then : Draw(m, look, then)
        BY <3>7 DEF AmendDraft, SettleAmend, EditExpense, NotACommand
      <4> QED
        BY <3>1, <4>1 DEF Draw, Stage, Job
    <3> QED
      BY <1>3, <3>3, <3>4, <3>5, <3>6, <3>7 DEF HandlerStep
  <2> QED
    BY <2>1, <2>2, <2>3 DEF OneMessage
<1>4. CASE User /\ ~UNCHANGED inbox
  <2>1. job'.stage \notin {"send", "ingest", "read"} /\ UNCHANGED chat
        /\ (inbox'[1].kind # "photo" \/ Len(chat) = 0)
    BY <1>4, Asked DEF Handling, OneUpdate
  <2> QED
    BY <2>1 DEF OneMessage, Pending
<1>5. CASE (User /\ UNCHANGED inbox) \/ UNCHANGED vars
  <2>1. UNCHANGED <<inbox, chat, job>>
    BY <1>5 DEF User, SendPhoto, Void, Tap, Reply, poll, vars
  <2> QED
    BY <2>1 DEF OneMessage, Pending, Handling
<1>6. CASE ClaimUpdate
  <2>1. Update = inbox[1] /\ Len(inbox) = 1
    BY <1>6, ClaimedOne
  <2>2. ~Handling /\ Handling' /\ UNCHANGED <<chat, inbox>> /\ job'.stage \notin {"ingest", "read"}
        /\ (job'.stage = "send" => Pending("photo"))
    BY <1>6, <2>1, Claimed DEF Handling, Pending
  <2>3. ASSUME job'.stage = "send" PROVE Len(chat) = 0
    <3>1. Len(chat) # 1
      BY <2>2, <2>3 DEF OneMessage
    <3>2. Len(chat) \in Nat /\ Len(chat) <= 1
      BY <1>1 DEF OneMessage
    <3> QED
      BY <3>1, <3>2
  <2> QED
    BY <2>2, <2>3 DEF OneMessage, Pending
<1>7. CASE GetUpdates
  <2>1. UNCHANGED <<chat, job>> /\ job.stage = "idle"
    BY <1>7 DEF GetUpdates
  <2>2. Pending("photo")' => Pending("photo")
    BY <1>7, FetchedOne DEF Pending
  <2> QED
    BY <2>1, <2>2 DEF OneMessage, Handling
<1>8. CASE Advance
  <2>1. Handling /\ Advancing /\ UNCHANGED <<chat, inbox>> /\ job'.stage = "idle"
    BY <1>8 DEF Advance, NoJob, Handling, Advancing
  <2> QED
    BY <2>1 DEF OneMessage, OneUpdate, Pending
<1>9. CASE Crash \/ Boot \/ Sweep
  <2>1. UNCHANGED <<chat, inbox>> /\ job'.stage \notin {"send", "ingest", "read"}
    BY <1>9, SweepAlone DEF Crash, Boot, NoJob, poll
  <2>2. ~(Len(chat) = 1 /\ Pending("photo"))
    <3>1. CASE Crash
      BY <3>1, CrashAlone
    <3>2. CASE Boot \/ Sweep
      BY <3>2 DEF Boot, Sweep, OneMessage, Handling
    <3> QED
      BY <1>9, <3>1, <3>2
  <2> QED
    BY <2>1, <2>2 DEF OneMessage, Pending
<1> QED
  BY <1>2, <1>3, <1>4, <1>5, <1>6, <1>7, <1>8, <1>9 DEF Next, BotStep, HandlerStep

\* The one message, when it is about a receipt.
LEMMA OneCard ==
  ASSUME TypeInv, OneMessage, NEW m, NEW r, IsAbout(m, r) PROVE Len(chat) = 1 /\ m = 1 /\ chat[1].doc = r
<1> DEFINE n == Len(chat)
<1>1. m \in 1..n /\ n \in Nat /\ n <= 1 /\ chat[m].doc = r
  BY Basics DEF IsAbout, OneMessage
<1> HIDE DEF n
<1>2. m = 1 /\ n = 1
  BY <1>1
<1> QED
  BY <1>1, <1>2 DEF n

\* A handler leaves the other receipts alone.
LEMMA Touches ==
  ASSUME TypeInv, HandlerStep, Handling, NEW q \in Receipts, q # Update.doc
  PROVE  life'[q] = life[q] /\ draft'[q] = draft[q] /\ ledger'[q] = ledger[q] /\ card'[q] = card[q]
<1>1. /\ life \in [Receipts -> Status] /\ draft \in [Receipts -> Readings]
      /\ ledger \in [Receipts -> Drafts \cup {Nothing}] /\ card \in [Receipts -> Nat] /\ Update.doc \in Receipts
  BY AtHand DEF TypeInv, DataOK
<1>2. CASE CompleteUpdate \/ Render \/ SendReading \/ NotACommand \/ Register
  BY <1>1, <1>2 DEF CompleteUpdate, Render, SendReading, NotACommand, Register, database
<1>3. CASE Ingest \/ TapConfirm \/ TapDiscard
  BY <1>1, <1>3 DEF Ingest, TapConfirm, TapDiscard
<1>4. CASE TapFails \/ TapUndo \/ AmendDraft
  BY <1>1, <1>4 DEF TapFails, TapUndo, AmendDraft
<1>5. CASE SettleAmend \/ EditExpense
  BY <1>1, <1>5 DEF SettleAmend, EditExpense
<1>6. CASE ReadPhoto \/ TapRetry
  <2>1. Outcome(Update.doc) \/ UNCHANGED <<life, draft>>
    BY <1>6 DEF ReadPhoto, TapRetry
  <2>2. UNCHANGED <<ledger, card>>
    BY <1>6 DEF ReadPhoto, TapRetry
  <2>3. CASE Outcome(Update.doc)
    BY <1>1, <2>2, <2>3, Extracted
  <2> QED
    BY <2>1, <2>2, <2>3
<1> QED
  BY <1>2, <1>3, <1>4, <1>5, <1>6 DEF HandlerStep

\* What a handler makes of its receipt.
LEMMA OwnReceipt ==
  ASSUME TypeInv, Alone, OneUpdate, OneMessage, OneReceipt, HandlerStep
  PROVE  LET r == Update.doc IN
         /\ life'[r] # "absent" => Len(chat') = 1 /\ chat'[1].doc = r
         /\ life'[r] = "pending" => job'.stage = "read"
         /\ life'[r] \notin {"absent", "pending"} /\ ~Registering' => card'[r] = 1
         /\ ledger'[r] # Nothing => life'[r] = "confirmed"
         /\ job'.stage = "ingest" => life'[r] = "absent"
         /\ job'.stage = "read" => life'[r] = "pending"
         /\ job'.stage = "settle" => life'[r] \in {"awaiting_confirm", "failed"}
<1> DEFINE r == Update.doc
           Own == /\ life'[r] # "absent" => Len(chat') = 1 /\ chat'[1].doc = r
                  /\ life'[r] = "pending" => job'.stage = "read"
                  /\ life'[r] \notin {"absent", "pending"} /\ ~Registering' => card'[r] = 1
                  /\ ledger'[r] # Nothing => life'[r] = "confirmed"
                  /\ job'.stage = "ingest" => life'[r] = "absent"
                  /\ job'.stage = "read" => life'[r] = "pending"
                  /\ job'.stage = "settle" => life'[r] \in {"awaiting_confirm", "failed"}
<1> SUFFICES Own
  OBVIOUS
<1>1. /\ life \in [Receipts -> Status] /\ draft \in [Receipts -> Readings]
      /\ ledger \in [Receipts -> Drafts \cup {Nothing}] /\ card \in [Receipts -> Nat]
      /\ Handling /\ r \in Receipts /\ job \in Job(Len(chat))
  BY Going, AtHand DEF TypeInv, DataOK, JobOK, OneUpdate
<1>2. life[r] # "absent" => Len(chat) = 1 /\ chat[1].doc = r
  BY <1>1 DEF OneReceipt
<1>3. CASE Render
  <2>1. Len(chat') = Len(chat) /\ (Len(chat) = 1 => chat'[1].doc = chat[1].doc)
    BY <1>3, ChatDrawn, Basics DEF Render, ChatKept, TypeInv, QueueOK
  <2>2. UNCHANGED <<life, ledger, card>> /\ job.stage = "render" /\ job'.stage = job.then
        /\ job.then \in {"register", "complete", "advance"}
    BY <1>1, <1>3 DEF Render, Stage, Job, database, TypeInv, JobOK, OneUpdate
  <2> QED
    BY <1>1, <1>2, <2>1, <2>2 DEF OneReceipt, Registering
<1>4. CASE SendReading
  <2>1. UNCHANGED <<life, ledger, card>> /\ job.stage = "send" /\ Len(chat) = 0
    BY <1>4 DEF SendReading, database, OneMessage
  <2>2. life[r] = "absent" /\ ledger[r] = Nothing
    BY <1>1, <1>2, <2>1 DEF OneReceipt
  <2>3. job'.stage \in {"ingest", "complete"}
    BY <1>1, <1>4 DEF SendReading, Stage, Job
  <2> QED
    BY <2>1, <2>2, <2>3
<1>5. CASE Ingest
  <2>1. /\ job.stage = "ingest" /\ UNCHANGED <<ledger, card, chat>> /\ life[r] = "absent"
        /\ life' = [life EXCEPT ![r] = "pending"] /\ Stage("read")
    BY <1>5 DEF Ingest, OneReceipt
  <2>2. Len(chat) = 1 /\ chat[1].doc = r
    BY <2>1, OneCard DEF TypeInv, JobOK, OfPhoto
  <2> QED
    BY <1>1, <2>1, <2>2 DEF OneReceipt, Stage, Job
<1>6. CASE ReadPhoto
  <2>1. /\ job.stage = "read" /\ UNCHANGED <<ledger, card, chat>> /\ life[r] = "pending" /\ Outcome(r)
        /\ job'.stage = "render" /\ job'.then = "register"
    BY <1>6 DEF ReadPhoto, OneReceipt, DrawOutcome, Draw
  <2> QED
    BY <1>1, <1>2, <2>1, Extracted DEF OneReceipt, Registering
<1>7. CASE Register
  <2>1. job.stage = "register" /\ UNCHANGED <<life, ledger, chat>> /\ card' = [card EXCEPT ![r] = job.msg]
        /\ job'.stage = "complete"
    BY <1>1, <1>7 DEF Register, Stage, Job
  <2>2. job.msg = 1
    BY <2>1, OneCard DEF TypeInv, JobOK, OfPhoto
  <2> QED
    BY <1>1, <1>2, <2>1, <2>2 DEF OneReceipt
<1>8. ASSUME job.stage \in {"complete", "tap", "amend"}, UNCHANGED <<life, card, chat>>,
             ledger'[r] = ledger[r] \/ ledger'[r] = Nothing \/ ledger[r] # Nothing,
             job'.stage \in {"complete", "advance"} \/ (job'.stage = "render" /\ job'.then # "register")
      PROVE  Own
  BY <1>1, <1>2, <1>8 DEF OneReceipt, Registering
<1>9. CASE CompleteUpdate \/ NotACommand
  BY <1>1, <1>8, <1>9 DEF CompleteUpdate, NotACommand, Stage, Job, database
<1>10. ASSUME job.stage = "tap", UNCHANGED <<card, chat>>, life[r] # "absent",
              life'[r] \in {"awaiting_confirm", "failed", "discarded", "confirmed"},
              ledger'[r] # Nothing => life'[r] = "confirmed",
              job'.stage = "render"
       PROVE  Own
  BY <1>1, <1>2, <1>10 DEF OneReceipt, Registering
<1>11. CASE TapConfirm
  <2>1. job.stage = "tap" /\ UNCHANGED <<card, chat>> /\ job'.stage = "render" /\ job'.then # "register"
    BY <1>11 DEF TapConfirm, Draw
  <2>2. CASE UNCHANGED <<life, ledger>>
    BY <1>8, <2>1, <2>2
  <2>3. CASE life[r] = "awaiting_confirm" /\ life' = [life EXCEPT ![r] = "confirmed"]
    BY <1>1, <1>10, <2>1, <2>3
  <2> QED
    BY <1>11, <2>2, <2>3 DEF TapConfirm
<1>12. CASE TapDiscard
  <2>1. /\ job.stage = "tap" /\ UNCHANGED <<ledger, card, chat>> /\ job'.stage = "render"
        /\ job'.then # "register"
    BY <1>12 DEF TapDiscard, Draw
  <2>2. CASE UNCHANGED life
    BY <1>8, <2>1, <2>2
  <2>3. CASE life[r] \in {"awaiting_confirm", "failed"} /\ life' = [life EXCEPT ![r] = "discarded"]
    BY <1>1, <1>10, <2>1, <2>3 DEF OneReceipt
  <2> QED
    BY <1>12, <2>2, <2>3 DEF TapDiscard
<1>13. CASE TapRetry
  <2>1. /\ job.stage = "tap" /\ UNCHANGED <<ledger, card, chat>> /\ job'.stage = "render"
        /\ job'.then # "register"
    BY <1>13 DEF TapRetry, DrawOutcome, Draw
  <2>2. CASE UNCHANGED life
    BY <1>8, <2>1, <2>2
  <2>3. CASE Reprocessable(r) /\ Outcome(r)
    BY <1>1, <1>10, <2>1, <2>3, Extracted DEF Reprocessable, OneReceipt
  <2> QED
    BY <1>13, <2>2, <2>3 DEF TapRetry
<1>14. CASE TapFails
  BY <1>1, <1>8, <1>14 DEF TapFails, Stage, Job
<1>15. CASE TapUndo
  <2>1. /\ job.stage = "tap" /\ UNCHANGED <<life, card, chat>>
        /\ ledger'[r] = ledger[r] \/ ledger'[r] = Nothing
        /\ Stage("complete") \/ \E m, look : Draw(m, look, "complete")
    BY <1>1, <1>15 DEF TapUndo
  <2> QED
    BY <1>1, <1>8, <2>1 DEF Stage, Draw, Job
<1>16. CASE AmendDraft
  <2>1. job.stage = "amend" /\ UNCHANGED <<life, ledger, card, chat>>
    BY <1>16 DEF AmendDraft
  <2>2. CASE life[r] \in {"awaiting_confirm", "failed"} /\ Stage("settle")
    <3>1. job'.stage = "settle"
      BY <1>1, <2>2 DEF Stage, Job
    <3> QED
      BY <1>1, <1>2, <2>1, <2>2, <3>1 DEF OneReceipt, Registering
  <2>3. CASE Stage("complete")
    BY <1>1, <1>8, <2>1, <2>3 DEF Stage, Job
  <2> QED
    BY <1>16, <2>2, <2>3 DEF AmendDraft
<1>17. CASE SettleAmend
  <2>1. /\ job.stage = "settle" /\ UNCHANGED <<ledger, card, chat>> /\ job'.stage = "render"
        /\ life' = [life EXCEPT ![r] = ResultStatus(draft[r])]
        /\ life[r] \in {"awaiting_confirm", "failed"}
    BY <1>17 DEF SettleAmend, Draw, OneReceipt
  <2>2. life'[r] \in {"awaiting_confirm", "failed"}
    BY <1>1, <2>1 DEF ResultStatus
  <2> QED
    BY <1>1, <1>2, <2>1, <2>2 DEF OneReceipt, Registering
<1>18. CASE EditExpense
  <2>1. /\ job.stage = "amend" /\ UNCHANGED <<life, card, chat>>
        /\ ledger'[r] = ledger[r] \/ ledger[r] # Nothing
        /\ Stage("complete") \/ \E m, look : Draw(m, look, "complete")
    BY <1>18 DEF EditExpense
  <2> QED
    BY <1>1, <1>8, <2>1 DEF Stage, Draw, Job
<1> QED
  BY <1>3, <1>4, <1>5, <1>6, <1>7, <1>9, <1>11, <1>12, <1>13, <1>14, <1>15, <1>16, <1>17, <1>18
  DEF HandlerStep
LEMMA OneReceiptStep ==
  ASSUME TypeInv, Alone, OneUpdate, OneMessage, OneMessage', OneReceipt, [Next]_vars
  PROVE  OneReceipt'
<1>1. CASE HandlerStep
  <2> DEFINE r == Update.doc
  <2>1. Handling /\ r \in Receipts /\ Update'.doc = r /\ Update' = inbox'[1]
    BY <1>1, AtOne, AtHand
  <2>2. ASSUME NEW q \in Receipts, q # r
        PROVE  /\ life'[q] = life[q] /\ ledger'[q] = ledger[q] /\ card'[q] = card[q]
               /\ life'[q] # "absent" => Len(chat) = 1 /\ chat[1].doc = q
    BY <1>1, <2>1, <2>2, Touches DEF OneReceipt
  <2>3. Len(chat) = 1 => Len(chat') = 1 /\ chat'[1].doc = chat[1].doc
    <3>1. ChatKept
      <4>1. CASE Render
        BY <4>1, ChatDrawn
      <4>2. CASE SendReading
        BY <2>1, <4>2, ChatSame, ChatSent, Drawn DEF SendReading
      <4>3. CASE ~Render /\ ~SendReading
        BY <1>1, <4>3, ChatSame DEF HandlerStep, CompleteUpdate, Ingest, ReadPhoto, Register, TapConfirm,
           TapDiscard, TapRetry, TapFails, TapUndo, AmendDraft, SettleAmend, EditExpense, NotACommand
      <4> QED
        BY <4>1, <4>2, <4>3
    <3> DEFINE n == Len(chat')
    <3>2. Len(chat) = 1 => n \in Nat /\ n >= 1 /\ n <= 1
      BY <3>1 DEF ChatKept, OneMessage
    <3> HIDE DEF n
    <3>3. Len(chat) = 1 => n = 1
      BY <3>2
    <3> QED
      BY <3>1, <3>3 DEF ChatKept, n
  <2>4. ASSUME NEW q \in Receipts, q # r, Len(chat) = 1, chat[1].doc = q
        PROVE  job.stage \notin {"ingest", "read", "register"} /\ ~Registering
    <3>1. OfPhoto /\ job.stage # "send" => chat[1].doc = r
      BY <2>1, OneCard DEF TypeInv, JobOK
    <3> QED
      BY <2>4, <3>1 DEF OfPhoto, Registering
  <2>5. ASSUME NEW q \in Receipts
        PROVE  /\ life'[q] # "absent" => Len(chat') = 1 /\ chat'[1].doc = q
               /\ life'[q] = "pending" => job'.stage = "read"
               /\ life'[q] \notin {"absent", "pending"} /\ ~Registering' => card'[q] = 1
               /\ ledger'[q] # Nothing => life'[q] = "confirmed"
    <3>1. CASE q = r
      BY <1>1, <3>1, OwnReceipt
    <3>2. CASE q # r
      BY <2>2, <2>3, <2>4, <3>2 DEF OneReceipt
    <3> QED
      BY <3>1, <3>2
  <2>6. /\ job'.stage = "ingest" => life'[r] = "absent"
        /\ job'.stage = "read" => life'[r] = "pending"
        /\ job'.stage = "settle" => life'[r] \in {"awaiting_confirm", "failed"}
    BY <1>1, OwnReceipt
  <2> QED
    BY <2>1, <2>5, <2>6 DEF OneReceipt
<1>2. CASE User
  <2>1. UNCHANGED <<life, card, chat, job>>
    BY <1>2 DEF User, SendPhoto, Void, Tap, Reply, database
  <2>2. \A r \in Receipts : ledger'[r] # Nothing => ledger[r] # Nothing
    <3>1. UNCHANGED ledger \/ \E q \in Receipts : ledger' = [ledger EXCEPT ![q] = Nothing]
      BY <1>2 DEF User, SendPhoto, Void, Tap, Reply, database
    <3> QED
      BY <3>1 DEF TypeInv, DataOK
  <2>3. job.stage \in {"ingest", "read", "settle"} => Update' = Update
    BY <1>2, Single DEF Handling, Update
  <2> QED
    BY <2>1, <2>2, <2>3 DEF OneReceipt, Registering
<1>3. CASE ClaimUpdate \/ GetUpdates \/ Advance \/ Crash \/ Boot \/ Sweep \/ UNCHANGED vars
  <2>1. UNCHANGED <<life, card, ledger, chat>>
    BY <1>3, SweepAlone, Claimed DEF GetUpdates, Advance, Crash, Boot, database, vars
  <2>2. CASE UNCHANGED vars
    BY <2>2 DEF vars, OneReceipt, Registering, Update
  <2>3. CASE ~UNCHANGED vars
    <3>1. job.stage \notin {"read", "register"} /\ job'.stage \notin {"ingest", "read", "settle", "register"}
          /\ ~(job.stage = "render" /\ job.then = "register")
      <4>1. ClaimUpdate => job.stage = "idle" /\ job'.stage \in {"advance", "send", "tap", "amend"}
        BY Claimed
      <4>2. GetUpdates \/ Advance => job.stage \in {"idle", "advance"} /\ job'.stage = "idle"
        BY DEF GetUpdates, Advance, NoJob
      <4>3. Boot \/ Sweep => job.stage \in {"down", "sweep"} /\ job'.stage \in {"sweep", "idle"}
        BY SweepAlone DEF Boot, NoJob
      <4>4. Crash => ~OfPhoto \/ job.stage = "send"
        <5>1. ASSUME Crash, OfPhoto, job.stage # "send" PROVE FALSE
          <6>1. Handling /\ ~Advancing /\ Update.kind = "photo" /\ Len(chat) = 1
            BY <5>1, OneCard DEF Handling, Advancing, OfPhoto, TypeInv, JobOK
          <6>2. Pending("photo")
            BY <6>1, Single DEF Pending, OneUpdate
          <6> QED
            BY <5>1, <6>1, <6>2, CrashAlone
        <5> QED
          BY <5>1
      <4>5. Crash => job'.stage = "down"
        BY DEF Crash, NoJob
      <4> QED
        BY <1>3, <2>3, <4>1, <4>2, <4>3, <4>4, <4>5 DEF OfPhoto
    <3> QED
      BY <2>1, <3>1 DEF OneReceipt, Registering
  <2> QED
    BY <2>2, <2>3
<1> QED
  BY <1>1, <1>2, <1>3 DEF Next, BotStep, HandlerStep

\* A user changes nothing but the queue and, by `finbox void`, the totals.
LEMMA UserTouches ==
  ASSUME TypeInv, User
  PROVE  /\ UNCHANGED <<life, draft, card, chat, job>>
         /\ \A r \in Receipts : ledger'[r] = ledger[r] \/ ledger'[r] = Nothing
<1>1. UNCHANGED <<life, draft, card, chat, job>>
  BY DEF User, SendPhoto, Void, Tap, Reply, database
<1>2. UNCHANGED ledger \/ \E q \in Receipts : ledger' = [ledger EXCEPT ![q] = Nothing]
  BY DEF User, SendPhoto, Void, Tap, Reply, database
<1> QED
  BY <1>1, <1>2 DEF TypeInv, DataOK

\* The steps that neither the user nor a handler takes.
PollStep == ClaimUpdate \/ GetUpdates \/ Advance \/ Crash \/ Boot \/ Sweep \/ UNCHANGED vars

LEMMA PollTouches ==
  ASSUME TypeInv, OneReceipt, PollStep
  PROVE  /\ UNCHANGED <<life, draft, ledger, entered, card, chat>>
         /\ job'.stage \in {"render", "complete"} => UNCHANGED <<inbox, next, job>>
<1>1. UNCHANGED <<life, draft, ledger, entered, card, chat>>
  BY SweepAlone, Claimed DEF PollStep, GetUpdates, Advance, Crash, Boot, database, vars
<1>2. ClaimUpdate => job'.stage \in {"advance", "send", "tap", "amend"}
  BY Claimed
<1>3. Sweep \/ Advance \/ Crash \/ Boot \/ GetUpdates => job'.stage \in {"idle", "down", "sweep"}
  BY SweepAlone DEF Advance, Crash, Boot, GetUpdates, NoJob
<1> QED
  BY <1>1, <1>2, <1>3 DEF PollStep, vars

LEMMA LookStep ==
  ASSUME TypeInv, Alone, OneUpdate, OneMessage, OneReceipt, LookTrue, [Next]_vars
  PROVE  LookTrue'
<1>1. CASE User
  <2>1. job.stage = "render" => job.look.doc \in Receipts
    BY DEF TypeInv, JobOK, Card
  <2> QED
    BY <1>1, <2>1, UserTouches DEF LookTrue
<1>2. CASE PollStep
  BY <1>2, PollTouches DEF LookTrue
<1>3. CASE HandlerStep
  <2> DEFINE r == Update.doc
  <2>1. /\ life \in [Receipts -> Status] /\ draft \in [Receipts -> Readings]
        /\ ledger \in [Receipts -> Drafts \cup {Nothing}] /\ Handling /\ r \in Receipts /\ job \in Job(Len(chat))
    BY <1>3, AtOne, AtHand DEF TypeInv, DataOK, JobOK
  <2>2. ASSUME NEW m, NEW look, NEW then, Draw(m, look, then), look.doc = r,
               look.face = "draft" => life'[r] = "awaiting_confirm" /\ look.shown = draft'[r],
               look.face = "saved" => look.shown = ledger'[r]
        PROVE  LookTrue'
    BY <2>2 DEF LookTrue, Draw
  <2>3. ASSUME NEW look \in {FailedCard(r), CorruptCard(r), DiscardedCard(r), UndoneCard(r), Notice(r)}
        PROVE  look.doc = r /\ look.face \notin {"draft", "saved"}
    BY <2>3 DEF FailedCard, CorruptCard, DiscardedCard, UndoneCard, Notice, Face
  <2>4. ASSUME Outcome(r), NEW m, NEW then, DrawOutcome(r, m, then) PROVE LookTrue'
    <3>1. job' = [stage |-> "render", msg |-> m, then |-> then, look |-> OutcomeCard(r)]
      BY <2>4 DEF DrawOutcome, Draw, OutcomeCard
    <3>2. /\ OutcomeCard(r).doc = r /\ OutcomeCard(r).face # "saved"
          /\ OutcomeCard(r).face = "draft" =>
               life'[r] = "awaiting_confirm" /\ OutcomeCard(r).shown = draft'[r]
      BY <2>1, <2>4, Extracted DEF OutcomeCard, FailedCard, DraftCard, Face
    <3> QED
      BY <3>1, <3>2 DEF LookTrue
  <2>5. CASE Render
    <3>1. job'.stage # "render"
      BY <2>1, <2>5 DEF Render, Stage, Job, TypeInv, JobOK
    <3> QED
      BY <3>1 DEF LookTrue
  <2>6. CASE Ingest
    <3>1. Stage("read")
      BY <2>6 DEF Ingest, OneReceipt
    <3> QED
      BY <2>1, <3>1 DEF LookTrue, Stage, Job
  <2>7. CASE CompleteUpdate \/ SendReading \/ Register \/ TapFails \/ AmendDraft \/ NotACommand
    <3>1. job'.stage # "render"
      BY <2>1, <2>7 DEF CompleteUpdate, SendReading, Register, TapFails, AmendDraft, NotACommand, Stage, Job
    <3> QED
      BY <3>1 DEF LookTrue
  <2>8. CASE ReadPhoto
    BY <2>4, <2>8 DEF ReadPhoto
  <2>9. CASE TapConfirm
    <3>1. CASE \E m : \E look \in {Notice(r), CorruptCard(r), FailedCard(r)} : Draw(m, look, "complete")
      BY <2>2, <2>3, <3>1
    <3>2. CASE ledger' = [ledger EXCEPT ![r] = draft[r]] /\ \E m : Draw(m, SavedCard(r, draft[r]), "advance")
      <4>1. /\ SavedCard(r, draft[r]).doc = r /\ SavedCard(r, draft[r]).shown = ledger'[r]
            /\ SavedCard(r, draft[r]).face = "saved"
        BY <2>1, <3>2 DEF SavedCard, Face
      <4> QED
        BY <2>2, <3>2, <4>1
    <3> QED
      BY <2>9, <3>1, <3>2 DEF TapConfirm
  <2>10. CASE TapDiscard
    <3>1. \E m : Draw(m, DiscardedCard(r), "advance") \/ Draw(m, Notice(r), "advance")
      BY <2>10 DEF TapDiscard
    <3> QED
      BY <2>2, <2>3, <3>1
  <2>11. CASE TapRetry
    <3>1. \/ \E m : Outcome(r) /\ DrawOutcome(r, m, "complete")
          \/ \E m : Draw(m, Notice(r), "complete")
      BY <2>11 DEF TapRetry
    <3> QED
      BY <2>2, <2>3, <2>4, <3>1
  <2>12. CASE TapUndo
    <3>1. CASE Stage("complete")
      BY <2>1, <3>1 DEF LookTrue, Stage, Job
    <3>2. CASE \E m : Draw(m, UndoneCard(r), "complete")
      BY <2>2, <2>3, <3>2
    <3> QED
      BY <2>12, <3>1, <3>2 DEF TapUndo
  <2>13. CASE SettleAmend
    <3>1. /\ Draw(card[r], ResultCard(r, draft[r]), "complete") /\ UNCHANGED draft
          /\ life' = [life EXCEPT ![r] = ResultStatus(draft[r])]
      BY <2>13 DEF SettleAmend
    <3>2. /\ ResultCard(r, draft[r]).doc = r /\ ResultCard(r, draft[r]).face # "saved"
          /\ ResultCard(r, draft[r]).face = "draft" =>
               life'[r] = "awaiting_confirm" /\ ResultCard(r, draft[r]).shown = draft[r]
      BY <2>1, <3>1 DEF ResultCard, ResultStatus, FailedCard, DraftCard, Face
    <3> QED
      BY <2>2, <3>1, <3>2
  <2>14. CASE EditExpense
    <3> DEFINE look == IF IsRegistered(Update) THEN SavedCard(r, Update.what) ELSE UndoableCard(r, Update.what)
    <3>1. CASE Stage("complete")
      BY <2>1, <3>1 DEF LookTrue, Stage, Job
    <3>2. CASE ledger' = [ledger EXCEPT ![r] = Update.what] /\ Draw(Update.msg, look, "complete")
      <4>1. look.doc = r /\ look.face = "saved" /\ look.shown = ledger'[r]
        BY <2>1, <3>2 DEF SavedCard, UndoableCard, Face
      <4> HIDE DEF look
      <4> QED
        BY <2>2, <3>2, <4>1
    <3> QED
      BY <2>14, <3>1, <3>2 DEF EditExpense
  <2> QED
    BY <1>3, <2>5, <2>6, <2>7, <2>8, <2>9, <2>10, <2>11, <2>12, <2>13, <2>14 DEF HandlerStep
<1> QED
  BY <1>1, <1>2, <1>3 DEF Next, BotStep, HandlerStep, PollStep
Truth == DraftTrue /\ SavedTrue /\ TapTrue

\* The poll, a crash and a restart leave in the queue what is to be completed.
LEMMA PollPending ==
  ASSUME TypeInv, OneUpdate, OneReceipt, PollStep, NEW kind
  PROVE  (Pending(kind)' <=> Pending(kind)) /\ (Pending(kind) => inbox'[1] = inbox[1])
<1>1. CASE GetUpdates
  <2>1. Len(inbox') = 1 => Len(inbox) = 1 /\ inbox'[1] = inbox[1]
    BY <1>1, FetchedOne
  <2>2. ASSUME Pending(kind) PROVE Len(inbox') = 1
    <3>1. Len(inbox) = 1 /\ next = 1
      <4>1. next \in 1..Len(inbox) + 1 /\ ~(next > 1) /\ Len(inbox) = 1
        BY <1>1, <2>2, Fetched DEF Pending, OneUpdate
      <4> QED
        BY <4>1
    <3> QED
      BY <1>1, <3>1, Fetched
  <2> QED
    BY <2>1, <2>2 DEF Pending
<1>2. CASE ~GetUpdates
  <2>1. UNCHANGED inbox
    BY <1>2, Claimed, SweepAlone DEF PollStep, Advance, Crash, Boot, poll, vars
  <2> QED
    BY <2>1 DEF Pending
<1> QED
  BY <1>1, <1>2

LEMMA PollTruth ==
  ASSUME TypeInv, Alone, OneUpdate, OneReceipt, Truth, PollStep PROVE Truth'
<1>1. UNCHANGED <<life, draft, ledger, chat>>
      /\ (job'.stage \in {"render", "complete"} => UNCHANGED <<inbox, next, job>>)
  BY PollTouches
<1>2. ASSUME Correcting PROVE Correcting' /\ inbox'[1] = inbox[1]
  BY <1>1, <1>2, PollPending DEF Correcting
<1>3. DraftTrue' /\ SavedTrue'
  BY <1>1, <1>2 DEF Truth, DraftTrue, SavedTrue
<1>4. TapTrue'
  BY <1>1, PollPending DEF Truth, TapTrue
<1> QED
  BY <1>3, <1>4 DEF Truth

LEMMA UserTruth ==
  ASSUME TypeInv, ButtonsOK, Alone, OneUpdate, OneMessage, Truth, User PROVE Truth'
<1>1. /\ UNCHANGED <<life, draft, chat, job>>
      /\ \A r \in Receipts : ledger'[r] = ledger[r] \/ ledger'[r] = Nothing
  BY UserTouches
<1>2. Len(chat) = 1 => chat[1] \in Card /\ Proper(chat[1]) /\ chat[1].doc \in Receipts
  BY Basics DEF ButtonsOK, Card
<1>3. CASE UNCHANGED inbox
  BY <1>1, <1>2, <1>3 DEF Truth, DraftTrue, SavedTrue, TapTrue, Correcting, Pending
<1>4. CASE ~UNCHANGED inbox
  <2>1. /\ Len(inbox) = 0 /\ job.stage # "render"
        /\ \/ inbox'[1].kind \in {"photo", "reply"}
           \/ \E m \in 1..Len(chat) : /\ inbox'[1].what \in chat[m].buttons
                                      /\ inbox'[1].seen = chat[m] /\ inbox'[1].doc = chat[m].doc
    BY <1>4, Asked DEF Handling, OneUpdate
  <2>2. ~Correcting
    BY <2>1 DEF Correcting, Pending
  <2>3. DraftTrue' /\ SavedTrue'
    BY <1>1, <1>2, <2>2 DEF Truth, DraftTrue, SavedTrue
  <2>4. TapTrue'
    <3>1. CASE inbox'[1].kind \in {"photo", "reply"}
      BY <3>1 DEF TapTrue, Pending
    <3>2. ASSUME NEW m \in 1..Len(chat), inbox'[1].what \in chat[m].buttons,
                 inbox'[1].seen = chat[m], inbox'[1].doc = chat[m].doc
          PROVE  TapTrue'
      <4>1. Len(chat) = 1 /\ m = 1
        BY OneCard DEF IsAbout
      <4>2. /\ inbox'[1].what = "confirm" => chat[1].face = "draft"
            /\ inbox'[1].what = "retry" => chat[1].face # "draft"
        BY <1>2, <3>2, <4>1 DEF Proper, Card, Faces
      <4>3. chat[1].face = "draft" /\ life[chat[1].doc] = "awaiting_confirm" =>
              chat[1].shown = draft[chat[1].doc]
        BY <2>2, <4>1 DEF Truth, DraftTrue
      <4> QED
        BY <1>1, <2>1, <3>2, <4>1, <4>2, <4>3 DEF TapTrue
    <3> QED
      BY <2>1, <3>1, <3>2
  <2> QED
    BY <2>3, <2>4 DEF Truth
<1> QED
  BY <1>3, <1>4

\* What the handlers of photos, and the draws, leave true.
LEMMA DrawnTruth ==
  ASSUME TypeInv, Alone, OneUpdate, OneMessage, OneReceipt, LookTrue, Truth,
         Render \/ SendReading \/ Ingest \/ ReadPhoto \/ Register \/ CompleteUpdate
  PROVE  Truth'
<1>1. /\ HandlerStep /\ Handling /\ Update = inbox[1] /\ inbox[1].doc \in Receipts /\ job \in Job(Len(chat))
      /\ \A kind : Pending(kind)' => Pending(kind) /\ UNCHANGED inbox
  BY AtOne, AtHand DEF HandlerStep, Pending, TypeInv, JobOK
<1>2. CASE Render
  <2>1. /\ job.stage = "render" /\ IsAbout(job.msg, job.look.doc) /\ job.look \in Card
        /\ job.look.doc = inbox[1].doc /\ job'.stage # "render" /\ chat' = [chat EXCEPT ![job.msg] = job.look]
        /\ UNCHANGED <<life, draft, ledger>>
    BY <1>1, <1>2 DEF Render, Alone, Stage, Job, TypeInv, JobOK, database
  <2>2. chat'[1] = job.look
    BY <2>1, OneCard, Basics
  <2>3. DraftTrue' /\ SavedTrue'
    BY <2>1, <2>2 DEF LookTrue, DraftTrue, SavedTrue
  <2>4. TapTrue'
    BY <1>1, <2>1, <2>2 DEF LookTrue, Truth, TapTrue
  <2> QED
    BY <2>3, <2>4 DEF Truth
<1>3. CASE SendReading
  <2>1. job.stage = "send" /\ Len(chat) = 0 /\ Update.kind = "photo"
    BY <1>3 DEF SendReading, OneMessage, TypeInv, JobOK, OfPhoto
  <2>2. TapTrue'
    BY <1>1, <2>1 DEF TapTrue, Pending
  <2>3. UNCHANGED chat \/ \E look \in Card : chat' = Append(chat, look) /\ look.face \notin {"draft", "saved"}
    BY <1>1, <1>3, Drawn DEF SendReading, Notice, Face
  <2>4. UNCHANGED chat \/ chat'[1].face \notin {"draft", "saved"}
    BY <2>1, <2>3, AppendProperties DEF TypeInv, QueueOK
  <2> QED
    BY <2>1, <2>2, <2>4 DEF Truth, DraftTrue, SavedTrue
<1>4. CASE Ingest \/ ReadPhoto
  <2>1. UNCHANGED chat /\ chat[1].face = "reading" /\ Update.kind = "photo"
    BY <1>4 DEF Ingest, ReadPhoto, OneMessage, TypeInv, JobOK, OfPhoto
  <2>2. TapTrue'
    BY <1>1, <2>1 DEF TapTrue, Pending
  <2> QED
    BY <2>1, <2>2 DEF Truth, DraftTrue, SavedTrue
<1>5. CASE Register \/ CompleteUpdate
  <2>1. UNCHANGED <<life, draft, ledger, chat>> /\ ~Correcting
    BY <1>1, <1>5 DEF Register, CompleteUpdate, database, TypeInv, JobOK, OfPhoto, Correcting, Pending
  <2>2. job'.stage # "render"
    BY <1>1, <1>5 DEF Register, CompleteUpdate, Stage, Job
  <2> QED
    BY <1>1, <2>1, <2>2 DEF Truth, DraftTrue, SavedTrue, TapTrue
<1> QED
  BY <1>2, <1>3, <1>4, <1>5

\* What the handlers of taps leave true.
LEMMA TapTruth ==
  ASSUME TypeInv, Alone, OneUpdate, OneMessage, OneReceipt, Truth,
         TapConfirm \/ TapDiscard \/ TapRetry \/ TapFails \/ TapUndo
  PROVE  Truth'
<1> DEFINE r == inbox[1].doc
<1>1. /\ HandlerStep /\ Handling /\ Update = inbox[1] /\ r \in Receipts /\ job.stage = "tap" /\ UNCHANGED chat
      /\ \A kind : Pending(kind)' => Pending(kind) /\ UNCHANGED inbox
  BY AtOne, AtHand DEF HandlerStep, Pending, TapConfirm, TapDiscard, TapRetry, TapFails, TapUndo
<1>2. Pending("tap") /\ Len(chat) = 1 /\ chat[1].doc = r
  <2>1. Update.kind = "tap" /\ Len(inbox) = 1 /\ ~inbox[1].done
    BY <1>1, AtOne DEF TypeInv, JobOK, OneUpdate, Advancing
  <2> QED
    BY <1>1, <2>1, AtHand, OneCard DEF Pending
<1>3. /\ life \in [Receipts -> Status] /\ draft \in [Receipts -> Readings]
      /\ ledger \in [Receipts -> Drafts \cup {Nothing}] /\ job \in Job(Len(chat)) /\ ~Correcting
  BY <1>2 DEF TypeInv, DataOK, JobOK, Correcting, Pending
<1>4. /\ chat[1].face = "draft" /\ life[r] = "awaiting_confirm" => chat[1].shown = draft[r]
      /\ chat[1].face = "saved" /\ ledger[r] # Nothing => chat[1].shown = ledger[r]
  BY <1>2, <1>3 DEF Truth, DraftTrue, SavedTrue
<1>5. ASSUME /\ chat[1].face = "draft" /\ life'[r] = "awaiting_confirm" => life'[r] = life[r] /\ draft'[r] = draft[r]
             /\ chat[1].face = "saved" /\ ledger'[r] # Nothing => ledger'[r] = ledger[r]
      PROVE  DraftTrue' /\ SavedTrue'
  BY <1>1, <1>2, <1>4, <1>5 DEF DraftTrue, SavedTrue
<1>6. CASE TapConfirm
  <2>1. Update.what = "confirm" /\ UNCHANGED draft
    BY <1>6 DEF TapConfirm
  <2>2. CASE /\ life' = [life EXCEPT ![r] = "confirmed"] /\ Completed
    <3>1. inbox'[1].done
      BY <1>1, <2>2, AtHand, Basics, Single DEF Completed, Entry
    <3>2. chat[1].face # "saved" /\ life'[r] = "confirmed"
      BY <1>1, <1>2, <1>3, <2>1, <2>2 DEF Truth, TapTrue
    <3> QED
      BY <1>5, <3>1, <3>2 DEF Truth, TapTrue, Pending
  <2>3. CASE /\ UNCHANGED <<life, ledger>>
             /\ \E m : \E look \in {Notice(r), CorruptCard(r), FailedCard(r)} : Draw(m, look, "complete")
    <3>1. job'.look.face # "saved"
      BY <2>3 DEF Draw, Notice, CorruptCard, FailedCard, Face
    <3>2. DraftTrue' /\ SavedTrue'
      BY <1>5, <2>1, <2>3
    <3>3. TapTrue'
      BY <1>1, <2>1, <2>3, <3>1 DEF Truth, TapTrue
    <3> QED
      BY <3>2, <3>3 DEF Truth
  <2> QED
    BY <1>1, <1>6, <2>2, <2>3 DEF TapConfirm
<1>7. CASE TapDiscard
  <2>1. /\ Completed /\ UNCHANGED <<draft, ledger>>
        /\ life' = [life EXCEPT ![r] = "discarded"] \/ UNCHANGED life
    BY <1>1, <1>7 DEF TapDiscard
  <2>2. inbox'[1].done
    BY <1>1, <2>1, AtHand, Basics, Single DEF Completed, Entry
  <2>3. DraftTrue' /\ SavedTrue'
    BY <1>1, <1>3, <1>5, <2>1
  <2> QED
    BY <2>2, <2>3 DEF Truth, TapTrue, Pending
<1>8. CASE TapRetry
  <2>1. Update.what = "retry" /\ UNCHANGED ledger
    BY <1>8 DEF TapRetry
  <2>2. CASE UNCHANGED <<life, draft>>
    BY <1>1, <1>5, <2>1, <2>2 DEF Truth, TapTrue
  <2>3. CASE Reprocessable(r)
    <3>1. chat[1].face # "draft"
      BY <1>1, <1>2, <2>1, <2>3 DEF Truth, TapTrue, Reprocessable
    <3> QED
      BY <1>1, <1>5, <2>1, <3>1 DEF Truth, TapTrue
  <2> QED
    BY <1>1, <1>8, <2>2, <2>3 DEF TapRetry
<1>9. CASE TapFails
  <2>1. UNCHANGED <<life, ledger>> /\ job'.stage = "complete"
    BY <1>3, <1>9 DEF TapFails, Stage, Job
  <2>2. CASE UNCHANGED draft
    BY <1>1, <1>5, <2>1, <2>2 DEF Truth, TapTrue
  <2>3. CASE Update.what = "retry" /\ Reprocessable(r)
    <3>1. life[r] # "awaiting_confirm"
      BY <2>3 DEF Reprocessable
    <3>2. DraftTrue' /\ SavedTrue'
      BY <1>5, <2>1, <3>1
    <3>3. TapTrue'
      BY <1>1, <2>1, <2>3 DEF Truth, TapTrue
    <3> QED
      BY <3>2, <3>3 DEF Truth
  <2> QED
    BY <1>1, <1>9, <2>2, <2>3 DEF TapFails
<1>10. CASE TapUndo
  <2>1. /\ Update.what = "undo" /\ UNCHANGED <<life, draft>>
        /\ ledger' = [ledger EXCEPT ![r] = Nothing] \/ UNCHANGED ledger
    BY <1>1, <1>10 DEF TapUndo
  <2>2. DraftTrue' /\ SavedTrue'
    BY <1>1, <1>3, <1>5, <2>1
  <2>3. TapTrue'
    BY <1>1, <2>1 DEF TapTrue
  <2> QED
    BY <2>2, <2>3 DEF Truth
<1> QED
  BY <1>6, <1>7, <1>8, <1>9, <1>10

\* What the handlers of replies leave true.
LEMMA ReplyTruth ==
  ASSUME TypeInv, Alone, OneUpdate, OneMessage, OneReceipt, Truth,
         AmendDraft \/ SettleAmend \/ EditExpense \/ NotACommand
  PROVE  Truth'
<1> DEFINE r == inbox[1].doc
<1>1. /\ HandlerStep /\ Handling /\ Update = inbox[1] /\ r \in Receipts /\ UNCHANGED chat
      /\ job.stage \in {"amend", "settle"}
      /\ \A kind : Pending(kind)' => Pending(kind) /\ UNCHANGED inbox
  BY AtOne, AtHand DEF HandlerStep, Pending, AmendDraft, SettleAmend, EditExpense, NotACommand
<1>2. Pending("reply") /\ UNCHANGED inbox /\ Update.msg = 1 /\ Len(chat) = 1 /\ chat[1].doc = r
  <2>1. Update.kind = "reply" /\ Len(inbox) = 1 /\ ~inbox[1].done
    BY <1>1, AtOne DEF TypeInv, JobOK, OneUpdate, Advancing
  <2>2. UNCHANGED inbox
    BY DEF AmendDraft, SettleAmend, EditExpense, NotACommand, poll
  <2> QED
    BY <1>1, <2>1, <2>2, AtHand, OneCard DEF Pending
<1>3. /\ life \in [Receipts -> Status] /\ draft \in [Receipts -> Readings]
      /\ ledger \in [Receipts -> Drafts \cup {Nothing}] /\ job \in Job(Len(chat)) /\ Correcting
      /\ Correcting' <=> job'.stage # "complete"
  BY <1>1, <1>2 DEF TypeInv, DataOK, JobOK, Correcting, Pending
<1>4. TapTrue'
  BY <1>2 DEF TapTrue, Pending
<1>5. ledger[r] # Nothing => life[r] = "confirmed"
  BY <1>1 DEF OneReceipt
<1>6. life[r] \notin {"absent", "pending"} => IsRegistered(Update)
  BY <1>1, <1>2 DEF OneReceipt, Registering, IsRegistered
<1>7. ASSUME UNCHANGED ledger, job'.stage # "complete" PROVE Truth'
  BY <1>1, <1>2, <1>3, <1>4, <1>7 DEF Truth, DraftTrue, SavedTrue
<1>8. ASSUME UNCHANGED <<life, ledger>>, life[r] # "awaiting_confirm", ledger[r] = Nothing PROVE Truth'
  BY <1>1, <1>2, <1>4, <1>8 DEF Truth, DraftTrue, SavedTrue
<1>9. CASE AmendDraft
  <2>1. UNCHANGED <<life, ledger>>
    BY <1>9 DEF AmendDraft
  <2>2. CASE Stage("settle")
    BY <1>3, <1>7, <2>1, <2>2 DEF Stage, Job
  <2>3. CASE life[r] \notin {"awaiting_confirm", "failed", "confirmed"}
    BY <1>5, <1>8, <2>1, <2>3
  <2> QED
    BY <1>1, <1>9, <2>2, <2>3 DEF AmendDraft
<1>10. CASE SettleAmend
  BY <1>7, <1>10 DEF SettleAmend, Draw
<1>11. CASE NotACommand
  <2>1. UNCHANGED <<life, ledger>> /\ life[r] \in {"absent", "pending"}
    BY <1>1, <1>3, <1>6, <1>11 DEF NotACommand, database
  <2> QED
    BY <1>5, <1>8, <2>1
<1>12. CASE EditExpense
  <2>1. UNCHANGED life /\ life[r] \in {"absent", "pending", "confirmed"}
    BY <1>1, <1>6, <1>12 DEF EditExpense
  <2>2. CASE /\ ledger' = [ledger EXCEPT ![r] = Update.what] /\ job'.stage = "render"
    BY <1>1, <1>2, <1>3, <1>4, <2>1, <2>2 DEF Truth, DraftTrue, SavedTrue
  <2>3. CASE UNCHANGED ledger /\ ledger[r] = Nothing
    BY <1>8, <2>1, <2>3
  <2>4. CASE UNCHANGED ledger /\ ledger[r] # Nothing /\ Update.what = Unreadable
    <3>1. inbox[1].what # ledger[r]
      BY <1>1, <1>3, <2>4, ValueAssumption
    <3> QED
      BY <1>1, <1>2, <1>4, <2>1, <2>4, <3>1 DEF Truth, DraftTrue, SavedTrue
  <2> QED
    BY <1>1, <1>12, <2>2, <2>3, <2>4 DEF EditExpense, Draw
<1> QED
  BY <1>9, <1>10, <1>11, <1>12
CalmInv == ButtonsOK /\ (Alone => AloneInv)

LEMMA InitCalm == Init => CalmInv
<1>1. Init => ButtonsOK
  BY InitLive DEF LiveInv
<1>2. Init => AloneInv
  BY DEF Init, AloneInv, OneUpdate, OneMessage, OneReceipt, DraftTrue, SavedTrue, LookTrue, TapTrue, Pending,
     Handling, NoJob
<1> QED
  BY <1>1, <1>2 DEF CalmInv

LEMMA CalmStep == TypeInv /\ CalmInv /\ [Next]_vars => CalmInv'
<1> SUFFICES ASSUME TypeInv, CalmInv, [Next]_vars PROVE CalmInv'
  OBVIOUS
<1>1. ButtonsOK'
  BY ButtonsStep DEF CalmInv
<1>2. ASSUME Alone' PROVE AloneInv'
  <2>1. Alone
    BY <1>2 DEF Alone, Next, vars
  <2>2. TypeInv /\ ButtonsOK /\ AloneInv /\ Truth
    BY <2>1 DEF CalmInv, AloneInv, Truth
  <2>3. OneUpdate' /\ OneMessage'
    BY <2>1, <2>2, OneUpdateStep, OneMessageStep DEF AloneInv
  <2>4. OneReceipt' /\ LookTrue'
    BY <2>1, <2>2, <2>3, OneReceiptStep, LookStep DEF AloneInv
  <2>5. Truth'
    BY <2>1, <2>2, PollTruth, UserTruth, DrawnTruth, TapTruth, ReplyTruth
    DEF AloneInv, Next, BotStep, PollStep
  <2> QED
    BY <2>3, <2>4, <2>5 DEF AloneInv, Truth
<1> QED
  BY <1>1, <1>2 DEF CalmInv

LEMMA Calm == Spec => [](TypeInv /\ CalmInv)
BY InitCalm, CalmStep, InitTypes, StepTypes, PTL DEF Spec

\* bot.go, showSaved and handleReply: when all is quiet, a card that says that
\* an expense was saved shows what is in the totals, however often the bot was
\* killed between a correction and the drawing of the card.
THEOREM SavedTheorem == Spec => []SavedCardsAreTrue
<1>1. TypeInv /\ CalmInv => SavedCardsAreTrue
  <2> SUFFICES ASSUME TypeInv, CalmInv, Alone, Quiescent, NEW m \in DOMAIN chat, chat[m].face = "saved",
                      ledger[chat[m].doc] # Nothing
               PROVE  chat[m].shown = ledger[chat[m].doc]
    BY DEF SavedCardsAreTrue, Alone
  <2>1. AloneInv
    BY DEF CalmInv
  <2>2. Len(chat) = 1 /\ m = 1
    BY <2>1, Basics, OneCard DEF AloneInv, IsAbout
  <2>3. ~Pending("reply")
    BY <2>1 DEF AloneInv, OneUpdate, Pending, Quiescent
  <2> QED
    BY <2>1, <2>2, <2>3 DEF AloneInv, SavedTrue, Correcting
<1> QED
  BY <1>1, Calm, PTL

\* bot.go:338, "so confirm always persists exactly what the card showed": what
\* a tap on Confirm saves is the draft on the card that was tapped.
THEOREM ConfirmTheorem == Spec => ConfirmWhatYouSee
<1> DEFINE Saves == world.inbox = 1 /\ world.cards = 1 /\ ~world.editsFail => \A r \in Receipts :
                      entered'[r] > entered[r] => ledger'[r] = Update.seen.shown
<1>1. TypeInv /\ CalmInv /\ [Next]_vars => Saves
  <2> SUFFICES ASSUME TypeInv, CalmInv, Alone, [Next]_vars, NEW r \in Receipts, entered'[r] > entered[r]
               PROVE  ledger'[r] = Update.seen.shown
    BY DEF Alone
  <2>1. entered \in [Receipts -> Nat] /\ ledger \in [Receipts -> Drafts \cup {Nothing}]
        /\ life \in [Receipts -> Status]
    BY DEF TypeInv, DataOK
  <2>2. CASE UNCHANGED entered
    BY <2>1, <2>2
  <2>3. CASE TapConfirm /\ ~UNCHANGED entered
    <3>1. /\ Update.what = "confirm" /\ job.stage = "tap" /\ life[Update.doc] = "awaiting_confirm"
          /\ entered' = [entered EXCEPT ![Update.doc] = @ + 1]
          /\ ledger' = [ledger EXCEPT ![Update.doc] = draft[Update.doc]]
      BY <2>3 DEF TapConfirm
    <3>2. AloneInv /\ Handling /\ Update.kind = "tap" /\ ~Advancing
      BY <3>1 DEF CalmInv, TypeInv, JobOK, Handling, Advancing
    <3>3. Pending("tap") /\ Update = inbox[1] /\ Update.doc \in Receipts
      BY <3>2, Single DEF AloneInv, OneUpdate, Pending
    <3>4. draft[Update.doc] = Update.seen.shown
      BY <3>1, <3>2, <3>3 DEF AloneInv, TapTrue
    <3>5. r = Update.doc
      BY <2>1, <3>1, <3>3
    <3> QED
      BY <2>1, <3>1, <3>4, <3>5
  <2>4. TapConfirm \/ UNCHANGED entered
    BY DEF Next, User, SendPhoto, Void, Tap, Reply, BotStep, GetUpdates, ClaimUpdate, CompleteUpdate, Advance,
       Render, SendReading, Ingest, ReadPhoto, Register, TapDiscard, TapRetry, TapFails, TapUndo, AmendDraft,
       SettleAmend, EditExpense, NotACommand, Boot, Sweep, Crash, database, vars
  <2> QED
    BY <2>2, <2>3, <2>4
<1> QED
  BY <1>1, Calm, PTL DEF Spec, ConfirmWhatYouSee
=============================================================================
