# A verification development of finbox

finbox is a Telegram bot and a command line in one Go binary. A user sends a
photo of a ticket; a language model reads it; the bot shows the draft on a card
with buttons; a confirmed draft becomes an expense in Postgres. `finbox serve`
is the bot: one process that long-polls Telegram and handles one update at a
time. Every other command (`add`, `reprocess`, `edit`, `void`, `rerule`,
`reembed`, `migrate`) is a process of its own on the same database, and `deploy.sh` runs
some of them while the container that it is about to replace is still serving.

This directory holds TLA+ models of that, TLC configurations that check them
on small instances, and proofs checked by TLAPS. `PROJECT.json` is the index:
components, runs, the lines of source that each definition stands for, the
hazards that the properties are aimed at, and a mutation of the model for every
property, which breaks it.

## Contents

| module | what it is |
| --- | --- |
| `Receipts` | the life of a receipt in the database: bot and `reprocess` commands, one SQL statement or file operation per step, crashes, failing statements |
| `ReceiptLifecycle` | what is promised of a receipt: the abstract specification that `Receipts` implements while the bot is alone |
| `ReceiptsProofs` | theorems about `Receipts`, with any `reprocess` commands beside the bot |
| `ReceiptsAloneProofs` | theorems about `Receipts` for the bot alone; it implements `ReceiptLifecycle` |
| `Cards` | the conversation: Telegram's queue, `HandleUpdate`, the messages and their buttons, redelivery after a crash |
| `CardsProofs` | theorems about `Cards`: photos on record, live buttons, and cards that say what is true |
| `Expenses` | an expense after it was entered: corrections, `edit_log`, undo, `rerule` |
| `ExpensesProofs` | theorems about `Expenses`: undone expenses, and scale and log under one editor |
| `SearchIndex` | the index for /search: model-written lines and vectors, by the bot and by `reembed` |
| `SearchProofs` | theorems about `SearchIndex`: what was indexed without interference is fresh |
| `Updates` | delivery of updates: Telegram's queue and its clock, `Poll`, `ClaimUpdate`, `CompleteUpdate`, panics, the purge of `processed_updates` |
| `ManualExpenses` | /add with its card, its undo and its corrections, composed with `Updates`; `finbox add` and `finbox void` beside the bot |
| `ManualProofs` | theorems about `Updates`; `ManualExpenses` refines it; undone cards, duplicates and their hints |
| `Migrate` | `Store.Migrate` by several processes of several releases under the advisory lock |
| `MigrateProofs` | theorems about `Migrate` |
| `Money`, `Tokens`, `Replies`, `Fusion` | pure algorithms, each with a reference definition: amounts, days and months, the grammar of replies and of /add, hybrid search |
| `Texts` | the four of them behind one interface: an input at a time |
| `TextProofs` | theorems about all four: amounts and the overflow guard, days and months, replies of any length, the fusion |
| `MCReceipts`, `MCCards`, `MCExpenses`, `MCSearchIndex`, `MCManual`, `MCMigrate`, `MCTexts` | small instances of them for TLC; one `.cfg` per run |

## Inventory

**State.** Postgres: `receipts` (status, `extraction`, `extraction_raw`, the
registered card message, `updated_at`), `transactions` (the expenses, voided or
not, at most one active per receipt), `transaction_items`, `edit_log`,
`processed_updates`, `transaction_embeddings`, `item_embeddings`,
`search_lines`, `schema_migrations`. On disk: the original of each ticket, by
month and SHA-256. In memory: only the offset of `getUpdates` and what a
handler holds between two statements. At Telegram: the updates not yet
acknowledged, and the messages with their buttons.

| component | operations that change state | interacts with | what is hard |
| --- | --- | --- | --- |
| pipeline (`internal/pipeline`) | `IngestPhoto`, `Reprocess`, `runExtraction`, `Amend`, `EmbedDocs` | store, blob, model | minutes between a read and the write that depends on it; several statements without a transaction |
| receipt store | `CreateReceipt`, `SetExtraction`, `AmendExtraction`, `SetCard`, `Transition`, `ClaimUpdate`, `CompleteUpdate`, purge | everyone | guarded and unguarded updates of the same row |
| expense store | `ConfirmReceipt`, `DiscardReceipt`, `AddTransaction`, `EditTransaction`, `VoidTransaction`, `RecanonTransactions` | bot, CLI | optimistic guard on `updated_at`, unique index, reads outside the transaction |
| blob store | `Put`, `Get` | pipeline | truncation of an existing original |
| bot | `Poll`, photos, buttons, replies, slash commands, boot sweep | Telegram, pipeline, command | at-least-once delivery, stale buttons, several messages for one receipt, an `/add` that is handled twice |
| command | `Add`, `Edit`, `Void`, `Reprocess`, `Search` | bot and CLI | read-decide-write |
| rerule | `RecanonTransactions` | the serving bot | writes from a snapshot |
| search index | `TxnDocs`, `WriteLines`, `EmbedDocs`, `EmbedTxn` | bot, `reembed`, edits | writes from a snapshot, partial failure, two releases at once |
| pure parts | `validate`, `money`, `correct`, `daytok`, `monthtok`, `merchant`, `category`, `imgtype` | | boundaries of numbers and calendars |
| migrations | `Migrate` | deploy, boot | several migrators, a lock left behind, a commit whose answer is lost |

What makes each correct:

- *Receipts*: counted at most once; the expense is the draft as it was when it
  was entered; its log is what the human changed; a draft under review, a
  discarded or a failed receipt is out of the totals; the original is on disk
  before there is a row; whatever is interrupted is resumed.
- *Cards*: a photo is never acknowledged without being on record; whatever the
  status, the chat has the buttons for it; what Confirm saves is what was shown.
- *Expenses*: the stored minor units are of the stored currency; every change is
  in the log; an undone expense is final; a human's name is kept.
- *Delivery*: an update that was completed is never handled again; one that was
  not is never dropped without a trace in the log.
- *Manual expenses*: an expense entered twice is hinted at and one tap from
  undone; a card that says undone is right.
- *Migrations*: the schema is always one that some release has built, and recorded
  as such; containers come up.
- *Texts*: an amount is read exactly or refused; a day is the most recent of its
  name; no word of a reply is dropped; a hit of both lists comes first.
- *Search index*: what was indexed is found by what it says; what failed is
  repaired by the next `reembed`.

The hazards, at their lines, with the properties that cover them (or why none
does yet) are the `hazards` of `PROJECT.json`.

## How the models correspond to the code

**Receipts.** A state function per column (`status`, `extraction`, `raw`), the
files (`blob`), the expenses of a receipt with their `edit_log`, and for each
process `job`: the stage of its handler and the locals that it holds there.
Every action is one SQL statement or transaction, or one file operation, with
the decisions that follow it up to the next one: `ReadReceipt` is the select of
`Reprocess` and its test of the status, `SetExtraction` the update and
`validate.Run`, `Settle` the guarded `Transition`. A handler of the bot starts
only when the bot is idle; a `reprocess` command starts at any time. A tap may
come from any card that exists, also an old one, so `TapRetry` and `TapConfirm`
ask only that there is a card. `updated_at` is abstracted to `unchanged`:
whether the row was written since the bot read it for a confirm. `reading` is a
history variable, the last model output that was stored, which the log of an
expense is compared to. An extraction is three fields (raw merchant, corrected
merchant, total with its currency), each of which may be illegible; a total may
also be legible but not positive, which validation refuses and `EditsFromRaw`
logs all the same (`NotPositive`). These are what validation, `EditsFromRaw` and
the refill of an illegible merchant distinguish. Dates, categories and items
behave like the total.

**Cards.** The bot is alone, so a pipeline call is one step. What is
interleaved is the user, the bot's calls to Telegram, and crashes: claiming an
update, drawing a message, registering the card, completing the update and
going on to the next are steps of their own. An update carries the card as it
was when it was tapped (`seen`), so that a property can relate what was shown to
what was saved. `getUpdates` acknowledges the previous batch; a restart begins
with offset 0, and `completed_at` (`done`) makes a redelivered update a no-op.
A behaviour happens in one `world`, chosen at the start: whether the bot may be
killed, what may fail, whether the user waits for each answer (`inbox = 1`), how
many messages and expenses there may be. A property that needs a world says so
in its hypothesis. `TapFails` is an error of `ConfirmReceipt`, `DiscardReceipt`
or `Reprocess`, which is logged while the card stays.

**Updates and ManualExpenses.** `Updates` is `Poll` and `HandleUpdate` around
any handler. Telegram drops what is acknowledged by the next `getUpdates`, and
what is older than `Retention`. `ClaimFails` and `Panic` are the two ways in
which an update is given up with a log entry only; `Boot` purges rows older than
`PurgeAge`. `CompleteInside` is for the handlers that complete an update in the
transaction of their change (`ConfirmReceipt`, `DiscardReceipt`); no handler of a
manual expense does. `ManualExpenses` conjoins each of its actions with the
delivery: `Begin` is `Claim` and the dispatch, `End` the return of the handler
by any way, and in between each statement (`FindDuplicate`, the insert of
`AddTransaction`, `Undo`, `Edit`) and each message is a step, so that a crash may
come between any two. `Redraw` starts with the read of the corrected row: when it
fails, or the row has been undone since, the answer is an error and the card stays
as it was. A card knows its expense by the id in its text or button.
The date of an expense is left out: all totals are within the three days that
`FindDuplicate` looks at.

**Migrate.** `schema` is the order in which the SQL of the migrations took
effect, `rows` is `schema_migrations`. The advisory lock belongs to a session: a
process that is killed, or whose unlock fails, leaves it until PostgreSQL ends the
session (`SessionEnds`). Each release knows a prefix of the migrations
(`Known`); a serving container is started again whenever it exits. `Calm` marks
the point after which nothing fails.

**Money, Tokens, Replies, Fusion.** Each is the code's algorithm over structured
texts (an amount is a sign, groups of digits, decimals; a reply is a sequence of
tokens, each standing for its kind) and, below the line, what it is compared to:
the value of a decimal string as an unbounded number, the number of a day in the
calendar, the set of tokens that the answer has used, the order that the comment
of `fuse` promises. `Wrap` makes integers overflow as int64 does. `Fusion`
compares scores as fractions; the code adds two float64 quotients, which for ranks
up to five and `rrfK = 60` are ordered the same way. `Texts` has no state but the
input that was asked last.

**Expenses.** A correction is `ReadTransaction` (the row is read, if it
still counts, and everything is decided: what the update sets and what the log
says) and `EditTransaction`
(the update guarded by `voided_at`, and the log rows). `rerule` is `SelectRows`
and an `UpdateCanon` per row. Totals are digits and decimals, as typed, so that
a total may be an amount in one currency and refused in another.

**SearchIndex.** `TxnDocs` reads (expenses and items), `WriteLine` is one answer
of the model stored, `LinesEnd` goes on to the vectors with the lines there are,
and each upsert is a step. A text stands for what `BuildDoc` makes of an
expense; a release stands for the prompt and the embedding model that a binary
has. `indexed` and `alone` are history variables: what an indexer that had the
index to itself reported as done.

## The runs

`tlc -config <configuration>.cfg <module>`. The first eight have to pass. The
others check a sentence of the documentation or of a comment that the code does
not keep: TLC finds a counterexample to each, described as a finding in
`PROJECT.json`.

| run | configuration | instance | shows |
| --- | --- | --- | --- |
| `receipts_shared` | `MCReceiptsShared` | 1 receipt, bot + 1 `reprocess`, crashes | `OriginalStored`, `CountedOnce`, `PendingIsUntouched`, `EditLogExact`, `ConfirmSavesTheDraft`, `PendingIsResolved` |
| `receipts_alone` | `MCReceiptsAlone` | 2 receipts (symmetric), bot alone, crashes, failing statements | `ActiveIsConfirmed`, `NoLostRace`; the bot implements `ReceiptLifecycle` |
| `cards` | `MCCards` | 3 worlds: 1 card with crashes; 3 cards with photos and taps that fail; 2 cards, 2 updates, crashes and failing edits of messages | `CardsAreLive`, `HandledPhotosAreOnRecord`, `SavedCardsAreTrue`, `ConfirmWhatYouSee`, `PhotosAreRead` |
| `expenses_one` | `MCExpensesOne` | 1 editor, `rerule`, undo | `AmountIsToScale`, `LastChangeIsLogged`, `LogIsAChain`, `VoidedIsFrozen` |
| `search` | `MCSearchIndex` | old bot, new `reembed`, `finbox edit`, failures | `IndexedIsFresh`, `IndexHeals` |
| `migrate` | `MCMigrate` | 2 containers that know 2 and 3 migrations, a deploy that knows 3, everything may fail | `SchemaIsRecorded`, `NoneTripsOverAnother`, `ServesOnItsSchema`, `AllComeUp` |
| `manual` | `MCManual` | 2 updates, 2 expenses, crashes in each of 3 worlds: the clock; failing claims, completions, statements, messages and panics; a shell and failures | `NothingIsForgotten`, `HandledOnce`, `UndoneIsOut`, `DuplicateIsHinted`, `HintMeansAnother`, `UpdatesAreSettled` |
| `texts` | `MCTexts` | every input of the bounds below, one at a time | `AmountsAreExact`, `TokensAreMostRecent`, `RepliesUseAll`, `HitsAreInOrder` |
| `receipts_discarded` | `MCReceiptsDiscarded` | bot + `reprocess`, nothing fails | violated, `DiscardedIsOutOfTotals`: a receipt is discarded and its expense in the totals |
| `cards_stranded` | `MCCardsStranded` | crash in the first reading | violated, `AwaitingIsConfirmable`: a draft without a card |
| `expenses_rename` | `MCExpensesRename` | 1 editor, `rerule` | violated, `RenameWins`: the normaliser wins over a human |
| `tokens_leap` | `MCTextsLeap` | days and months only | violated, `TypedDayIsKept`: 29/02 is read as 1 March |

Each passing run also checks the type invariant of its module, except
`receipts_alone`, whose module has another run for it, and `texts`, whose only
state is its input.

The instances of the passing runs are as large as the properties hold for; where
a property stops to hold shows where the code relies on somebody waiting:

- With two editors (`Editors = {bot, cli}` in `MCExpensesOne`, three corrections
  are enough) `AmountIsToScale` fails: the check of `command.go:138` uses the
  currency that was read before, so that a relabelling across exponents passes
  when the other correction changes currency and total in between. So do
  `LastChangeIsLogged` and `LogIsAChain`: old values are from before the
  transaction.
- For a user who does not wait (`inbox = 2`) `CardsAreLive` is false: a second tap
  on Discard or Retry, queued behind the first, is answered over the card that
  the first has drawn, and its buttons are gone.
- With two cards of one receipt (`cards = 2`) `ConfirmWhatYouSee` is false,
  although `bot.go:339` says "confirm always persists exactly what the card
  showed": a reply redraws only the registered card, and Confirm on the other
  saves the corrected draft that it does not show. The same happens on one card
  when a statement fails after `AmendExtraction` (`bot.go:425`): the user is told
  that something went wrong, and Confirm saves the correction.
- With a concurrent `reprocess` (`Reprocessors = {cli}` in `MCReceiptsAlone`)
  `ActiveIsConfirmed`, `NoLostRace` and the refinement fail, of which
  `receipts_discarded` is the visible consequence. By the same race, or by a
  crash in the middle of a correction, a receipt may await confirmation with an
  extraction that does not validate, which `bot.go:292` rules out.
- In `Receipts`, the original of a discarded receipt may be torn: `Put`
  (`fs.go:36`) truncates the stored file before it writes it again when the photo
  is sent once more, and the bot may be killed in between, although
  `README.md:98` says of re-sending that "nothing is lost by discarding".
- Without `alone` in `IndexedIsFresh`, a `reembed` that had read an expense
  before it was corrected replaces the vector of the correction by one of the
  text before it; the next `reembed` repairs that (`IndexHeals`).
- `DuplicateIsHinted` excludes an error of the duplicate check, which costs the
  hint, and says "unless it was undone meanwhile". The window in which a crash
  duplicates an expense is not of milliseconds, as `bot.go:534` has it: between the
  insert and the completion lie a message to Telegram and the embedding of the
  expense (1.5 s to 25 s, `bot.go:616`), all of them steps of the model.
- `NothingIsForgotten` counts a failed claim and a panic as reasons: those updates
  are acknowledged all the same, and only the log knows.
- `ReadsBack` of `Money` is false of the smallest integer, whose size `Format`
  cannot represent; no amount that is read is it.
- A name typed for an illegible merchant is not logged as an edit, so that
  `rerule` takes it for a reading and normalises it, without any race
  (`Entered`, `Renamed` in `Expenses`).
- Retry on an older card draws the draft there without registering the message:
  replies to it do not reach the draft (`Cards`, `TapRetry`).

Two more places where a text and the code differ, which need no model: the
comment of `ParseAdd` says "the merchant and the keywords in any order", but a
merchant without its keyword is only found before the first keyword; and
`README.md:103` offers `-120` as a reply, while validation refuses a draft whose
total is not positive.

**Bounds.** Receipts do not share rows or files (a SHA-256 names both); what
they share is the bot, which two receipts show (`MCReceiptsAlone`: a sweep that
has several to resume). One concurrent command is enough for a stale read, and
the theorems hold for any number. Two expenses per receipt (`MaxExpenses`) allow
undo and a second confirm. Readings: one good, one with an illegible merchant
and a total that is not positive, so that a second reading differs in both and
takes two corrections (the total that is typed is the one the first reading has,
so that only a diff against the right reading gives the right log); patches: a rename,
a new total and, in the runs about validity, a total that breaks the draft and
one that mends it. In `Cards`, `inbox = 1` is a user who waits for each answer and
`2` one who does not (that world has one draft only, to keep its liveness check
small); two messages of a receipt are what it takes for a card to be older than
another, three for one between them. `cards` also bounds redelivery: the bot is
not killed in the middle of a photo when the answer to it would be one message
too many, so the world with one card crashes everywhere else. In `Expenses`,
`MaxEdits` counts rows of the log of one expense: it allows two corrections of three fields each, one after the other. In
`MCSearchIndex` one text changes once, with one ticket item; the changed expense
may be indexed any number of times. In `MCManual` two updates are an expense
twice, or an expense and what is done to its card; a third row cannot be entered,
which the handler sees as an error. `PurgeAge = Retention` is the worst case that
the assumption allows (the code has 7 days and 24 hours), and the theorem is for
all. Pairs of troubles share a world, all of them at once do not; the theorems of
`ManualProofs` are for every world. Three migrations and three processes let one
wait, one work and one be started anew between the numbers; `MigrateProofs` is for
any number.
In `MCTexts` the width is 8 bits (the largest integer ends in 7, as that of 64
bits does) and amounts have up to four digits from {0, 1, 2, 7, 8}, on both sides
of the boundary, with every placement of the point and the commas; days are all
of four months of a leap year and the next, with the turn of a year and the end of
February; replies are all texts of up to three tokens of 14 kinds, and of four
that begin with an amount; lists are as long as the code allows (five) with up to
six hits, of which any may be in both.

**Deadlock** is checked in every run whose configuration does not say otherwise:
a bounded instance of `SearchIndex` really stops with a voided expense and an idle
indexer.

**Fairness.** `Receipts` and `Cards`: weak fairness of the bot's next step. The
handlers are sequential code with timeouts on every call, and docker compose
restarts the container (`restart: unless-stopped`); no user, operator or
`reprocess` need ever act. A bot that is killed for ever does nothing, so the
liveness properties assume that it stays up from some point on (`BotStaysUp`).
`MCReceiptsShared` has no failing statements: one that fails in the middle of a
reading leaves the receipt pending until the next start, which need not come
(its safety properties are theorems, with failing statements, and
`MCReceiptsAlone` has them). `SearchIndex`: `reembed` is run again and again (each deploy), and a call
that is tried infinitely often succeeds infinitely often (strong fairness of
each call and upsert); nothing is assumed of the bot but that it goes on.
`ManualExpenses`: weak fairness of `Poll`, of the handlers and of the restart, as in
`Cards`; `UpdatesAreSettled` assumes that the bot stays up in the end. `Migrate`: a
container takes its steps and is started again, PostgreSQL ends dead sessions
(weak fairness) and serves those that wait for a lock in turn (strong fairness of
`Lock`: its lock queue is first come, first served); a deploy need not be
started, but does not stop half way. `AllComeUp` is about what follows `Calm`,
when nothing fails any more.

## What is proved

`ReceiptsProofs` proves for all values of the constants — any set of receipts,
any number of concurrent `reprocess` commands, any names, normaliser, readings
and corrections that meet the named assumptions of `Receipts`:

- `TypeCorrect`: `Spec => []TypeOK`. Inductive invariant `TypeInv`: types, and
  `InHand` — a handler under way has a receipt, and what a confirm holds is
  valid.
- `EditLogIsExact`: `Spec => []EditLogExact`. `EditLogExact` is not inductive: a
  confirm computes the log from what it had read two statements before.
  `EditInv` adds what ties these together: `RawIsTheReading` (the raw output
  kept aside, or else the extraction, is the last stored reading, in the fields
  that the diff reads), `ReadingHasNoCanon` (the model never writes a corrected
  name) and `ConfirmHoldsTheRow` (while `updated_at` is unchanged the confirm
  holds the row as it is). Actions that touch none of this are dealt with
  together (`QuietActions`), the others one by one.
- `ReceiptIsCountedOnce`, `PendingUntouched`: `Spec => []CountedOnce` and
  `Spec => []PendingIsUntouched`, from `LedgerInv`, their conjunction: no stale
  transition can lead back to `pending`, and only the guarded confirm under the
  unique index inserts.
- `ConfirmIsTheDraft`: `Spec => ConfirmSavesTheDraft`, an action property, from
  `TypeInv` and `EditInv`: only `ConfirmReceipt` makes the expenses of a receipt
  longer, its guard implies that `updated_at` is unchanged, and
  `ConfirmHoldsTheRow` then says that what it holds is the row.
- `OriginalIsStored`: `Spec => []OriginalStored`, from `OriginInv`: besides the
  property, a handler about to create a row has opened its file, and whatever a
  handler or the boot sweep has in hand afterwards has a row. `OriginMove` says
  once what a step has to show, and each action is an instance of it.

`ReceiptsAloneProofs` assumes further that no command runs beside the bot
(`Reprocessors = {}`; a run shows that the statements are false otherwise). With
crashes and failing statements everywhere, it proves:

- `AloneActiveIsConfirmed`, `AloneNoLostRace`: a receipt with an expense that
  counts is `confirmed`, and no transition of the bot finds the status that it
  relies on gone. The inductive invariant is `AloneInv`: `ActiveIsConfirmed` is
  not inductive, because a handler that writes `awaiting_confirm` checked for an
  expense several statements before. `Undisturbed` adds that what a handler has
  read still holds when it uses it: the status, that no expense counts, the
  draft that a reply is merged into, the validity that an offer relies on.
- `AloneImplementsLifecycle`: `Spec => Lifecycle!LifeSpec`, from all five
  invariants. Each statement is one action of `ReceiptLifecycle` or a stutter
  (`RefineStep` and the lemmas before it): what creates the row is `Accept`, what
  writes an extraction is `Redraft`, the transitions at the end of a reading are
  `Offer` or `Fail`. `RefineConfirm` needs `EditInv` (what is saved is the
  draft) and `LedgerInv` (it is the only one that counts); `RefineVoid` needs
  `ActiveIsConfirmed`, without which an undo would move a receipt that is
  awaiting confirmation again.

The assumptions on constants are the `ASSUME`s of `Receipts`, which TLC
evaluates in every run: the normaliser is a function on legible names, the
totals that are refused are among those that parse, the
model is not asked for a corrected name, a rename is never empty, and the mark
for "nothing stored" is not a reading.

`CardsProofs`, for any number of receipts, drafts and worlds that `Cards` may
start in. `TypeTheorem` is from `TypeInv`, which adds that what a handler has in hand
is about an update of the batch, and an update about a message of the chat that is
there. On it stand three arguments:

- `PhotoTheorem` (`HandledPhotosAreOnRecord`, with crashes): the property, and that
  the handler of a photo, once past the insert, has its receipt on record
  (`PhotoInv`); no step takes a receipt away (`RecordsStay`).
- `LiveTheorem` (`CardsAreLive`, for a user who waits, any number of cards, failing
  photos and taps): `LiveInv`. `ButtonsOK` says what buttons each face of a card has.
  `Shown` is the heart of it: at every moment, not only when all is quiet, each
  status has its buttons on some message, or in what is being drawn. It needs that
  a tap not yet handled is about a message as it is (`TapsAreFresh`), and what the
  stages of a handler know of the status (`StatusOK`).
- `SavedTheorem` and `ConfirmTheorem` (`SavedCardsAreTrue`, `ConfirmWhatYouSee`, one card,
  a user who waits, with crashes): `AloneInv`. There is one update, one message,
  one receipt (`OneUpdate`, `OneMessage`, `OneReceipt`). A draft or saved card shows
  the row unless a correction is not completed yet (`DraftTrue`, `SavedTrue`): then the
  redelivery of the reply will draw it. What is being drawn is true (`LookTrue`), and
  a tap on Confirm has seen the present draft, also when it is redelivered after a
  crash (`TapTrue`).

The hypothesis `~world.editsFail` of the last two is needed: TLC finds the
counterexample without it. When Telegram refuses the edit, the old draft stays on
the card after a correction, and Confirm saves the new one, so `bot.go:338`, "confirm
always persists exactly what the card showed", holds only as far as the card can be
drawn. With `cards = 1` the model does not kill the bot between the message of a photo
and its completion, since the redelivery would draw a second card; that case is in
the worlds with more cards, and in `PhotoTheorem` and the type theorem.

The proof of `LiveTheorem` found two alternatives of `FirstStage` that overlapped
(a CASE that TLC resolves by taking the first); they are now exclusive, as the early
returns of the code make them.

`ExpensesProofs`: `TypeTheorem` and `VoidedTheorem` (`VoidedIsFrozen`, an action property)
for any number of editors. `ScaleTheorem`, `LastChangeTheorem` and `ChainTheorem` assume
`OneEditor` (at most one process corrects; `rerule` and undo run beside it), without
which they are false, see above. Their invariant `LogInv` adds that whatever an
editor has decided still stands when it writes (`Stands`): the log rows it will
append start from the row as it is, and the scale it parsed the amount with is that
of the currency the row will have. `rerule` changes the name only, so it cannot
disturb this (`StandsSame`).

`SearchProofs`: `TypeTheorem`, and `FreshTheorem` (`IndexedIsFresh`) for any indexers and
releases, from `IndexInv`: an indexer at work has taken what it read out of `indexed`
(`AtWork`), and one that has the index to itself knows what is stored, with what it
has written since (`Knows`). This is why writing from a snapshot is safe for it, and
only for it.

`MigrateProofs`, for any number of migrators and releases: `TypeTheorem`, `SchemaTheorem`,
`NoTripTheorem`, `ServesTheorem`, from the inductive invariant `IInv`. The last three are
not inductive: `IInv` adds `LockIsHeld` (whoever is past the lock holds it, which
is why the session of a dead process must end before the next gets in) and
`Progress` (the loop has seen every migration before the one it has come to, so
the first it has not seen is the next of the schema).

`ManualProofs` begins with `Updates`, for any number of updates and any ages with
`Retention <= PurgeAge`: `HandledOnceTheorem` and `NothingForgottenTheorem`, from
`DeliveryInv`. A row is never older than its update (`Stamps`), so it is purged
only after Telegram has given the update up (`Remembered`); and everything below
the offset, or skipped in a batch, is settled (`Passed`, `Gaps`). The order in
which `Poll` goes through a batch is `CurrentIsLowest`.

`ManualDelivers` shows that `Spec` of `ManualExpenses` implies `DeliverySpec`, so that
the two theorems hold of /add (`ManualHandledOnce`, `ManualNothingForgotten`).
`UndoneTheorem` and `HintTheorem` are from `MInv`: what the handler holds is of its own
update and an existing row (`InCharge`), and what `FindDuplicate` found is about rows
before the one that is inserted (`Found`), which nothing invalidates, because totals
change only in the handler of a reply. `TypeTheorem` and `DuplicateTheorem`
(`DuplicateIsHinted`) need `RInv` as well: every row has an update or the shell as its
source, and a reply or a tap is a later update than the one that the row of its
card is from (`Sources`), handled after it (`CurrentIsLowest`); so a row of an /add that
is not over still has the total that was asked for (`Unedited`), and a check that came
back clean leaves no row of the same update that counts (`Checked`).

`TextProofs` has no state to speak of; its theorems are about the operators.

- `AmountTheorem`, `WrittenTheorem`, hence `AmountsTheorem` (`AmountsAreExact`): for
  amounts of any length, at any number of decimals and any width of the integers,
  `parseFixedPoint` reads the number or refuses it, and what `Format` writes reads back.
  `GuardIsExact` and `DigitIsExact` are one turn of the loop, `ReadDigitsIs` the loop,
  `FixedIs` the digits that are written.
- `DayTheorem`, `MonthTheorem`, `RelativeTheorem`, hence `TokensTheorem`
  (`TokensAreMostRecent`): on every day of every year.
- `ReplyTheorem`, `AddTheorem`, hence `RepliesTheorem` (`RepliesUseAll`): for texts of any
  length. `Spot` gives the position in the text of each token that was read; it is
  a bijection onto the words (`SpotIs`, `SpotOnce`, `EveryWordHasSpot`).
- `LiteralFirstTheorem`, `OneListTheorem`, hence `HitsTheorem` (`HitsAreInOrder`): for all
  lists without repetition as long as `Limit < RrfK + 2` (with more hits, two low ranks
  would weigh less than one high one). That `Ahead` is an order rests on the scores
  being fractions with positive denominators (`ScoreIsFraction`).

The induction theorems of the library take an operator as a parameter, which the
installed provers cannot instantiate. `Least` (a set of naturals has a least
element, from the well-foundedness of `<`) takes a set instead, and `Upward`, `UpTo`
and `Loop` are induction and recursion from it, so that what a loop computes for
every input can be proved. For this the loops of `Money` are recursive functions.

The assumptions are the `ASSUME`s of the modules; those of `Texts` say that the inputs
are of the kinds that the code sees (amounts, tokens, calendar days, lists without
repetition).

**Only model-checked**: liveness (`PendingIsResolved`, `PhotosAreRead`, `IndexHeals`,
`AllComeUp`, `UpdatesAreSettled`), because fairness and ENABLED are out of the prover's
reach. Every other property of the passing runs is a theorem. The four runs that
have to fail check sentences that are false.

## What is not modelled

- In `Cards`, failing statements of photos and replies (those of taps are there),
  and two chats; failing claims and panics are in `Updates`. `finbox reprocess` is
  in `Receipts` only.
- /list, /month, /pending, /search and the ticket viewer: they read the database
  and send what they read; a close button that deletes their message.
- Wording and layout, lists, totals, export: read-only.
- Categories, the string rules of the normaliser, scrubbing of card numbers, image
  sniffing, HTTP clients: pure or I/O; they appear as choices.
- The distances that rank the two lists of a search: computed by PostgreSQL.
- Backup and deployment scripts: only that they run beside the bot.

## Plan

1. Prove: the hazards that two concurrent commands leave, as theorems of what still
   holds then (`Receipts` has them; `Expenses` with two editors has `VoidedIsFrozen`
   only); that `Cards` implements an abstract card.
2. Model: failing statements of a reply in `Cards`; the sum of the items and the
   warnings of `validate`.
