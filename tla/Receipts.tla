------------------------------ MODULE Receipts ------------------------------
(***************************************************************************)
(* The life of a receipt in the database of finbox, and everyone who moves *)
(* it along: the bot (one process, `finbox serve`, that handles one update *)
(* at a time) and any number of `finbox reprocess` commands, which run the *)
(* same extraction pipeline against the same rows while the bot is         *)
(* serving.  Every database statement and every file operation is a step   *)
(* of its own; the language model's answer arrives between two of them.    *)
(*                                                                         *)
(* Sources: internal/pipeline/{pipeline,amend}.go, internal/store/         *)
(* {receipts,transactions}.go, the callback handlers of                    *)
(* internal/telegram/bot.go, BootSweep in internal/telegram/serve.go and   *)
(* internal/blob/fs/fs.go.  What the chat shows is in module Cards.        *)
(***************************************************************************)
EXTENDS Integers, Sequences

CONSTANTS
  Receipts,       \* the receipts a user may photograph (one per sha256)
  Bot,            \* the `finbox serve` process
  Reprocessors,   \* concurrent `finbox reprocess` commands
  Names,          \* merchant names: as printed, normalised, or typed
  Amounts,        \* totals that parse (total and currency read together)
  NotPositive,    \* of these, the totals that validation refuses
  Illegible,      \* a field that is empty or does not parse
  Canon,          \* merchant.Canon, the name normaliser: [Names -> Names]
  Readings,       \* what the model may answer
  Patches,        \* the corrections a user may type
  NoRaw,          \* extraction_raw is null
  NoReceipt,      \* no receipt is being worked on
  Crashes,        \* may the bot be killed?
  DBErrors,       \* may a statement of the bot fail?
  MaxExpenses     \* bound: expenses ever entered for one receipt

Procs == {Bot} \cup Reprocessors

Name == Names \cup {Illegible}
Amount == Amounts \cup {Illegible}

\* The jsonb of receipts.extraction: what the model read, and the corrections.
Extraction == [merchant : Name, merchant_canon : Name, amount : Amount]
Blank == [merchant |-> Illegible, merchant_canon |-> Illegible, amount |-> Illegible]

ASSUME ProcessAssumption == Bot \notin Reprocessors
ASSUME ReceiptAssumption == NoReceipt \notin Receipts
ASSUME CanonAssumption == Canon \in [Names -> Names]
ASSUME LegibleAssumption ==
  /\ Illegible \notin Names \cup Amounts
  /\ NotPositive \subseteq Amounts
  /\ NoRaw \notin Extraction \cup [merchant : Names, amount : Amounts]
\* The model is never asked for merchant_canon: only a correction writes it.
ASSUME ReadingAssumption ==
  Readings \subseteq {ex \in Extraction : ex.merchant_canon = Illegible}
\* A patch names some fields; a renamed merchant is never empty, a total may
\* become unreadable (a currency patch that the stored total does not parse in).
ASSUME PatchAssumption ==
  \A patch \in Patches :
    /\ DOMAIN patch \subseteq {"merchant_canon", "amount"}
    /\ "merchant_canon" \in DOMAIN patch => patch["merchant_canon"] \in Names
    /\ "amount" \in DOMAIN patch => patch["amount"] \in Amount
ASSUME SwitchAssumption == Crashes \in BOOLEAN /\ DBErrors \in BOOLEAN
ASSUME BoundAssumption == MaxExpenses \in Nat

VARIABLES
  blob,        \* blob[r]: the stored original, on disk
  status,      \* receipts.status
  extraction,  \* receipts.extraction
  raw,         \* receipts.extraction_raw
  reading,     \* history: the last model output that was stored
  expenses,    \* expenses[r]: the transactions of r, with their edit_log
  job,         \* job[p]: where process p is in its handler, and its locals
  unchanged,   \* is updated_at still what the bot read when Confirm was tapped?
  sweep        \* the stale receipts the boot sweep has still to resume

vars == <<blob, status, extraction, raw, reading, expenses, job, unchanged, sweep>>
rows == <<status, extraction, raw, reading, expenses>>

Status == {"absent", "pending", "awaiting_confirm", "confirmed", "discarded", "failed"}
Stages == {"down", "idle", "put", "write", "create", "duplicate", "read", "check",
           "load", "extract", "store", "ready", "fail", "fill", "confirm", "recheck"}
Job == [stage : Stages, doc : Receipts \cup {NoReceipt}, from : Status,
        held : Extraction, raw : Extraction \cup {NoRaw}]
NoJob == [stage |-> "idle", doc |-> NoReceipt, from |-> "absent",
          held |-> Blank, raw |-> NoRaw]

Saved == [merchant : Names, amount : Amounts]
FieldEdit == [field : {"merchant", "amount"}, old : Names \cup Amounts,
              new : Names \cup Amounts]
Expense == [data : Saved, voided : BOOLEAN, reading : Extraction, edits : SUBSET FieldEdit]

-----------------------------------------------------------------------------
(***************************************************************************)
(* Pure parts: validation, and the difference that confirm logs.           *)
(***************************************************************************)

\* validate.Run: a merchant and a positive total are what a reading must have.
Valid(ex) ==
  ex.merchant # Illegible /\ ex.amount \notin NotPositive \cup {Illegible}

\* What validate.Run makes of a valid extraction: a correction of the name
\* outranks the normaliser.
View(ex) ==
  [merchant |-> IF ex.merchant_canon # Illegible
                THEN ex.merchant_canon ELSE Canon[ex.merchant],
   amount |-> ex.amount]

\* Mutant: a field that the model could not read is logged as an edit as well.
EditsOfUnread(ex, view) ==
  LET name == IF ex.merchant = Illegible THEN Illegible ELSE Canon[ex.merchant]
      edit(field, old, new) == IF old = new THEN {}
                               ELSE {[field |-> field, old |-> old, new |-> new]}
  IN edit("merchant", name, view.merchant) \cup edit("amount", ex.amount, view.amount)

\* pipeline.EditsFromRaw: the fields the model read that are saved otherwise.
\* A field the model could not read has no old value, and no edit; a total that
\* is refused for not being positive has one.
EditsFromRaw(ex, view) ==
  LET name == IF ex.merchant = Illegible THEN Illegible ELSE Canon[ex.merchant]
      edit(field, old, new) == IF old \in {Illegible, new} THEN {}
                               ELSE {[field |-> field, old |-> old, new |-> new]}
  IN edit("merchant", name, view.merchant) \cup edit("amount", ex.amount, view.amount)

\* jsonb concatenation, `extraction || patch`.
Merge(ex, patch) ==
  [merchant |-> IF "merchant" \in DOMAIN patch THEN patch["merchant"] ELSE ex.merchant,
   merchant_canon |-> IF "merchant_canon" \in DOMAIN patch
                      THEN patch["merchant_canon"] ELSE ex.merchant_canon,
   amount |-> IF "amount" \in DOMAIN patch THEN patch["amount"] ELSE ex.amount]

-----------------------------------------------------------------------------
(***************************************************************************)
(* The rows.                                                               *)
(***************************************************************************)

\* GetActiveTxnForReceipt, and the predicate of one_active_txn_per_receipt.
Active(r) == \E i \in DOMAIN expenses[r] : ~expenses[r][i].voided

\* Every write to a row sets updated_at, so a confirm that read it before is stale.
Touch(r) == unchanged' = (unchanged /\ job[Bot].doc # r)

\* Process p goes on to the next stage of its handler, or is done with it.
Goto(p, stage) == job' = [job EXCEPT ![p].stage = stage]
Done(p) == job' = [job EXCEPT ![p] = NoJob]

\* store.Transition: a guarded status change; losing the race is only logged.
Transition(r, from, to) ==
  IF status[r] = from
  THEN status' = [status EXCEPT ![r] = to] /\ Touch(r)
  ELSE UNCHANGED <<status, unchanged>>

\* `coalesce(extraction_raw, extraction, '{}')`: copied aside the first time only.
KeptRaw(r) == IF raw[r] = NoRaw THEN extraction[r] ELSE raw[r]

Init ==
  /\ blob = [r \in Receipts |-> "none"]
  /\ status = [r \in Receipts |-> "absent"]
  /\ extraction = [r \in Receipts |-> Blank]
  /\ raw = [r \in Receipts |-> NoRaw]
  /\ reading = [r \in Receipts |-> Blank]
  /\ expenses = [r \in Receipts |-> << >>]
  /\ job = [p \in Procs |-> NoJob]
  /\ unchanged = FALSE
  /\ sweep = {}

-----------------------------------------------------------------------------
(***************************************************************************)
(* IngestPhoto: the original goes to disk first, then the row is created.  *)
(***************************************************************************)

BotIsFree == job[Bot].stage = "idle" /\ sweep = {}
Start(p, stage, r) == job' = [job EXCEPT ![p] = [NoJob EXCEPT !.stage = stage, !.doc = r]]

\* Mutant: the row is created before the original is on disk.
ReceivePhotoRowFirst(r) ==
  /\ BotIsFree
  /\ Start(Bot, "create", r)
  /\ UNCHANGED <<blob, rows, unchanged, sweep>>

\* A photo or document arrives.  It may be one the bot already has: the same
\* month it is written over the stored original, later to another file.
ReceivePhoto(r) ==
  /\ BotIsFree
  /\ \/ Start(Bot, "put", r)
     \/ status[r] # "absent" /\ Start(Bot, "create", r)
  /\ UNCHANGED <<blob, rows, unchanged, sweep>>

\* os.WriteFile opens the file with O_TRUNC ...
Truncate(p) ==
  /\ job[p].stage = "put"
  /\ blob' = [blob EXCEPT ![job[p].doc] = "torn"]
  /\ Goto(p, "write")
  /\ UNCHANGED <<rows, unchanged, sweep>>

\* ... and then writes it.
Write(p) ==
  /\ job[p].stage = "write"
  /\ blob' = [blob EXCEPT ![job[p].doc] = "whole"]
  /\ Goto(p, "create")
  /\ UNCHANGED <<rows, unchanged, sweep>>

\* Mutant: the insert is an upsert, and a known photo begins anew.
CreateOrReset(p) ==
  /\ job[p].stage = "create"
  /\ status' = [status EXCEPT ![job[p].doc] = "pending"]
  /\ job' = [job EXCEPT ![p].stage = "extract", ![p].from = "pending"]
  /\ UNCHANGED <<blob, extraction, raw, reading, expenses, unchanged, sweep>>

\* CreateReceipt: blob_sha256 is unique, so a known photo is a duplicate.
CreateReceipt(p) ==
  LET r == job[p].doc IN
  /\ job[p].stage = "create"
  /\ IF status[r] = "absent"
     THEN /\ status' = [status EXCEPT ![r] = "pending"]
          /\ job' = [job EXCEPT ![p].stage = "extract", ![p].from = "pending"]
     ELSE /\ Goto(p, "duplicate")
          /\ UNCHANGED status
  /\ UNCHANGED <<blob, extraction, raw, reading, expenses, unchanged, sweep>>

\* handleDuplicate: only a discarded or failed receipt is read again.
Duplicate(p) ==
  /\ job[p].stage = "duplicate"
  /\ IF status[job[p].doc] \in {"discarded", "failed"} THEN Goto(p, "read") ELSE Done(p)
  /\ UNCHANGED <<blob, rows, unchanged, sweep>>

-----------------------------------------------------------------------------
(***************************************************************************)
(* Reprocess: by the Retry button, a duplicate, the boot sweep or the CLI. *)
(***************************************************************************)

\* A card with buttons exists once the first reading is over.
HasCard(r) == status[r] \notin {"absent", "pending"}

TapRetry(r) ==
  /\ BotIsFree /\ HasCard(r)
  /\ Start(Bot, "read", r)
  /\ UNCHANGED <<blob, rows, unchanged, sweep>>

CommandReprocess(p, r) ==
  /\ job[p].stage = "idle" /\ status[r] # "absent"
  /\ Start(p, "read", r)
  /\ UNCHANGED <<blob, rows, unchanged, sweep>>

\* Mutant: the transition is guarded by the status of a first reading.
ReadReceiptAsPending(p) ==
  LET r == job[p].doc IN
  /\ job[p].stage = "read"
  /\ CASE status[r] \in {"pending", "failed", "discarded"} ->
            job' = [job EXCEPT ![p].stage = "load", ![p].from = "pending"]
       [] status[r] = "confirmed" ->
            job' = [job EXCEPT ![p].stage = "check", ![p].from = status[r]]
       [] OTHER -> Done(p)
  /\ UNCHANGED <<blob, rows, unchanged, sweep>>

\* GetReceipt, and the decision on the status it returned.
ReadReceipt(p) ==
  LET r == job[p].doc IN
  /\ job[p].stage = "read"
  /\ CASE status[r] \in {"pending", "failed", "discarded"} ->
            job' = [job EXCEPT ![p].stage = "load", ![p].from = status[r]]
       [] status[r] = "confirmed" ->
            job' = [job EXCEPT ![p].stage = "check", ![p].from = status[r]]
       [] OTHER -> Done(p)
  /\ UNCHANGED <<blob, rows, unchanged, sweep>>

\* Mutant: a confirmed receipt is read again although its expense counts.
CheckNothing(p) ==
  /\ job[p].stage = "check"
  /\ Goto(p, "load")
  /\ UNCHANGED <<blob, rows, unchanged, sweep>>

\* A confirmed receipt is read again only once its expense has been voided.
CheckVoided(p) ==
  /\ job[p].stage = "check"
  /\ IF Active(job[p].doc) THEN Done(p) ELSE Goto(p, "load")
  /\ UNCHANGED <<blob, rows, unchanged, sweep>>

\* Blob.Get and Sniff: a torn file may lack even the first bytes ("blob
\* corrupto", with no change of status).
LoadBlob(p) ==
  /\ job[p].stage = "load"
  /\ \/ Goto(p, "extract")
     \/ blob[job[p].doc] = "torn" /\ Done(p)
  /\ UNCHANGED <<blob, rows, unchanged, sweep>>

\* extractWithRetry: a reading, or an error (or a panic) after three attempts.
Extract(p) ==
  /\ job[p].stage = "extract"
  /\ \/ \E ex \in Readings :
          job' = [job EXCEPT ![p].stage = "store", ![p].held = ex]
     \/ Goto(p, "fail")
  /\ UNCHANGED <<blob, rows, unchanged, sweep>>

\* Mutant: the raw reading of before is kept, so confirm diffs against it.
SetExtractionOnly(p) ==
  LET r == job[p].doc  ex == job[p].held IN
  /\ job[p].stage = "store"
  /\ extraction' = [extraction EXCEPT ![r] = ex]
  /\ reading' = [reading EXCEPT ![r] = ex]
  /\ Touch(r)
  /\ Goto(p, IF Valid(ex) THEN "ready" ELSE "fail")
  /\ UNCHANGED <<blob, status, raw, expenses, sweep>>

\* SetExtraction, whatever the status is by now, and validate.Run on it.
SetExtraction(p) ==
  LET r == job[p].doc  ex == job[p].held IN
  /\ job[p].stage = "store"
  /\ extraction' = [extraction EXCEPT ![r] = ex]
  /\ reading' = [reading EXCEPT ![r] = ex]
  /\ raw' = [raw EXCEPT ![r] = NoRaw]
  /\ Touch(r)
  /\ Goto(p, IF Valid(ex) THEN "ready" ELSE "fail")
  /\ UNCHANGED <<blob, status, expenses, sweep>>

\* The last statement of runExtraction, and of Amend.
Settle(p) ==
  /\ job[p].stage \in {"ready", "fail"}
  /\ Transition(job[p].doc, job[p].from,
                IF job[p].stage = "ready" THEN "awaiting_confirm" ELSE "failed")
  /\ Done(p)
  /\ UNCHANGED <<blob, extraction, raw, reading, expenses, sweep>>

-----------------------------------------------------------------------------
(***************************************************************************)
(* Amend: a reply to the card corrects the draft.                          *)
(***************************************************************************)

\* Mutant: a failed draft awaits confirmation after any correction.
AfterAnyAmend(ex, from) ==
  CASE from = "failed" -> "ready"
    [] ~Valid(ex) /\ from # "failed" -> "fail"
    [] OTHER -> "idle"

\* What is left to do once the merged extraction has been validated.
AfterAmend(ex, from) ==
  CASE Valid(ex) /\ from = "failed" -> "ready"
    [] ~Valid(ex) /\ from # "failed" -> "fail"
    [] OTHER -> "idle"

\* AmendExtraction guards on the status in the statement itself.
Amendable(r) == status[r] \in {"awaiting_confirm", "failed"}

\* The job that goes on with ex in hand, or none if nothing is left to do.
AmendJob(r, ex, from, stage) ==
  IF stage = "idle" THEN NoJob
  ELSE [NoJob EXCEPT !.stage = stage, !.doc = r, !.from = from, !.held = ex]

Amend(r, patch) ==
  LET ex == Merge(extraction[r], patch)
      stage == IF ex.merchant = Illegible /\ ex.merchant_canon # Illegible
               THEN "fill" ELSE AfterAmend(ex, status[r])
  IN /\ BotIsFree
     /\ Amendable(r)
     /\ raw' = [raw EXCEPT ![r] = KeptRaw(r)]
     /\ extraction' = [extraction EXCEPT ![r] = ex]
     /\ Touch(r)
     /\ job' = [job EXCEPT ![Bot] = AmendJob(r, ex, status[r], stage)]
     /\ UNCHANGED <<blob, status, reading, expenses, sweep>>

\* A name typed for an illegible merchant has to fill the raw merchant too.
FillMerchant(p) ==
  LET r == job[p].doc
      fill == [f \in {"merchant"} |-> job[p].held.merchant_canon]
      ex == Merge(job[p].held, fill)
  IN /\ job[p].stage = "fill"
     /\ IF Amendable(r)
        THEN /\ raw' = [raw EXCEPT ![r] = KeptRaw(r)]
             /\ extraction' = [extraction EXCEPT ![r] = Merge(extraction[r], fill)]
             /\ Touch(r)
             /\ job' = [job EXCEPT ![p] =
                          AmendJob(r, ex, job[p].from, AfterAmend(ex, job[p].from))]
        ELSE /\ Done(p)
             /\ UNCHANGED <<raw, extraction, unchanged>>
     /\ UNCHANGED <<blob, status, reading, expenses, sweep>>

-----------------------------------------------------------------------------
(***************************************************************************)
(* Confirm, discard and void.                                              *)
(***************************************************************************)

\* The Confirm tap reads the row and validates it; a stale tap gets here too.
TapConfirm(r) ==
  /\ BotIsFree /\ HasCard(r) /\ Valid(extraction[r])
  /\ job' = [job EXCEPT ![Bot] = [NoJob EXCEPT !.stage = "confirm", !.doc = r,
                                    !.held = extraction[r], !.raw = raw[r]]]
  /\ unchanged' = TRUE
  /\ UNCHANGED <<blob, rows, sweep>>

\* The transaction that confirm would save, and its edit_log.
NewExpense(r) ==
  LET view == View(job[Bot].held) IN
  [data |-> view, voided |-> FALSE, reading |-> reading[r],
   edits |-> IF job[Bot].raw = NoRaw THEN {} ELSE EditsFromRaw(job[Bot].raw, view)]

\* Mutant: a draft that changed since the tap is saved as it was.
ConfirmGuardStatusOnly(r) == status[r] = "awaiting_confirm"

\* `status='awaiting_confirm' and updated_at=$2`
ConfirmGuard(r) == status[r] = "awaiting_confirm" /\ unchanged

\* Mutant: no unique index on the active expenses of a receipt.
InsertNeverFails(r) == FALSE

\* one_active_txn_per_receipt makes the insert fail, and the tx roll back.
InsertFails(r) == Active(r)

ConfirmReceipt ==
  LET r == job[Bot].doc IN
  /\ job[Bot].stage = "confirm"
  /\ CASE ~ConfirmGuard(r) ->
            Goto(Bot, "recheck") /\ UNCHANGED <<rows, unchanged>>
       [] ConfirmGuard(r) /\ InsertFails(r) ->
            Done(Bot) /\ UNCHANGED <<rows, unchanged>>
       [] OTHER ->
            /\ status' = [status EXCEPT ![r] = "confirmed"]
            /\ expenses' = [expenses EXCEPT ![r] = Append(@, NewExpense(r))]
            /\ Touch(r)
            /\ Done(Bot)
            /\ UNCHANGED <<extraction, raw, reading>>
  /\ UNCHANGED <<blob, sweep>>

\* The guard fired: the row is read again, to say what happened.
Recheck ==
  /\ job[Bot].stage = "recheck"
  /\ Done(Bot)
  /\ UNCHANGED <<blob, rows, unchanged, sweep>>

DiscardReceipt(r) ==
  /\ BotIsFree
  /\ status[r] \in {"awaiting_confirm", "failed"}
  /\ status' = [status EXCEPT ![r] = "discarded"]
  /\ Touch(r)
  /\ UNCHANGED <<blob, extraction, raw, reading, expenses, job, sweep>>

\* `finbox void`: the receipt stays confirmed.
VoidTransaction(r) ==
  /\ Len(expenses[r]) < MaxExpenses
  /\ \E i \in DOMAIN expenses[r] :
       /\ ~expenses[r][i].voided
       /\ expenses' = [expenses EXCEPT ![r][i].voided = TRUE]
  /\ UNCHANGED <<blob, status, extraction, raw, reading, job, unchanged, sweep>>

-----------------------------------------------------------------------------
(***************************************************************************)
(* What goes wrong.                                                        *)
(***************************************************************************)

\* A statement, a file operation or a call fails and the handler returns: the
\* error is logged.  A `finbox reprocess` may also be interrupted at any point.
Abandon(p) ==
  /\ job[p].stage \notin {"idle", "down"}
  /\ p = Bot => DBErrors
  /\ Done(p)
  /\ UNCHANGED <<blob, rows, unchanged, sweep>>

\* The bot is killed, or stopped by a deploy.
Crash ==
  /\ Crashes /\ job[Bot].stage # "down"
  /\ job' = [job EXCEPT ![Bot] = [NoJob EXCEPT !.stage = "down"]]
  /\ sweep' = {}
  /\ UNCHANGED <<blob, rows, unchanged>>

\* Mutant: nothing is resumed at boot.
StaleForgotten == {}

\* StalePending, at the next start; if that query fails the bot serves anyway.
Stale == {r \in Receipts : status[r] = "pending"}

Boot ==
  /\ job[Bot].stage = "down"
  /\ Done(Bot)
  /\ \/ sweep' = Stale
     \/ DBErrors /\ sweep' = {}
  /\ UNCHANGED <<blob, rows, unchanged>>

\* BootSweep reprocesses each of them before the bot polls.
ResumeStale(r) ==
  /\ job[Bot].stage = "idle" /\ r \in sweep
  /\ sweep' = sweep \ {r}
  /\ Start(Bot, "read", r)
  /\ UNCHANGED <<blob, rows, unchanged>>

-----------------------------------------------------------------------------
User ==
  \E r \in Receipts :
    \/ ReceivePhoto(r) \/ TapRetry(r) \/ TapConfirm(r) \/ DiscardReceipt(r)
    \/ VoidTransaction(r)
    \/ \E patch \in Patches : Amend(r, patch)
    \/ \E p \in Reprocessors : CommandReprocess(p, r)

\* The next statement of a handler under way.
Step(p) ==
  \/ Truncate(p) \/ Write(p) \/ CreateReceipt(p) \/ Duplicate(p)
  \/ ReadReceipt(p) \/ CheckVoided(p) \/ LoadBlob(p) \/ Extract(p)
  \/ SetExtraction(p) \/ Settle(p) \/ FillMerchant(p)

BotStep ==
  Step(Bot) \/ ConfirmReceipt \/ Recheck \/ Boot \/ \E r \in Receipts : ResumeStale(r)

Next ==
  \/ User
  \/ BotStep
  \/ \E p \in Reprocessors : Step(p)
  \/ \E p \in Procs : Abandon(p)
  \/ Crash

Spec == Init /\ [][Next]_vars

\* The bot's code runs on and the container is restarted (`restart:
\* unless-stopped`); nothing makes a user or an operator do anything.
FairSpec == Spec /\ WF_vars(BotStep)

-----------------------------------------------------------------------------
(***************************************************************************)
(* Properties.                                                             *)
(***************************************************************************)

TypeOK ==
  /\ blob \in [Receipts -> {"none", "torn", "whole"}]
  /\ status \in [Receipts -> Status]
  /\ extraction \in [Receipts -> Extraction]
  /\ raw \in [Receipts -> Extraction \cup {NoRaw}]
  /\ reading \in [Receipts -> Extraction]
  /\ expenses \in [Receipts -> Seq(Expense)]
  /\ job \in [Procs -> Job]
  /\ unchanged \in BOOLEAN
  /\ sweep \subseteq Receipts

\* An original is on disk before its receipt exists, whatever is interrupted:
\* there is no receipt that was never stored (pipeline.go:79-82).
OriginalStored == \A r \in Receipts : status[r] # "absent" => blob[r] # "none"

\* However the bot and the reprocess commands interleave, a receipt has at most
\* one expense in the totals, and a confirmed one has had an expense entered.
CountedOnce ==
  \A r \in Receipts :
    /\ \A i, j \in DOMAIN expenses[r] :
         ~expenses[r][i].voided /\ ~expenses[r][j].voided => i = j
    /\ status[r] = "confirmed" => expenses[r] # << >>

\* While a receipt is being read for the first time nobody has corrected it or
\* entered an expense for it, and it never comes back to that state.
PendingIsUntouched ==
  \A r \in Receipts :
    status[r] \in {"absent", "pending"} => raw[r] = NoRaw /\ expenses[r] = << >>

\* The edit_log of every expense is what the human changed in the model's
\* reading and nothing else (store/receipts.go:68, amend.go:116): it never
\* diffs corrections against a reading that another process replaced.
EditLogExact ==
  \A r \in Receipts : \A i \in DOMAIN expenses[r] :
    LET e == expenses[r][i] IN e.edits = EditsFromRaw(e.reading, e.data)

\* Confirm saves the draft as it is when the expense is entered, not as it was
\* when the tap was handled, and only a draft that passes validation.
ConfirmSavesTheDraft ==
  [][\A r \in Receipts :
       Len(expenses'[r]) > Len(expenses[r]) =>
         /\ Valid(extraction[r])
         /\ expenses'[r][Len(expenses'[r])].data = View(extraction[r])]_vars

\* An expense counts in the totals only while its receipt is confirmed; a draft
\* under review, a discarded or a failed receipt does not.  It holds as long as
\* the bot is alone.
ActiveIsConfirmed == \A r \in Receipts : Active(r) => status[r] = "confirmed"

\* The bot alone never loses the race of a guarded transition, so the card it
\* draws next (the outcome of the pipeline) shows the status of the row.
NoLostRace ==
  job[Bot].stage \in {"ready", "fail"} => status[job[Bot].doc] = job[Bot].from

\* The state of the lifecycle that a state of the database stands for.
LifeOf(r) ==
  IF status[r] # "confirmed" THEN status[r]
  ELSE IF Active(r) THEN "expense" ELSE "undone"
DraftOf(r) == IF Valid(extraction[r]) THEN View(extraction[r]) ELSE NoRaw
Counted(entered) ==
  IF \E i \in DOMAIN entered : ~entered[i].voided
  THEN entered[CHOOSE i \in DOMAIN entered : ~entered[i].voided].data
  ELSE NoRaw
LedgerOf(r) == Counted(expenses[r])

Lifecycle == INSTANCE ReceiptLifecycle WITH
  Receipts <- Receipts, Nothing <- NoRaw,
  Drafts <- Saved,
  life <- [r \in Receipts |-> LifeOf(r)],
  draft <- [r \in Receipts |-> DraftOf(r)],
  ledger <- [r \in Receipts |-> LedgerOf(r)]

\* The bot alone implements the lifecycle: what it writes in several statements,
\* with crashes between them, is what the README promises of a receipt.
ImplementsLifecycle == Lifecycle!LifeSpec

\* If the bot is not killed for ever, a photo it has accepted is read or
\* reported as failed: the boot sweep resumes what a crash interrupted.
BotStaysUp == <>[](job[Bot].stage # "down")
PendingIsResolved ==
  BotStaysUp => \A r \in Receipts : (status[r] = "pending") ~> (status[r] # "pending")

\* README.md:98, "discarding leaves the receipt on record but out of your totals".
DiscardedIsOutOfTotals ==
  \A r \in Receipts : status[r] = "discarded" => ~Active(r)
=============================================================================
