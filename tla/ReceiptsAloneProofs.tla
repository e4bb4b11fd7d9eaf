------------------------- MODULE ReceiptsAloneProofs -------------------------
(***************************************************************************)
(* Theorems of Receipts for a bot without reprocess commands beside it:    *)
(* whatever crashes and fails, it keeps what ReceiptLifecycle promises of  *)
(* a receipt, for every set of receipts, readings and corrections.         *)
(***************************************************************************)
EXTENDS ReceiptsProofs

\* The stages in which a handler relies on a status that it has read before.
Working == {"check", "load", "extract", "store", "ready", "fail", "fill"}
Rereadable == {"pending", "failed", "discarded", "confirmed"}
OnRecord == Status \ {"absent"}

\* What a handler of the bot relies on still holds: nobody else has written.
Undisturbed ==
  LET j == job[Bot] IN
  j.stage \in Working =>
    /\ j.from \in OnRecord /\ status[j.doc] = j.from
    /\ j.stage # "check" => ~Active(j.doc)
    /\ j.stage \in {"check", "load", "extract", "store", "ready"} => j.from \in Rereadable
    /\ j.stage = "fill" => /\ j.from \in {"awaiting_confirm", "failed"}
                           /\ j.held = extraction[j.doc]
    /\ j.stage = "ready" => Valid(extraction[j.doc])

AloneInv == ActiveIsConfirmed /\ Undisturbed

LEMMA AloneInit == Init => AloneInv
BY NoJobType DEF Init, AloneInv, ActiveIsConfirmed, Undisturbed, Active, Working, Procs

\* Goto keeps what the handler holds.
LEMMA GotoKeeps ==
  ASSUME TypeInv, NEW stage \in Stages, Goto(Bot, stage)
  PROVE  /\ job'[Bot].stage = stage /\ job'[Bot].doc = job[Bot].doc
         /\ job'[Bot].from = job[Bot].from /\ job'[Bot].held = job[Bot].held
<1>1. job \in [Procs -> Job] /\ Bot \in Procs /\ job[Bot] \in Job
  BY DEF TypeInv, TypeOK, Procs
<1> QED
  BY <1>1 DEF Goto, Job

\* A step that leaves the rows alone and the bot outside of its work.
LEMMA AloneRest ==
  ASSUME AloneInv, UNCHANGED <<status, expenses>>, job'[Bot].stage \notin Working
  PROVE  AloneInv'
BY DEF AloneInv, ActiveIsConfirmed, Undisturbed, Active

LEMMA AloneStart ==
  ASSUME TypeInv, AloneInv, NEW r \in Receipts,
         \/ ReceivePhoto(r) \/ TapRetry(r) \/ TapConfirm(r) \/ ResumeStale(r)
  PROVE  AloneInv'
<1>1. Bot \in Procs /\ job \in [Procs -> Job]
  BY DEF Procs, TypeInv, TypeOK
<1>2. CASE TapConfirm(r)
  <2>1. job'[Bot].stage = "confirm"
    BY <1>1, <1>2 DEF TapConfirm, NoJob
  <2> QED
    BY <1>2, <2>1, AloneRest DEF TapConfirm, rows, Working
<1>3. CASE ReceivePhoto(r) \/ TapRetry(r) \/ ResumeStale(r)
  <2>1. \E s \in {"put", "create", "read"} : Start(Bot, s, r)
    BY <1>3 DEF ReceivePhoto, TapRetry, ResumeStale
  <2>2. job'[Bot].stage \in {"put", "create", "read"}
    BY <1>1, <2>1, JobMoves DEF Stages
  <2> QED
    BY <1>3, <2>2, AloneRest DEF ReceivePhoto, TapRetry, ResumeStale, rows, Working
<1> QED
  BY <1>2, <1>3

LEMMA AloneStore ==
  ASSUME TypeInv, AloneInv, Truncate(Bot) \/ Write(Bot) \/ CreateReceipt(Bot) \/ Duplicate(Bot)
  PROVE  AloneInv'
<1>1. Bot \in Procs /\ job \in [Procs -> Job] /\ job[Bot] \in Job /\ job[Bot].doc \in Receipts
  BY DEF Procs, TypeInv, TypeOK, InHand, Truncate, Write, CreateReceipt, Duplicate
<1>2. CASE Truncate(Bot) \/ Write(Bot) \/ Duplicate(Bot)
  <2>1. job'[Bot].stage \in {"write", "create", "read", "idle"}
    BY <1>1, <1>2, JobMoves DEF Truncate, Write, Duplicate, Stages
  <2> QED
    BY <1>2, <2>1, AloneRest DEF Truncate, Write, Duplicate, rows, Working
<1>3. CASE CreateReceipt(Bot) /\ status[job[Bot].doc] # "absent"
  <2>1. job'[Bot].stage = "duplicate" /\ UNCHANGED <<status, expenses>>
    BY <1>1, <1>3, JobMoves DEF CreateReceipt, Stages
  <2> QED
    BY <2>1, AloneRest DEF Working
<1>4. CASE CreateReceipt(Bot) /\ status[job[Bot].doc] = "absent"
  <2> DEFINE r == job[Bot].doc
  <2>1. ~Active(r)
    BY <1>1, <1>4 DEF AloneInv, ActiveIsConfirmed
  <2>2. /\ status' = [status EXCEPT ![r] = "pending"] /\ UNCHANGED expenses
        /\ job' = [job EXCEPT ![Bot].stage = "extract", ![Bot].from = "pending"]
    BY <1>4 DEF CreateReceipt
  <2>3. job'[Bot].stage = "extract" /\ job'[Bot].from = "pending" /\ job'[Bot].doc = r
    BY <1>1, <2>2 DEF Job
  <2>4. status'[r] = "pending" /\ \A q \in Receipts \ {r} : status'[q] = status[q]
    BY <1>1, <2>2 DEF TypeInv, TypeOK
  <2>5. \A q \in Receipts : Active(q)' <=> Active(q)
    BY <2>2 DEF Active
  <2>6. ActiveIsConfirmed'
    BY <2>1, <2>4, <2>5 DEF AloneInv, ActiveIsConfirmed
  <2>7. Undisturbed'
    BY <1>1, <2>1, <2>3, <2>4, <2>5 DEF Undisturbed, Rereadable, OnRecord, Status
  <2> QED
    BY <2>6, <2>7 DEF AloneInv
<1> QED
  BY <1>2, <1>3, <1>4

\* A handler of the bot that reads, and goes on with what it has read.
LEMMA AloneRead ==
  ASSUME TypeInv, AloneInv,
         ReadReceipt(Bot) \/ CheckVoided(Bot) \/ LoadBlob(Bot) \/ Extract(Bot)
  PROVE  AloneInv'
<1>1. Bot \in Procs /\ job \in [Procs -> Job] /\ job[Bot] \in Job /\ job[Bot].doc \in Receipts
  BY DEF Procs, TypeInv, TypeOK, InHand, ReadReceipt, CheckVoided, LoadBlob, Extract
<1> DEFINE r == job[Bot].doc
<1>2. /\ UNCHANGED <<status, extraction, expenses>>
      /\ \A q \in Receipts : Active(q)' <=> Active(q)
  BY DEF ReadReceipt, CheckVoided, LoadBlob, Extract, rows, Active
<1>3. CASE Done(Bot)
  <2>1. job'[Bot].stage = "idle"
    BY <1>1, <1>3, JobMoves
  <2> QED
    BY <1>2, <2>1, AloneRest DEF Working
<1>4. CASE ReadReceipt(Bot) /\ ~Done(Bot)
  <2>1. /\ status[r] \in Rereadable
        /\ job'[Bot].doc = r /\ job'[Bot].from = status[r]
        /\ \/ job'[Bot].stage = "load" /\ status[r] # "confirmed"
           \/ job'[Bot].stage = "check"
    BY <1>1, <1>4 DEF ReadReceipt, Job, Rereadable
  <2>2. job'[Bot].stage # "check" => ~Active(r)
    BY <1>1, <2>1 DEF AloneInv, ActiveIsConfirmed
  <2>3. Undisturbed'
    BY <1>1, <1>2, <2>1, <2>2 DEF Undisturbed, Rereadable, OnRecord, Status
  <2> QED
    BY <1>2, <2>3 DEF AloneInv, ActiveIsConfirmed
<1>5. CASE (CheckVoided(Bot) \/ LoadBlob(Bot)) /\ ~Done(Bot)
  <2>1. \/ Goto(Bot, "load") /\ ~Active(r)
        \/ Goto(Bot, "extract") /\ job[Bot].stage = "load"
    BY <1>5 DEF CheckVoided, LoadBlob
  <2>2. /\ job'[Bot].stage \in {"load", "extract"} /\ job'[Bot].doc = r
        /\ job'[Bot].from = job[Bot].from
    BY <2>1, GotoKeeps DEF Stages
  <2>3. ~Active(r) /\ status[r] = job[Bot].from /\ job[Bot].from \in Rereadable
    BY <1>5, <2>1 DEF AloneInv, Undisturbed, Working, CheckVoided, LoadBlob
  <2>4. Undisturbed'
    BY <1>1, <1>2, <2>2, <2>3 DEF Undisturbed, Rereadable, OnRecord, Status
  <2> QED
    BY <1>2, <2>4 DEF AloneInv, ActiveIsConfirmed
<1>6. CASE Extract(Bot) /\ ~Done(Bot)
  <2>1. /\ job'[Bot].stage \in {"store", "fail"} /\ job'[Bot].doc = r
        /\ job'[Bot].from = job[Bot].from
    BY <1>1, <1>6 DEF Extract, Goto, Job
  <2>2. ~Active(r) /\ status[r] = job[Bot].from /\ job[Bot].from \in Rereadable
    BY <1>6 DEF AloneInv, Undisturbed, Working, Extract
  <2>3. Undisturbed'
    BY <1>1, <1>2, <2>1, <2>2 DEF Undisturbed, Rereadable, OnRecord, Status
  <2> QED
    BY <1>2, <2>3 DEF AloneInv, ActiveIsConfirmed
<1> QED
  BY <1>3, <1>4, <1>5, <1>6

LEMMA AloneSetExtraction ==
  ASSUME TypeInv, AloneInv, SetExtraction(Bot)
  PROVE  AloneInv'
<1> DEFINE r == job[Bot].doc  ex == job[Bot].held
<1>1. r \in Receipts /\ ex \in Extraction /\ Valid(ex) \in BOOLEAN
  BY DEF TypeInv, TypeOK, InHand, SetExtraction, Procs, Job, Valid
<1>2. /\ UNCHANGED <<status, expenses>> /\ extraction'[r] = ex
      /\ \A q \in Receipts : Active(q)' <=> Active(q)
  BY <1>1 DEF SetExtraction, Active, TypeInv, TypeOK
<1>3. /\ job'[Bot].stage = IF Valid(ex) THEN "ready" ELSE "fail"
      /\ job'[Bot].doc = r /\ job'[Bot].from = job[Bot].from
  BY GotoKeeps DEF SetExtraction, Stages
<1>4. /\ ~Active(r) /\ status[r] = job[Bot].from
      /\ job[Bot].from \in Rereadable /\ job[Bot].from \in OnRecord
  BY DEF AloneInv, Undisturbed, Working, SetExtraction
<1>5. Undisturbed'
  BY <1>1, <1>2, <1>3, <1>4 DEF Undisturbed, Valid
<1> QED
  BY <1>2, <1>5 DEF AloneInv, ActiveIsConfirmed

\* The transition is never lost, and leaves no expense behind in the totals.
LEMMA AloneSettle ==
  ASSUME TypeInv, AloneInv, Settle(Bot)
  PROVE  AloneInv'
<1> DEFINE r == job[Bot].doc
<1>1. r \in Receipts /\ Bot \in Procs
  BY DEF TypeInv, TypeOK, InHand, Settle, Procs
<1>2. ~Active(r)
  BY DEF AloneInv, Undisturbed, Working, Settle
<1>3. /\ \A q \in Receipts \ {r} : status'[q] = status[q]
      /\ \A q \in Receipts : Active(q)' <=> Active(q)
  BY <1>1 DEF Settle, Transition, Active, TypeInv, TypeOK
<1>4. job'[Bot].stage = "idle"
  BY <1>1, JobMoves DEF Settle
<1> QED
  BY <1>1, <1>2, <1>3, <1>4 DEF AloneInv, ActiveIsConfirmed, Undisturbed, Working

\* What is in hand after a correction has been merged and validated.
LEMMA AfterAmendStage ==
  ASSUME NEW ex \in Extraction, NEW from \in {"awaiting_confirm", "failed"}
  PROVE  /\ AfterAmend(ex, from) \in {"ready", "fail", "idle"}
         /\ AfterAmend(ex, from) = "ready" => Valid(ex) /\ from = "failed"
BY DEF AfterAmend

LEMMA AloneAmend ==
  ASSUME TypeInv, AloneInv, NEW r \in Receipts, NEW patch \in Patches, Amend(r, patch)
  PROVE  AloneInv'
<1> DEFINE ex == Merge(extraction[r], patch)
           stage == IF ex.merchant = Illegible /\ ex.merchant_canon # Illegible
                    THEN "fill" ELSE AfterAmend(ex, status[r])
<1>1. ex \in Extraction /\ status[r] \in {"awaiting_confirm", "failed"}
  BY MergeType DEF TypeInv, TypeOK, Amend, Amendable
<1>2. /\ stage \in {"fill", "ready", "fail", "idle"}
      /\ stage = "ready" => Valid(ex) /\ status[r] = "failed"
  BY <1>1, AfterAmendStage
<1>3. /\ UNCHANGED <<status, expenses>> /\ extraction'[r] = ex
      /\ \A q \in Receipts : Active(q)' <=> Active(q)
  BY DEF Amend, Active, TypeInv, TypeOK
<1>4. job'[Bot] = AmendJob(r, ex, status[r], stage)
  BY DEF Amend, TypeInv, TypeOK, Procs
<1>5. /\ job'[Bot].stage = stage
      /\ stage # "idle" => /\ job'[Bot].doc = r /\ job'[Bot].from = status[r]
                           /\ job'[Bot].held = ex
  BY <1>2, <1>4 DEF AmendJob, NoJob
<1>6. ~Active(r)
  BY <1>1 DEF AloneInv, ActiveIsConfirmed
<1>7. Undisturbed'
  <2>1. CASE stage = "idle"
    BY <1>5, <2>1 DEF Undisturbed, Working
  <2>2. CASE stage # "idle"
    BY <1>1, <1>2, <1>3, <1>5, <1>6, <2>2
    DEF Undisturbed, Working, Rereadable, OnRecord, Status, Valid
  <2> QED
    BY <2>1, <2>2
<1> QED
  BY <1>3, <1>7 DEF AloneInv, ActiveIsConfirmed

LEMMA AloneFill ==
  ASSUME TypeInv, AloneInv, FillMerchant(Bot)
  PROVE  AloneInv'
<1> DEFINE r == job[Bot].doc
           fill == [f \in {"merchant"} |-> job[Bot].held.merchant_canon]
           ex == Merge(job[Bot].held, fill)
           stage == AfterAmend(ex, job[Bot].from)
<1>1. r \in Receipts /\ job[Bot].held \in Extraction /\ Bot \in Procs
  BY DEF TypeInv, TypeOK, InHand, FillMerchant, Procs, Job
<1>2. /\ job[Bot].from \in {"awaiting_confirm", "failed"} /\ status[r] = job[Bot].from
      /\ job[Bot].held = extraction[r] /\ ~Active(r)
  BY DEF AloneInv, Undisturbed, Working, FillMerchant
<1>3. ex \in Extraction
  BY <1>1, FillType DEF Extraction
<1>4. /\ stage \in {"ready", "fail", "idle"}
      /\ stage = "ready" => Valid(ex) /\ job[Bot].from = "failed"
  BY <1>2, <1>3, AfterAmendStage
<1>5. Amendable(r)
  BY <1>2 DEF Amendable
<1>6. /\ UNCHANGED <<status, expenses>> /\ extraction'[r] = ex
      /\ \A q \in Receipts : Active(q)' <=> Active(q)
  BY <1>1, <1>2, <1>5 DEF FillMerchant, Active, TypeInv, TypeOK
<1>7. job'[Bot] = AmendJob(r, ex, job[Bot].from, stage)
  BY <1>1, <1>5 DEF FillMerchant, TypeInv, TypeOK
<1>8. /\ job'[Bot].stage = stage
      /\ stage # "idle" => /\ job'[Bot].doc = r /\ job'[Bot].from = job[Bot].from
                           /\ job'[Bot].held = ex
  BY <1>4, <1>7 DEF AmendJob, NoJob
<1>9. Undisturbed'
  <2>1. CASE stage = "idle"
    BY <1>8, <2>1 DEF Undisturbed, Working
  <2>2. CASE stage # "idle"
    BY <1>1, <1>2, <1>4, <1>6, <1>8, <2>2
    DEF Undisturbed, Working, Rereadable, OnRecord, Status, Valid
  <2> QED
    BY <2>1, <2>2
<1> QED
  BY <1>6, <1>9 DEF AloneInv, ActiveIsConfirmed

LEMMA AloneConfirm ==
  ASSUME TypeInv, AloneInv, ConfirmReceipt
  PROVE  AloneInv'
<1> DEFINE r == job[Bot].doc
<1>1. r \in Receipts /\ Bot \in Procs
  BY DEF TypeInv, TypeOK, InHand, ConfirmReceipt, Procs
<1>2. job'[Bot].stage \in {"idle", "recheck"}
  BY <1>1, JobMoves DEF ConfirmReceipt, Stages
<1>3. CASE UNCHANGED <<status, expenses>>
  BY <1>2, <1>3, AloneRest DEF Working
<1>4. CASE /\ status' = [status EXCEPT ![r] = "confirmed"]
           /\ expenses' = [expenses EXCEPT ![r] = Append(@, NewExpense(r))]
  <2>1. status'[r] = "confirmed" /\ \A q \in Receipts \ {r} : status'[q] = status[q]
    BY <1>1, <1>4 DEF TypeInv, TypeOK
  <2>2. \A q \in Receipts \ {r} : expenses'[q] = expenses[q]
    BY <1>1, <1>4 DEF TypeInv, TypeOK
  <2> QED
    BY <1>2, <2>1, <2>2 DEF AloneInv, ActiveIsConfirmed, Active, Undisturbed, Working
<1> QED
  BY <1>3, <1>4 DEF ConfirmReceipt, rows

\* An undo takes an expense out of the totals, and puts none in.
LEMMA VoidActive ==
  ASSUME TypeInv, NEW r \in Receipts, VoidTransaction(r)
  PROVE  \A q \in Receipts : Active(q)' => Active(q)
<1>1. PICK i \in DOMAIN expenses[r] :
        expenses' = [expenses EXCEPT ![r][i].voided = TRUE]
  BY DEF VoidTransaction
<1>2. expenses \in [Receipts -> Seq(Expense)]
  BY DEF TypeInv, TypeOK
<1>3. /\ DOMAIN expenses'[r] = DOMAIN expenses[r]
      /\ \A k \in DOMAIN expenses[r] : ~expenses'[r][k].voided => ~expenses[r][k].voided
  BY <1>1, <1>2 DEF Expense
<1>4. \A q \in Receipts \ {r} : expenses'[q] = expenses[q]
  BY <1>1, <1>2
<1> QED
  BY <1>3, <1>4 DEF Active

LEMMA AloneUser ==
  ASSUME TypeInv, AloneInv, NEW r \in Receipts, DiscardReceipt(r) \/ VoidTransaction(r)
  PROVE  AloneInv'
<1>1. CASE DiscardReceipt(r)
  <2>1. ~Active(r) /\ job[Bot].stage = "idle" /\ job' = job /\ expenses' = expenses
    BY <1>1 DEF DiscardReceipt, BotIsFree, AloneInv, ActiveIsConfirmed
  <2>2. \A q \in Receipts \ {r} : status'[q] = status[q]
    BY <1>1 DEF DiscardReceipt, TypeInv, TypeOK
  <2> QED
    BY <2>1, <2>2 DEF AloneInv, ActiveIsConfirmed, Active, Undisturbed, Working
<1>2. CASE VoidTransaction(r)
  <2>1. UNCHANGED <<status, extraction, job>>
    BY <1>2 DEF VoidTransaction
  <2>2. job[Bot].stage \in Working => job[Bot].doc \in Receipts
    BY DEF TypeInv, InHand, Working, Procs
  <2> QED
    BY <1>2, <2>1, <2>2, VoidActive DEF AloneInv, ActiveIsConfirmed, Undisturbed, Valid
<1> QED
  BY <1>1, <1>2

LEMMA AloneEnd ==
  ASSUME TypeInv, AloneInv, Abandon(Bot) \/ Recheck \/ Boot \/ Crash
  PROVE  AloneInv'
<1>1. job'[Bot].stage \in {"idle", "down"}
  BY JobMoves DEF Abandon, Recheck, Boot, Crash, NoJob, Procs, TypeInv, TypeOK
<1> QED
  BY <1>1, AloneRest DEF Abandon, Recheck, Boot, Crash, rows, Working

LEMMA AloneStep ==
  ASSUME Reprocessors = {}, TypeInv, AloneInv, [Next]_vars
  PROVE  AloneInv'
<1>1. CASE UNCHANGED vars
  BY <1>1 DEF vars, AloneInv, ActiveIsConfirmed, Undisturbed, Active, Valid
<1> QED
  BY <1>1, AloneStart, AloneStore, AloneRead, AloneSetExtraction, AloneSettle, AloneAmend,
     AloneFill, AloneConfirm, AloneUser, AloneEnd
  DEF Next, User, BotStep, Step, Procs

\* A bot without reprocess commands beside it: only a confirmed receipt has an
\* expense in the totals, whatever is interrupted or fails.
THEOREM AloneActiveIsConfirmed ==
  ASSUME Reprocessors = {} PROVE Spec => []ActiveIsConfirmed
<1>1. Init => TypeInv /\ AloneInv
  BY TypeInit, AloneInit
<1>2. TypeInv /\ AloneInv /\ [Next]_vars => (TypeInv /\ AloneInv)'
  BY TypeStep, AloneStep
<1>3. AloneInv => ActiveIsConfirmed
  BY DEF AloneInv
<1> QED
  BY <1>1, <1>2, <1>3, PTL DEF Spec

\* ... and it never loses the race of a guarded transition.
THEOREM AloneNoLostRace ==
  ASSUME Reprocessors = {} PROVE Spec => []NoLostRace
<1>1. Init => TypeInv /\ AloneInv
  BY TypeInit, AloneInit
<1>2. TypeInv /\ AloneInv /\ [Next]_vars => (TypeInv /\ AloneInv)'
  BY TypeStep, AloneStep
<1>3. AloneInv => NoLostRace
  BY DEF AloneInv, Undisturbed, Working, NoLostRace
<1> QED
  BY <1>1, <1>2, <1>3, PTL DEF Spec

-----------------------------------------------------------------------------
(***************************************************************************)
(* The refinement.  Each statement either does to one receipt what an      *)
(* action of ReceiptLifecycle does, or changes nothing that it speaks of.  *)
(***************************************************************************)

\* What the lifecycle sees of a receipt.
SameFor(r) == UNCHANGED <<LifeOf(r), DraftOf(r), LedgerOf(r)>>

LEMMA CountedUnique ==
  ASSUME NEW entered, NEW i \in DOMAIN entered, ~entered[i].voided,
         \A j \in DOMAIN entered : ~entered[j].voided => j = i
  PROVE  Counted(entered) = entered[i].data
<1>1. (CHOOSE j \in DOMAIN entered : ~entered[j].voided) = i
  OBVIOUS
<1> QED
  BY <1>1 DEF Counted

LEMMA CountedNone == \A r \in Receipts : ~Active(r) => LedgerOf(r) = NoRaw
BY DEF Active, LedgerOf, Counted

LEMMA DraftOfValid ==
  ASSUME TypeInv, NEW r \in Receipts
  PROVE  Valid(extraction[r]) => DraftOf(r) = View(extraction[r]) /\ DraftOf(r) # NoRaw
BY ViewType, LegibleAssumption DEF TypeInv, TypeOK, DraftOf, Saved

LEMMA SameRows ==
  ASSUME NEW r \in Receipts, status'[r] = status[r], extraction'[r] = extraction[r],
         expenses'[r] = expenses[r]
  PROVE  SameFor(r)
BY DEF SameFor, LifeOf, DraftOf, LedgerOf, Active

\* A step that touches one receipt only, as the lifecycle sees it.
LEMMA OneReceipt ==
  ASSUME NEW r \in Receipts, \A q \in Receipts \ {r} : SameFor(q)
  PROVE  /\ UNCHANGED LifeOf(r) => UNCHANGED [q \in Receipts |-> LifeOf(q)]
         /\ UNCHANGED DraftOf(r) => UNCHANGED [q \in Receipts |-> DraftOf(q)]
         /\ UNCHANGED LedgerOf(r) => UNCHANGED [q \in Receipts |-> LedgerOf(q)]
         /\ [q \in Receipts |-> LifeOf(q)]' =
              [[q \in Receipts |-> LifeOf(q)] EXCEPT ![r] = LifeOf(r)']
         /\ [q \in Receipts |-> DraftOf(q)]' =
              [[q \in Receipts |-> DraftOf(q)] EXCEPT ![r] = DraftOf(r)']
         /\ [q \in Receipts |-> LedgerOf(q)]' =
              [[q \in Receipts |-> LedgerOf(q)] EXCEPT ![r] = LedgerOf(r)']
BY DEF SameFor

LEMMA LifeStutter ==
  ASSUME \A r \in Receipts : SameFor(r)
  PROVE  UNCHANGED Lifecycle!lifeVars
BY DEF SameFor, Lifecycle!lifeVars

LEMMA LifeAccept ==
  ASSUME NEW r \in Receipts, \A q \in Receipts \ {r} : SameFor(q),
         LifeOf(r) = "absent", LifeOf(r)' = "pending",
         UNCHANGED <<DraftOf(r), LedgerOf(r)>>
  PROVE  Lifecycle!Accept(r)
BY OneReceipt DEF Lifecycle!Accept, Lifecycle!Move

LEMMA LifeRedraft ==
  ASSUME NEW r \in Receipts, \A q \in Receipts \ {r} : SameFor(q),
         LifeOf(r) \notin {"absent", "expense"}, DraftOf(r)' \in Saved \cup {NoRaw},
         UNCHANGED <<LifeOf(r), LedgerOf(r)>>
  PROVE  Lifecycle!Redraft(r)
BY OneReceipt DEF Lifecycle!Redraft

LEMMA LifeOffer ==
  ASSUME NEW r \in Receipts, \A q \in Receipts \ {r} : SameFor(q),
         LifeOf(r) \in {"pending", "failed", "discarded", "undone"}, DraftOf(r) # NoRaw,
         LifeOf(r)' = "awaiting_confirm", UNCHANGED <<DraftOf(r), LedgerOf(r)>>
  PROVE  Lifecycle!Offer(r)
BY OneReceipt DEF Lifecycle!Offer, Lifecycle!Move

LEMMA LifeFail ==
  ASSUME NEW r \in Receipts, \A q \in Receipts \ {r} : SameFor(q),
         LifeOf(r) \in {"pending", "awaiting_confirm", "failed", "discarded", "undone"},
         LifeOf(r)' = "failed", UNCHANGED <<DraftOf(r), LedgerOf(r)>>
  PROVE  Lifecycle!Fail(r)
BY OneReceipt DEF Lifecycle!Fail, Lifecycle!Move

LEMMA LifeConfirm ==
  ASSUME NEW r \in Receipts, \A q \in Receipts \ {r} : SameFor(q),
         LifeOf(r) = "awaiting_confirm", DraftOf(r) # NoRaw, LifeOf(r)' = "expense",
         LedgerOf(r)' = DraftOf(r), UNCHANGED DraftOf(r)
  PROVE  Lifecycle!Confirm(r)
BY OneReceipt DEF Lifecycle!Confirm, Lifecycle!Move

LEMMA LifeDiscard ==
  ASSUME NEW r \in Receipts, \A q \in Receipts \ {r} : SameFor(q),
         LifeOf(r) \in {"awaiting_confirm", "failed"}, LifeOf(r)' = "discarded",
         UNCHANGED <<DraftOf(r), LedgerOf(r)>>
  PROVE  Lifecycle!Discard(r)
BY OneReceipt DEF Lifecycle!Discard, Lifecycle!Move

LEMMA LifeUndo ==
  ASSUME NEW r \in Receipts, \A q \in Receipts \ {r} : SameFor(q),
         LifeOf(r) = "expense", LifeOf(r)' = "undone", LedgerOf(r)' = NoRaw,
         UNCHANGED DraftOf(r)
  PROVE  Lifecycle!Undo(r)
BY OneReceipt DEF Lifecycle!Undo, Lifecycle!Move

\* Everything that is known of a state of the bot alone.
AllInv == TypeInv /\ EditInv /\ LedgerInv /\ OriginInv /\ AloneInv

\* The statements that write no row, or lose their guard.
LEMMA RefineQuiet ==
  ASSUME UNCHANGED <<status, extraction, expenses>>
  PROVE  UNCHANGED Lifecycle!lifeVars
BY SameRows, LifeStutter

LEMMA RefineCreate ==
  ASSUME AllInv, NEW r \in Receipts, r = job[Bot].doc, CreateReceipt(Bot)
  PROVE  [Lifecycle!LifeNext]_(Lifecycle!lifeVars)
<1>2. CASE status[r] # "absent"
  BY <1>2, RefineQuiet DEF CreateReceipt
<1>3. CASE status[r] = "absent"
  <2>1. /\ status' = [status EXCEPT ![r] = "pending"]
        /\ UNCHANGED <<extraction, expenses>>
    BY <1>3 DEF CreateReceipt
  <2>2. \A q \in Receipts \ {r} : SameFor(q)
    BY <2>1, SameRows DEF AllInv, TypeInv, TypeOK
  <2>3. LifeOf(r) = "absent" /\ LifeOf(r)' = "pending" /\ UNCHANGED <<DraftOf(r), LedgerOf(r)>>
    BY <1>3, <2>1 DEF LifeOf, DraftOf, LedgerOf, AllInv, TypeInv, TypeOK
  <2>4. Lifecycle!Accept(r)
    BY <2>2, <2>3, LifeAccept
  <2> QED
    BY <2>4 DEF Lifecycle!LifeNext
<1> QED
  BY <1>2, <1>3

\* A draft that is read or corrected.
LEMMA RefineRedraft ==
  ASSUME AllInv, TypeInv', NEW r \in Receipts, UNCHANGED <<status, expenses>>,
         \A q \in Receipts \ {r} : extraction'[q] = extraction[q],
         status[r] # "absent", ~Active(r)
  PROVE  [Lifecycle!LifeNext]_(Lifecycle!lifeVars)
<1>1. \A q \in Receipts \ {r} : SameFor(q)
  BY SameRows
<1>2. DraftOf(r)' \in Saved \cup {NoRaw}
  BY ViewType DEF TypeInv, TypeOK, DraftOf
<1>3. LifeOf(r) \notin {"absent", "expense"} /\ UNCHANGED <<LifeOf(r), LedgerOf(r)>>
  BY DEF LifeOf, LedgerOf, Active, AllInv, TypeInv, TypeOK, Status
<1>4. Lifecycle!Redraft(r)
  BY <1>1, <1>2, <1>3, LifeRedraft
<1> QED
  BY <1>4 DEF Lifecycle!LifeNext

LEMMA RefineSettle ==
  ASSUME AllInv, NEW r \in Receipts, r = job[Bot].doc, Settle(Bot)
  PROVE  [Lifecycle!LifeNext]_(Lifecycle!lifeVars)
<1> DEFINE to == IF job[Bot].stage = "ready" THEN "awaiting_confirm" ELSE "failed"
<1>2. /\ status[r] = job[Bot].from /\ ~Active(r) /\ job[Bot].from \in OnRecord
      /\ job[Bot].stage = "ready" => job[Bot].from \in Rereadable /\ Valid(extraction[r])
  BY DEF AllInv, AloneInv, Undisturbed, Working, Settle
<1>3. status' = [status EXCEPT ![r] = to] /\ UNCHANGED <<extraction, expenses>>
  BY <1>2 DEF Settle, Transition
<1>4. \A q \in Receipts \ {r} : SameFor(q)
  BY <1>3, SameRows DEF AllInv, TypeInv, TypeOK
<1>5. LifeOf(r)' = to /\ UNCHANGED <<DraftOf(r), LedgerOf(r)>>
  BY <1>3 DEF LifeOf, DraftOf, LedgerOf, AllInv, TypeInv, TypeOK
<1>6. LifeOf(r) = IF status[r] = "confirmed" THEN "undone" ELSE status[r]
  BY <1>2 DEF LifeOf
<1>7. CASE job[Bot].stage = "ready"
  <2>1. DraftOf(r) # NoRaw
    BY <1>2, <1>7, DraftOfValid DEF AllInv
  <2>2. Lifecycle!Offer(r)
    BY <1>2, <1>4, <1>5, <1>6, <1>7, <2>1, LifeOffer DEF Rereadable
  <2> QED
    BY <2>2 DEF Lifecycle!LifeNext
<1>8. CASE job[Bot].stage # "ready"
  <2>1. Lifecycle!Fail(r)
    BY <1>2, <1>4, <1>5, <1>6, <1>8, LifeFail DEF OnRecord, Status
  <2> QED
    BY <2>1 DEF Lifecycle!LifeNext
<1> QED
  BY <1>7, <1>8

LEMMA RefineConfirm ==
  ASSUME AllInv, NEW r \in Receipts, r = job[Bot].doc, ConfirmReceipt
  PROVE  [Lifecycle!LifeNext]_(Lifecycle!lifeVars)
<1>1. Bot \in Procs /\ expenses \in [Receipts -> Seq(Expense)]
  BY DEF AllInv, TypeInv, TypeOK, InHand, ConfirmReceipt, Procs
<1>2. CASE UNCHANGED rows
  BY <1>2, RefineQuiet DEF rows
<1>3. CASE /\ ConfirmGuard(r) /\ ~Active(r)
           /\ status' = [status EXCEPT ![r] = "confirmed"]
           /\ expenses' = [expenses EXCEPT ![r] = Append(@, NewExpense(r))]
           /\ UNCHANGED extraction
  <2>1. \A q \in Receipts \ {r} : SameFor(q)
    BY <1>1, <1>3, SameRows DEF AllInv, TypeInv, TypeOK
  <2>2. job[Bot].held = extraction[r] /\ Valid(extraction[r])
    BY <1>1, <1>3 DEF ConfirmReceipt, ConfirmGuard, AllInv, EditInv, ConfirmHoldsTheRow,
                      TypeInv, InHand
  <2>3. DraftOf(r) = View(extraction[r]) /\ DraftOf(r) # NoRaw /\ UNCHANGED DraftOf(r)
    BY <1>1, <1>3, <2>2, DraftOfValid DEF AllInv, DraftOf
  <2>4. NewExpense(r).data = DraftOf(r) /\ ~NewExpense(r).voided
    BY <2>2, <2>3 DEF NewExpense
  <2> DEFINE n == Len(expenses[r]) + 1
  <2>5. NewExpense(r) \in Expense
    BY NewExpenseType DEF AllInv, ConfirmReceipt
  <2>6. /\ n \in DOMAIN expenses'[r] /\ expenses'[r][n] = NewExpense(r)
        /\ \A j \in DOMAIN expenses'[r] : j # n => /\ j \in DOMAIN expenses[r]
                                                   /\ expenses'[r][j] = expenses[r][j]
    BY <1>1, <1>3, <2>5
  <2>7. \A j \in DOMAIN expenses'[r] : ~expenses'[r][j].voided => j = n
    BY <1>3, <2>6 DEF Active
  <2>8. LedgerOf(r)' = DraftOf(r)
    BY <2>4, <2>6, <2>7, CountedUnique DEF LedgerOf
  <2>9. LifeOf(r) = "awaiting_confirm" /\ LifeOf(r)' = "expense"
    <3>1. status[r] = "awaiting_confirm" /\ status'[r] = "confirmed"
      BY <1>1, <1>3 DEF ConfirmGuard, AllInv, TypeInv, TypeOK
    <3>2. Active(r)'
      BY <2>4, <2>6 DEF Active
    <3> QED
      BY <3>1, <3>2 DEF LifeOf
  <2>10. Lifecycle!Confirm(r)
    BY <1>1, <2>1, <2>3, <2>8, <2>9, LifeConfirm
  <2> QED
    BY <1>1, <2>10 DEF Lifecycle!LifeNext
<1> QED
  BY <1>2, <1>3 DEF ConfirmReceipt, InsertFails, rows

LEMMA RefineDiscard ==
  ASSUME AllInv, NEW r \in Receipts, DiscardReceipt(r)
  PROVE  [Lifecycle!LifeNext]_(Lifecycle!lifeVars)
<1>1. \A q \in Receipts \ {r} : SameFor(q)
  BY SameRows DEF DiscardReceipt, AllInv, TypeInv, TypeOK
<1>2. status[r] \in {"awaiting_confirm", "failed"} /\ status'[r] = "discarded"
  BY DEF DiscardReceipt, AllInv, TypeInv, TypeOK
<1>3. LifeOf(r) \in {"awaiting_confirm", "failed"} /\ LifeOf(r)' = "discarded"
  BY <1>2 DEF LifeOf
<1>4. UNCHANGED <<DraftOf(r), LedgerOf(r)>>
  BY DEF DiscardReceipt, DraftOf, LedgerOf
<1>5. Lifecycle!Discard(r)
  BY <1>1, <1>3, <1>4, LifeDiscard
<1> QED
  BY <1>5 DEF Lifecycle!LifeNext

\* An undo takes the only expense out of the totals.
LEMMA RefineVoid ==
  ASSUME AllInv, NEW r \in Receipts, VoidTransaction(r)
  PROVE  [Lifecycle!LifeNext]_(Lifecycle!lifeVars)
<1>1. PICK i \in DOMAIN expenses[r] :
        ~expenses[r][i].voided /\ expenses' = [expenses EXCEPT ![r][i].voided = TRUE]
  BY DEF VoidTransaction
<1>2. expenses \in [Receipts -> Seq(Expense)] /\ UNCHANGED <<status, extraction>>
  BY DEF AllInv, TypeInv, TypeOK, VoidTransaction
<1>3. /\ DOMAIN expenses'[r] = DOMAIN expenses[r] /\ expenses'[r][i].voided
      /\ \A k \in DOMAIN expenses[r] : ~expenses'[r][k].voided => ~expenses[r][k].voided
  BY <1>1, <1>2 DEF Expense
<1>4. \A k \in DOMAIN expenses[r] : ~expenses[r][k].voided => k = i
  BY <1>1 DEF AllInv, LedgerInv, CountedOnce
<1>5. Active(r) /\ ~Active(r)'
  BY <1>1, <1>3, <1>4 DEF Active
<1>6. \A q \in Receipts \ {r} : SameFor(q)
  BY <1>1, <1>2, SameRows
<1>7. LifeOf(r) = "expense" /\ LifeOf(r)' = "undone"
  BY <1>2, <1>5 DEF LifeOf, AllInv, AloneInv, ActiveIsConfirmed
<1>8. LedgerOf(r)' = NoRaw
  BY <1>5, CountedNone DEF LedgerOf, Active, Counted
<1>9. UNCHANGED DraftOf(r)
  BY <1>2 DEF DraftOf
<1>10. Lifecycle!Undo(r)
  BY <1>6, <1>7, <1>8, <1>9, LifeUndo
<1> QED
  BY <1>10 DEF Lifecycle!LifeNext

LEMMA RefineInit == Init => Lifecycle!LifeInit
<1> SUFFICES ASSUME Init PROVE Lifecycle!LifeInit
  OBVIOUS
<1>1. \A r \in Receipts : LifeOf(r) = "absent" /\ DraftOf(r) = NoRaw /\ LedgerOf(r) = NoRaw
  <2> SUFFICES ASSUME NEW r \in Receipts
               PROVE  LifeOf(r) = "absent" /\ DraftOf(r) = NoRaw /\ LedgerOf(r) = NoRaw
    OBVIOUS
  <2>1. status[r] = "absent" /\ extraction[r] = Blank /\ expenses[r] = << >>
    BY DEF Init
  <2>2. ~Valid(extraction[r]) /\ ~Active(r)
    BY <2>1 DEF Valid, Blank, Active
  <2> QED
    BY <2>1, <2>2, CountedNone DEF LifeOf, DraftOf
<1> QED
  BY <1>1 DEF Lifecycle!LifeInit

LEMMA RefineStep ==
  ASSUME Reprocessors = {}, AllInv, TypeInv', [Next]_vars
  PROVE  [Lifecycle!LifeNext]_(Lifecycle!lifeVars)
<1>1. CASE UNCHANGED <<status, extraction, expenses>>
  BY <1>1, RefineQuiet
<1>2. CASE SetExtraction(Bot)
  <2>1. job[Bot].doc \in Receipts
    BY <1>2 DEF AllInv, TypeInv, InHand, SetExtraction, Procs
  <2>2. status[job[Bot].doc] # "absent" /\ ~Active(job[Bot].doc)
    BY <1>2 DEF AllInv, AloneInv, Undisturbed, Working, OnRecord, SetExtraction
  <2>3. \A q \in Receipts \ {job[Bot].doc} : extraction'[q] = extraction[q]
    BY <1>2, <2>1 DEF SetExtraction, AllInv, TypeInv, TypeOK
  <2> QED
    BY <1>2, <2>1, <2>2, <2>3, RefineRedraft DEF SetExtraction
<1>3. ASSUME NEW r \in Receipts, NEW patch \in Patches, Amend(r, patch)
      PROVE  [Lifecycle!LifeNext]_(Lifecycle!lifeVars)
  <2>1. status[r] \in {"awaiting_confirm", "failed"} /\ ~Active(r)
    BY <1>3 DEF Amend, Amendable, AllInv, AloneInv, ActiveIsConfirmed
  <2>2. \A q \in Receipts \ {r} : extraction'[q] = extraction[q]
    BY <1>3 DEF Amend, AllInv, TypeInv, TypeOK
  <2> QED
    BY <1>3, <2>1, <2>2, RefineRedraft DEF Amend
<1>4. CASE FillMerchant(Bot)
  <2>1. job[Bot].doc \in Receipts
    BY <1>4 DEF AllInv, TypeInv, InHand, FillMerchant, Procs
  <2>2. status[job[Bot].doc] # "absent" /\ ~Active(job[Bot].doc)
    BY <1>4 DEF AllInv, AloneInv, Undisturbed, Working, OnRecord, FillMerchant
  <2>3. \A q \in Receipts \ {job[Bot].doc} : extraction'[q] = extraction[q]
    BY <1>4, <2>1 DEF FillMerchant, AllInv, TypeInv, TypeOK
  <2> QED
    BY <1>4, <2>1, <2>2, <2>3, RefineRedraft DEF FillMerchant
<1>5. CASE CreateReceipt(Bot) \/ Settle(Bot) \/ ConfirmReceipt
  <2>1. job[Bot].doc \in Receipts
    BY <1>5 DEF AllInv, TypeInv, InHand, CreateReceipt, Settle, ConfirmReceipt, Procs
  <2> QED
    BY <1>5, <2>1, RefineCreate, RefineSettle, RefineConfirm
<1>6. CASE \E r \in Receipts : DiscardReceipt(r) \/ VoidTransaction(r)
  BY <1>6, RefineDiscard, RefineVoid
<1> QED
  BY <1>1, <1>2, <1>3, <1>4, <1>5, <1>6
  DEF Next, User, BotStep, Step, Procs, vars, rows, ReceivePhoto, TapRetry, TapConfirm,
      CommandReprocess, Truncate, Write, Duplicate, ReadReceipt, CheckVoided, LoadBlob,
      Extract, Recheck, Abandon, Crash, Boot, ResumeStale

\* The bot alone implements what the README promises of a receipt.
THEOREM AloneImplementsLifecycle ==
  ASSUME Reprocessors = {} PROVE Spec => ImplementsLifecycle
<1>1. Init => AllInv /\ Lifecycle!LifeInit
  BY TypeInit, EditInit, LedgerInit, OriginInit, AloneInit, RefineInit DEF AllInv
<1>2. AllInv /\ [Next]_vars => AllInv'
  BY TypeStep, EditStep, LedgerStep, OriginStep, AloneStep DEF AllInv
<1>3. AllInv /\ AllInv' /\ [Next]_vars => [Lifecycle!LifeNext]_(Lifecycle!lifeVars)
  BY RefineStep DEF AllInv
<1> QED
  BY <1>1, <1>2, <1>3, PTL DEF Spec, ImplementsLifecycle, Lifecycle!LifeSpec
=============================================================================
