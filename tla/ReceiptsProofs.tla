--------------------------- MODULE ReceiptsProofs ---------------------------
(***************************************************************************)
(* Theorems of Receipts, for every set of receipts, reprocess commands,    *)
(* names, totals, readings and corrections.                                *)
(***************************************************************************)
EXTENDS Receipts, SequenceTheorems, TLAPS

(***************************************************************************)
(* Pure parts.                                                             *)
(***************************************************************************)

LEMMA MergeType ==
  ASSUME NEW ex \in Extraction, NEW patch \in Patches
  PROVE  Merge(ex, patch) \in Extraction
BY PatchAssumption DEF Merge, Extraction, Name, Amount

LEMMA FillType ==
  ASSUME NEW ex \in Extraction, NEW n \in Name
  PROVE  Merge(ex, [f \in {"merchant"} |-> n]) \in Extraction
BY DEF Merge, Extraction, Name, Amount

LEMMA ViewType ==
  ASSUME NEW ex \in Extraction, Valid(ex)
  PROVE  View(ex) \in Saved
BY CanonAssumption, LegibleAssumption DEF View, Valid, Extraction, Saved, Name, Amount

LEMMA EditsType ==
  ASSUME NEW ex \in Extraction, NEW view \in Saved
  PROVE  EditsFromRaw(ex, view) \in SUBSET FieldEdit
BY CanonAssumption, LegibleAssumption
   DEF EditsFromRaw, Extraction, Saved, Name, Amount, FieldEdit

\* A reading nobody corrected is saved without any edit.
LEMMA NoEditsOfReading ==
  ASSUME NEW ex \in Extraction, ex.merchant_canon = Illegible, Valid(ex)
  PROVE  EditsFromRaw(ex, View(ex)) = {}
BY CanonAssumption, LegibleAssumption
   DEF EditsFromRaw, View, Valid, Extraction, Name, Amount

LEMMA NoJobType == NoJob \in Job /\ NoJob.stage = "idle" /\ NoJob.doc = NoReceipt
BY DEF NoJob, Job, Stages, Status, Extraction, Blank, Name, Amount

-----------------------------------------------------------------------------
(***************************************************************************)
(* Types.                                                                  *)
(***************************************************************************)

\* A process in the middle of a handler has a receipt, and the row that a
\* confirm has read is a valid one.
InHand ==
  \A p \in Procs :
    /\ job[p].stage \notin {"idle", "down"} => job[p].doc \in Receipts
    /\ job[p].stage = "confirm" => Valid(job[p].held)

TypeInv == TypeOK /\ InHand

LEMMA TypeInit == Init => TypeInv
<1> SUFFICES ASSUME Init PROVE TypeInv
  OBVIOUS
<1>1. Blank \in Extraction /\ << >> \in Seq(Expense)
  BY DEF Blank, Extraction, Name, Amount
<1>2. job \in [Procs -> Job] /\ \A p \in Procs : job[p].stage = "idle"
  BY NoJobType DEF Init
<1> QED
  BY <1>1, <1>2 DEF Init, TypeInv, TypeOK, InHand, Status

\* The three ways a handler moves on.
LEMMA GotoType ==
  ASSUME TypeInv, NEW p \in Procs, NEW stage \in Stages \ {"confirm"},
         job[p].stage \notin {"idle", "down"}, Goto(p, stage)
  PROVE  job' \in [Procs -> Job] /\ InHand'
<1>1. job'[p] = [job[p] EXCEPT !.stage = stage]
  BY DEF Goto, TypeInv, TypeOK
<1>2. job[p] \in Job
  BY DEF TypeInv, TypeOK
<1>3. job'[p] \in Job /\ job'[p].stage = stage /\ job'[p].doc = job[p].doc
  BY <1>1, <1>2 DEF Job
<1>4. \A q \in Procs \ {p} : job'[q] = job[q]
  BY DEF Goto, TypeInv, TypeOK
<1>5. job' \in [Procs -> Job]
  BY <1>3 DEF Goto, TypeInv, TypeOK
<1> QED
  BY <1>3, <1>4, <1>5 DEF InHand, TypeInv

LEMMA GotoFromType ==
  ASSUME TypeInv, NEW p \in Procs, NEW stage \in Stages \ {"confirm"},
         NEW from \in Status, job[p].stage \notin {"idle", "down"},
         job' = [job EXCEPT ![p].stage = stage, ![p].from = from]
  PROVE  job' \in [Procs -> Job] /\ InHand'
<1>1. job[p] \in Job
  BY DEF TypeInv, TypeOK
<1>2. job'[p] = [stage |-> stage, doc |-> job[p].doc, from |-> from,
                 held |-> job[p].held, raw |-> job[p].raw]
  BY <1>1 DEF TypeInv, TypeOK, Job
<1>3. job'[p] \in Job /\ job'[p].stage = stage /\ job'[p].doc = job[p].doc
  BY <1>1, <1>2 DEF Job
<1>4. \A q \in Procs \ {p} : job'[q] = job[q]
  BY DEF TypeInv, TypeOK
<1>5. job' \in [Procs -> Job]
  BY <1>3 DEF TypeInv, TypeOK
<1> QED
  BY <1>3, <1>4, <1>5 DEF InHand, TypeInv

LEMMA DoneType ==
  ASSUME TypeInv, NEW p \in Procs, Done(p)
  PROVE  job' \in [Procs -> Job] /\ InHand'
BY NoJobType DEF Done, InHand, TypeInv, TypeOK

LEMMA StartType ==
  ASSUME TypeInv, NEW p \in Procs, NEW r \in Receipts,
         NEW stage \in Stages \ {"confirm"}, Start(p, stage, r)
  PROVE  job' \in [Procs -> Job] /\ InHand'
<1>1. /\ [NoJob EXCEPT !.stage = stage, !.doc = r] \in Job
      /\ [NoJob EXCEPT !.stage = stage, !.doc = r].stage = stage
      /\ [NoJob EXCEPT !.stage = stage, !.doc = r].doc = r
  BY NoJobType DEF NoJob, Job
<1> QED
  BY <1>1 DEF Start, InHand, TypeInv, TypeOK

LEMMA AmendJobType ==
  ASSUME NEW r \in Receipts, NEW ex \in Extraction, NEW from \in Status,
         NEW stage \in {"fill", "ready", "fail", "idle"}
  PROVE  /\ AmendJob(r, ex, from, stage) \in Job
         /\ AmendJob(r, ex, from, stage).stage = stage
         /\ stage # "idle" => AmendJob(r, ex, from, stage).doc = r
BY NoJobType DEF AmendJob, NoJob, Job, Stages

LEMMA NewExpenseType ==
  ASSUME TypeInv, job[Bot].stage = "confirm"
  PROVE  NewExpense(job[Bot].doc) \in Expense
<1> DEFINE r == job[Bot].doc
<1>1. Bot \in Procs /\ job[Bot] \in Job
  BY DEF Procs, TypeInv, TypeOK
<1>2. r \in Receipts /\ job[Bot].held \in Extraction /\ Valid(job[Bot].held)
  BY <1>1 DEF TypeInv, InHand, Job
<1>3. View(job[Bot].held) \in Saved
  BY <1>2, ViewType
<1>4. job[Bot].raw # NoRaw => EditsFromRaw(job[Bot].raw, View(job[Bot].held)) \in SUBSET FieldEdit
  BY <1>1, <1>3, EditsType DEF Job
<1> QED
  BY <1>2, <1>3, <1>4 DEF NewExpense, Expense, TypeInv, TypeOK

LEMMA TypeStep == TypeInv /\ [Next]_vars => TypeInv'
<1> SUFFICES ASSUME TypeInv, [Next]_vars PROVE TypeInv'
  OBVIOUS
<1> Bot \in Procs
  BY DEF Procs
<1> USE NoJobType DEF TypeInv, TypeOK, InHand
<1>1. ASSUME NEW r \in Receipts, ReceivePhoto(r) PROVE TypeInv'
  BY <1>1, StartType DEF ReceivePhoto, rows, Stages
<1>2. ASSUME NEW p \in Procs, Truncate(p) \/ Write(p) PROVE TypeInv'
  BY <1>2, GotoType DEF Truncate, Write, rows, Stages
<1>3. ASSUME NEW p \in Procs, CreateReceipt(p) PROVE TypeInv'
  <2>1. CASE status[job[p].doc] = "absent"
    BY <1>3, <2>1, GotoFromType DEF CreateReceipt, Stages, Status
  <2>2. CASE status[job[p].doc] # "absent"
    BY <1>3, <2>2, GotoType DEF CreateReceipt, Stages
  <2> QED
    BY <2>1, <2>2
<1>4. ASSUME NEW p \in Procs, Duplicate(p) PROVE TypeInv'
  BY <1>4, GotoType, DoneType DEF Duplicate, rows, Stages
<1>5. ASSUME NEW r \in Receipts, TapRetry(r) PROVE TypeInv'
  BY <1>5, StartType DEF TapRetry, rows, Stages
<1>6. ASSUME NEW p \in Reprocessors, NEW r \in Receipts, CommandReprocess(p, r)
      PROVE  TypeInv'
  BY <1>6, StartType DEF CommandReprocess, rows, Stages, Procs
<1>7. ASSUME NEW p \in Procs, ReadReceipt(p) PROVE TypeInv'
  <2>1. status[job[p].doc] \in Status
    BY <1>7 DEF ReadReceipt
  <2>2. CASE status[job[p].doc] \in {"pending", "failed", "discarded"}
    <3>1. job' = [job EXCEPT ![p].stage = "load", ![p].from = status[job[p].doc]]
      BY <1>7, <2>2 DEF ReadReceipt
    <3> QED
      BY <1>7, <2>1, <3>1, GotoFromType DEF ReadReceipt, rows, Stages
  <2>3. CASE status[job[p].doc] = "confirmed"
    <3>1. job' = [job EXCEPT ![p].stage = "check", ![p].from = status[job[p].doc]]
      BY <1>7, <2>3 DEF ReadReceipt
    <3> QED
      BY <1>7, <2>1, <3>1, GotoFromType DEF ReadReceipt, rows, Stages
  <2>4. CASE status[job[p].doc] \notin {"pending", "failed", "discarded", "confirmed"}
    BY <1>7, <2>4, DoneType DEF ReadReceipt, rows
  <2> QED
    BY <2>2, <2>3, <2>4
<1>8. ASSUME NEW p \in Procs, CheckVoided(p) PROVE TypeInv'
  BY <1>8, GotoType, DoneType DEF CheckVoided, rows, Stages
<1>9. ASSUME NEW p \in Procs, LoadBlob(p) PROVE TypeInv'
  BY <1>9, GotoType, DoneType DEF LoadBlob, rows, Stages
<1>10. ASSUME NEW p \in Procs, Extract(p) PROVE TypeInv'
  <2>1. ASSUME NEW ex \in Readings,
               job' = [job EXCEPT ![p].stage = "store", ![p].held = ex]
        PROVE  job' \in [Procs -> Job] /\ InHand'
    <3>1. ex \in Extraction
      BY ReadingAssumption
    <3> QED
      BY <1>10, <2>1, <3>1 DEF Extract, Job, Stages
  <2> QED
    BY <1>10, <2>1, GotoType DEF Extract, rows, Stages
<1>11. ASSUME NEW p \in Procs, SetExtraction(p) PROVE TypeInv'
  BY <1>11 DEF SetExtraction, Goto, Touch, Job, Stages
<1>12. ASSUME NEW p \in Procs, Settle(p) PROVE TypeInv'
  BY <1>12 DEF Settle, Transition, Done, Touch, Job, Stages, Status
<1>13. ASSUME NEW r \in Receipts, NEW patch \in Patches, Amend(r, patch) PROVE TypeInv'
  <2> DEFINE ex == Merge(extraction[r], patch)
             stage == IF ex.merchant = Illegible /\ ex.merchant_canon # Illegible
                      THEN "fill" ELSE AfterAmend(ex, status[r])
  <2>1. ex \in Extraction
    BY MergeType
  <2>2. stage \in {"fill", "ready", "fail", "idle"}
    BY DEF AfterAmend
  <2> HIDE DEF ex, stage
  <2>3. /\ AmendJob(r, ex, status[r], stage) \in Job
        /\ AmendJob(r, ex, status[r], stage).stage = stage
        /\ stage # "idle" => AmendJob(r, ex, status[r], stage).doc = r
    BY <2>1, <2>2, AmendJobType
  <2> QED
    BY <1>13, <2>1, <2>2, <2>3 DEF Amend, KeptRaw, Touch, ex, stage
<1>14. ASSUME NEW p \in Procs, FillMerchant(p) PROVE TypeInv'
  <2> DEFINE r == job[p].doc
             fill == [f \in {"merchant"} |-> job[p].held.merchant_canon]
             ex == Merge(job[p].held, fill)
             stage == AfterAmend(ex, job[p].from)
  <2>1. r \in Receipts /\ job[p].held \in Extraction /\ job[p].from \in Status
    BY <1>14 DEF FillMerchant, Job
  <2>2. ex \in Extraction /\ Merge(extraction[r], fill) \in Extraction
    <3>1. job[p].held.merchant_canon \in Name
      BY <2>1 DEF Extraction
    <3> QED
      BY <2>1, <3>1, FillType
  <2>3. stage \in {"fill", "ready", "fail", "idle"}
    BY DEF AfterAmend
  <2> HIDE DEF ex, stage
  <2>4. /\ AmendJob(r, ex, job[p].from, stage) \in Job
        /\ AmendJob(r, ex, job[p].from, stage).stage = stage
        /\ stage # "idle" => AmendJob(r, ex, job[p].from, stage).doc = r
    BY <2>1, <2>2, <2>3, AmendJobType
  <2> QED
    <3>1. CASE Amendable(r)
      <4>1. job' = [job EXCEPT ![p] = AmendJob(r, ex, job[p].from, stage)]
        BY <1>14, <3>1 DEF FillMerchant, ex, stage
      <4>2. job' \in [Procs -> Job] /\ InHand'
        BY <2>1, <2>3, <2>4, <4>1
      <4>3. raw' \in [Receipts -> Extraction \cup {NoRaw}]
        <5>1. KeptRaw(r) \in Extraction
          BY <2>1 DEF KeptRaw
        <5>2. raw' = [raw EXCEPT ![r] = KeptRaw(r)]
          BY <1>14, <3>1 DEF FillMerchant
        <5> QED
          BY <2>1, <5>1, <5>2
      <4> QED
        BY <1>14, <2>1, <2>2, <3>1, <4>2, <4>3 DEF FillMerchant, Touch
    <3>2. CASE ~Amendable(r)
      BY <1>14, <3>2, DoneType DEF FillMerchant
    <3> QED
      BY <3>1, <3>2
<1>15. ASSUME NEW r \in Receipts, TapConfirm(r) PROVE TypeInv'
  BY <1>15 DEF TapConfirm, rows, Job, Stages, NoJob
<1>16. CASE ConfirmReceipt
  <2> DEFINE r == job[Bot].doc
  <2>1. r \in Receipts /\ job[Bot].held \in Extraction /\ Valid(job[Bot].held)
    BY <1>16 DEF ConfirmReceipt, Job
  <2>4. NewExpense(r) \in Expense
    BY <1>16, NewExpenseType DEF ConfirmReceipt
  <2>5. Append(expenses[r], NewExpense(r)) \in Seq(Expense)
    BY <2>1, <2>4
  <2> QED
    <3>1. CASE ~ConfirmGuard(r)
      BY <1>16, <3>1, GotoType DEF ConfirmReceipt, rows, Stages
    <3>2. CASE ConfirmGuard(r) /\ InsertFails(r)
      BY <1>16, <3>2, DoneType DEF ConfirmReceipt, rows
    <3>3. CASE ConfirmGuard(r) /\ ~InsertFails(r)
      BY <1>16, <2>1, <2>5, <3>3, DoneType DEF ConfirmReceipt, Touch, Status
    <3> QED
      BY <3>1, <3>2, <3>3
<1>17. CASE Recheck
  BY <1>17 DEF Recheck, Done, rows
<1>18. ASSUME NEW r \in Receipts, DiscardReceipt(r) PROVE TypeInv'
  BY <1>18 DEF DiscardReceipt, Touch, Status
<1>19. ASSUME NEW r \in Receipts, VoidTransaction(r) PROVE TypeInv'
  <2>1. PICK i \in DOMAIN expenses[r] :
          expenses' = [expenses EXCEPT ![r][i].voided = TRUE]
    BY <1>19 DEF VoidTransaction
  <2>2. expenses[r][i] \in Expense
    BY <2>1
  <2>3. [expenses[r][i] EXCEPT !.voided = TRUE] \in Expense
    BY <2>2 DEF Expense
  <2>4. [expenses[r] EXCEPT ![i].voided = TRUE] \in Seq(Expense)
    BY <2>1, <2>3
  <2> QED
    BY <1>19, <2>1, <2>4 DEF VoidTransaction
<1>20. ASSUME NEW p \in Procs, Abandon(p) PROVE TypeInv'
  BY <1>20 DEF Abandon, Done, rows
<1>21. CASE Crash
  BY <1>21 DEF Crash, rows, Job, Stages, NoJob
<1>22. CASE Boot
  BY <1>22 DEF Boot, Done, Stale, rows
<1>23. ASSUME NEW r \in Receipts, ResumeStale(r) PROVE TypeInv'
  BY <1>23 DEF ResumeStale, Start, rows, Job, Stages, NoJob
<1>24. CASE UNCHANGED vars
  BY <1>24 DEF vars, rows, Valid
<1> QED
  BY <1>1, <1>2, <1>3, <1>4, <1>5, <1>6, <1>7, <1>8, <1>9, <1>10, <1>11, <1>12, <1>13,
     <1>14, <1>15, <1>16, <1>17, <1>18, <1>19, <1>20, <1>21, <1>22, <1>23, <1>24
  DEF Next, User, BotStep, Step, Procs

\* Every state of the receipts, of the bot and of the commands has its type.
THEOREM TypeCorrect == Spec => []TypeOK
<1>1. TypeInv => TypeOK
  BY DEF TypeInv
<1> QED
  BY TypeInit, TypeStep, <1>1, PTL DEF Spec

-----------------------------------------------------------------------------
(***************************************************************************)
(* The edit_log.  It is exact because extraction_raw, when there is one, is*)
(* the reading in force; because without it the row still holds that       *)
(* reading; and because a confirm whose guard passes holds a copy of both. *)
(***************************************************************************)

RawIsTheReading ==
  \A r \in Receipts : IF raw[r] = NoRaw THEN extraction[r] = reading[r]
                                        ELSE raw[r] = reading[r]

\* A reading names no canon: only a correction does.
ReadingHasNoCanon ==
  /\ \A r \in Receipts : reading[r].merchant_canon = Illegible
  /\ \A p \in Procs : job[p].stage = "store" => job[p].held.merchant_canon = Illegible

ConfirmHoldsTheRow ==
  job[Bot].stage = "confirm" /\ unchanged =>
    /\ job[Bot].held = extraction[job[Bot].doc]
    /\ job[Bot].raw = raw[job[Bot].doc]

EditInv == RawIsTheReading /\ ReadingHasNoCanon /\ ConfirmHoldsTheRow /\ EditLogExact

LEMMA EditInit == Init => EditInv
BY NoJobType DEF Init, EditInv, RawIsTheReading, ReadingHasNoCanon, ConfirmHoldsTheRow,
                 EditLogExact, Blank, Procs

\* A step that writes no draft and no expense, and hands no process a new one.
Quiet ==
  /\ UNCHANGED <<extraction, raw, reading, expenses>>
  /\ unchanged' => unchanged
  /\ \A p \in Procs : job'[p].stage \in {"store", "confirm"} => job'[p] = job[p]

LEMMA QuietKeepsEditInv == EditInv /\ Quiet => EditInv'
BY DEF EditInv, RawIsTheReading, ReadingHasNoCanon, ConfirmHoldsTheRow, EditLogExact,
       Quiet, Procs

\* The moves of a handler that are quiet.
LEMMA QuietMoves ==
  ASSUME TypeInv, NEW p \in Procs,
         \/ Done(p)
         \/ \E stage \in Stages \ {"store", "confirm"} :
              \/ Goto(p, stage)
              \/ \E r \in Receipts : Start(p, stage, r)
              \/ \E from \in Status :
                   job' = [job EXCEPT ![p].stage = stage, ![p].from = from]
  PROVE  \A q \in Procs : job'[q].stage \in {"store", "confirm"} => job'[q] = job[q]
<1>1. job \in [Procs -> Job]
  BY DEF TypeInv, TypeOK
<1>2. \A q \in Procs \ {p} : job'[q] = job[q]
  BY <1>1 DEF Done, Goto, Start
<1>3. job'[p].stage \notin {"store", "confirm"}
  BY <1>1, NoJobType DEF Done, Goto, Start, Job, NoJob
<1> QED
  BY <1>2, <1>3

\* The actions that neither write a draft nor read one.
QuietAction ==
  \/ \E r \in Receipts : ReceivePhoto(r) \/ TapRetry(r) \/ DiscardReceipt(r) \/ ResumeStale(r)
  \/ \E p \in Reprocessors, r \in Receipts : CommandReprocess(p, r)
  \/ \E p \in Procs : \/ Truncate(p) \/ Write(p) \/ CreateReceipt(p) \/ Duplicate(p)
                      \/ ReadReceipt(p) \/ CheckVoided(p) \/ LoadBlob(p) \/ Settle(p)
                      \/ Abandon(p)
  \/ Recheck \/ Crash \/ Boot \/ UNCHANGED vars

LEMMA QuietActions == TypeInv /\ QuietAction => Quiet
<1> SUFFICES ASSUME TypeInv, QuietAction PROVE Quiet
  OBVIOUS
<1> Bot \in Procs
  BY DEF Procs
<1>1. ASSUME NEW r \in Receipts, ReceivePhoto(r) \/ TapRetry(r) \/ ResumeStale(r) PROVE Quiet
  <2>1. Start(Bot, "put", r) \/ Start(Bot, "create", r) \/ Start(Bot, "read", r)
    BY <1>1 DEF ReceivePhoto, TapRetry, ResumeStale
  <2>2. \A q \in Procs : job'[q].stage \in {"store", "confirm"} => job'[q] = job[q]
    BY <2>1, QuietMoves DEF Stages
  <2> QED
    BY <1>1, <2>2 DEF Quiet, ReceivePhoto, TapRetry, ResumeStale, rows
<1>2. ASSUME NEW r \in Receipts, DiscardReceipt(r) PROVE Quiet
  BY <1>2 DEF Quiet, DiscardReceipt, Touch
<1>3. ASSUME NEW p \in Reprocessors, NEW r \in Receipts, CommandReprocess(p, r) PROVE Quiet
  BY <1>3, QuietMoves DEF Quiet, CommandReprocess, rows, Stages, Procs
<1>4. ASSUME NEW p \in Procs, Truncate(p) \/ Write(p) PROVE Quiet
  BY <1>4, QuietMoves DEF Quiet, Truncate, Write, rows, Stages
<1>5. ASSUME NEW p \in Procs, CreateReceipt(p) PROVE Quiet
  BY <1>5, QuietMoves DEF Quiet, CreateReceipt, Stages, Status
<1>6. ASSUME NEW p \in Procs, Duplicate(p) \/ CheckVoided(p) \/ LoadBlob(p) \/ Abandon(p)
      PROVE  Quiet
  BY <1>6, QuietMoves DEF Quiet, Duplicate, CheckVoided, LoadBlob, Abandon, rows, Stages
<1>7. ASSUME NEW p \in Procs, ReadReceipt(p) PROVE Quiet
  <2>1. job[p].doc \in Receipts /\ status[job[p].doc] \in Status
    BY <1>7 DEF ReadReceipt, TypeInv, TypeOK, InHand
  <2> QED
    BY <1>7, <2>1, QuietMoves DEF Quiet, ReadReceipt, rows, Stages
<1>8. ASSUME NEW p \in Procs, Settle(p) PROVE Quiet
  BY <1>8, QuietMoves DEF Quiet, Settle, Transition, Touch
<1>9. CASE Recheck \/ Boot
  BY <1>9, QuietMoves DEF Quiet, Recheck, Boot, rows
<1>10. CASE Crash
  BY <1>10, NoJobType DEF Quiet, Crash, rows, TypeInv, TypeOK, NoJob
<1>11. CASE UNCHANGED vars
  BY <1>11 DEF Quiet, vars, rows
<1> QED
  BY <1>1, <1>2, <1>3, <1>4, <1>5, <1>6, <1>7, <1>8, <1>9, <1>10, <1>11 DEF QuietAction

LEMMA EditStep == TypeInv /\ EditInv /\ [Next]_vars => EditInv'
<1> SUFFICES ASSUME TypeInv, EditInv, [Next]_vars PROVE EditInv'
  OBVIOUS
<1> Bot \in Procs
  BY DEF Procs
<1>1. CASE QuietAction
  BY <1>1, QuietActions, QuietKeepsEditInv
<1>2. ASSUME NEW p \in Procs, Extract(p) PROVE EditInv'
  <2>1. CASE Goto(p, "fail")
    <3>1. Quiet
      BY <1>2, <2>1, QuietMoves DEF Extract, Quiet, rows, Stages
    <3> QED
      BY <3>1, QuietKeepsEditInv
  <2>2. ASSUME NEW ex \in Readings,
               job' = [job EXCEPT ![p].stage = "store", ![p].held = ex]
        PROVE  EditInv'
    <3>1. ex.merchant_canon = Illegible
      BY ReadingAssumption
    <3>2. \A q \in Procs : job'[q] # job[q] =>
            /\ job'[q].stage = "store"
            /\ job'[q].held.merchant_canon = Illegible
      <4>1. job'[p] = [job[p] EXCEPT !.stage = "store", !.held = ex]
        BY <2>2 DEF TypeInv, TypeOK
      <4>2. job'[p].stage = "store" /\ job'[p].held = ex
        <5>1. job[p] \in Job
          BY DEF TypeInv, TypeOK
        <5> QED
          BY <4>1, <5>1 DEF Job
      <4>3. \A q \in Procs \ {p} : job'[q] = job[q]
        BY <2>2 DEF TypeInv, TypeOK
      <4>4. job'[p].held.merchant_canon = Illegible
        BY <3>1, <4>2
      <4> QED
        BY <4>2, <4>3, <4>4
    <3> QED
      BY <1>2, <3>2 DEF Extract, rows, EditInv, RawIsTheReading, ReadingHasNoCanon,
                        ConfirmHoldsTheRow, EditLogExact
  <2> QED
    BY <1>2, <2>1, <2>2 DEF Extract
<1>3. ASSUME NEW p \in Procs, SetExtraction(p) PROVE EditInv'
  <2>1. job[p].doc \in Receipts /\ job[p].held.merchant_canon = Illegible
    BY <1>3 DEF SetExtraction, TypeInv, InHand, EditInv, ReadingHasNoCanon
  <2>2. \A q \in Procs : job'[q].stage \in {"store", "confirm"} => job'[q] = job[q]
    BY <1>3, QuietMoves DEF SetExtraction, Stages
  <2>3. RawIsTheReading' /\ EditLogExact'
    BY <1>3, <2>1 DEF SetExtraction, EditInv, RawIsTheReading, EditLogExact, TypeInv, TypeOK
  <2>4. ReadingHasNoCanon'
    BY <1>3, <2>1, <2>2 DEF SetExtraction, EditInv, ReadingHasNoCanon, TypeInv, TypeOK
  <2>5. ConfirmHoldsTheRow'
    <3> SUFFICES ASSUME job'[Bot].stage = "confirm", unchanged'
                 PROVE  /\ job'[Bot].held = extraction'[job'[Bot].doc]
                        /\ job'[Bot].raw = raw'[job'[Bot].doc]
      BY DEF ConfirmHoldsTheRow
    <3>1. job'[Bot] = job[Bot] /\ unchanged /\ job[Bot].doc # job[p].doc
      BY <1>3, <2>2 DEF SetExtraction, Touch
    <3>2. job[Bot].doc \in Receipts
      BY <3>1 DEF TypeInv, InHand
    <3> QED
      BY <1>3, <2>1, <3>1, <3>2 DEF SetExtraction, EditInv, ConfirmHoldsTheRow, TypeInv, TypeOK
  <2> QED
    BY <2>3, <2>4, <2>5 DEF EditInv
<1>4. ASSUME NEW r \in Receipts, NEW patch \in Patches, Amend(r, patch) PROVE EditInv'
  <2>1. job[Bot].stage = "idle"
    BY <1>4 DEF Amend, BotIsFree
  <2>2. \A q \in Procs : job'[q].stage \in {"store", "confirm"} => job'[q] = job[q]
    BY <1>4, NoJobType DEF Amend, AmendJob, AfterAmend, NoJob, TypeInv, TypeOK
  <2>3. KeptRaw(r) = reading[r] /\ reading[r] # NoRaw
    BY LegibleAssumption DEF KeptRaw, EditInv, RawIsTheReading, TypeInv, TypeOK
  <2>4. RawIsTheReading' /\ EditLogExact'
    BY <1>4, <2>3 DEF Amend, EditInv, RawIsTheReading, EditLogExact, TypeInv, TypeOK
  <2>5. ReadingHasNoCanon' /\ ConfirmHoldsTheRow'
    BY <1>4, <2>1, <2>2 DEF Amend, EditInv, ReadingHasNoCanon, ConfirmHoldsTheRow
  <2> QED
    BY <2>4, <2>5 DEF EditInv
<1>5. ASSUME NEW p \in Procs, FillMerchant(p) PROVE EditInv'
  <2>1. CASE ~Amendable(job[p].doc)
    <3>1. Quiet
      BY <1>5, <2>1, QuietMoves DEF FillMerchant, Quiet
    <3> QED
      BY <3>1, QuietKeepsEditInv
  <2>2. CASE Amendable(job[p].doc)
    <3> DEFINE r == job[p].doc
    <3>1. r \in Receipts
      BY <1>5 DEF FillMerchant, TypeInv, InHand
    <3>2. \A q \in Procs : job'[q].stage \in {"store", "confirm"} => job'[q] = job[q]
      <4>1. PICK ex \in {Merge(job[p].held, [f \in {"merchant"} |-> job[p].held.merchant_canon])} :
              job' = [job EXCEPT ![p] =
                        AmendJob(r, ex, job[p].from, AfterAmend(ex, job[p].from))]
        BY <1>5, <2>2 DEF FillMerchant
      <4>2. AmendJob(r, ex, job[p].from, AfterAmend(ex, job[p].from)).stage
              \in {"idle", "ready", "fail"}
        BY NoJobType DEF AmendJob, AfterAmend, NoJob
      <4> QED
        BY <4>1, <4>2 DEF TypeInv, TypeOK
    <3>3. KeptRaw(r) = reading[r] /\ reading[r] # NoRaw
      BY <3>1, LegibleAssumption DEF KeptRaw, EditInv, RawIsTheReading, TypeInv, TypeOK
    <3>4. raw' = [raw EXCEPT ![r] = reading[r]] /\ UNCHANGED <<reading, expenses>>
      BY <1>5, <2>2, <3>3 DEF FillMerchant
    <3>5. \A q \in Receipts \ {r} : extraction'[q] = extraction[q]
      BY <1>5, <2>2 DEF FillMerchant, TypeInv, TypeOK
    <3>6. RawIsTheReading' /\ EditLogExact'
      BY <3>1, <3>3, <3>4, <3>5 DEF EditInv, RawIsTheReading, EditLogExact, TypeInv, TypeOK
    <3>7. ReadingHasNoCanon'
      BY <3>2, <3>4 DEF EditInv, ReadingHasNoCanon
    <3>8. ConfirmHoldsTheRow'
      <4> SUFFICES ASSUME job'[Bot].stage = "confirm", unchanged'
                   PROVE  /\ job'[Bot].held = extraction'[job'[Bot].doc]
                          /\ job'[Bot].raw = raw'[job'[Bot].doc]
        BY DEF ConfirmHoldsTheRow
      <4>1. job'[Bot] = job[Bot] /\ unchanged /\ job[Bot].doc # r
        BY <1>5, <2>2, <3>2 DEF FillMerchant, Touch
      <4>2. job[Bot].doc \in Receipts
        BY <4>1 DEF TypeInv, InHand
      <4> QED
        BY <3>4, <3>5, <4>1, <4>2 DEF EditInv, ConfirmHoldsTheRow, TypeInv, TypeOK
    <3> QED
      BY <3>6, <3>7, <3>8 DEF EditInv
  <2> QED
    BY <2>1, <2>2
<1>6. ASSUME NEW r \in Receipts, TapConfirm(r) PROVE EditInv'
  <2>1. /\ job'[Bot].stage = "confirm" /\ job'[Bot].doc = r
        /\ job'[Bot].held = extraction[r] /\ job'[Bot].raw = raw[r]
    BY <1>6 DEF TapConfirm, NoJob, TypeInv, TypeOK
  <2>2. \A q \in Procs \ {Bot} : job'[q] = job[q]
    BY <1>6 DEF TapConfirm, TypeInv, TypeOK
  <2> QED
    BY <1>6, <2>1, <2>2 DEF TapConfirm, rows, EditInv, RawIsTheReading, ReadingHasNoCanon,
                            ConfirmHoldsTheRow, EditLogExact
<1>7. CASE ConfirmReceipt
  <2> DEFINE r == job[Bot].doc
             view == View(job[Bot].held)
  <2>1. r \in Receipts /\ Valid(job[Bot].held)
    BY <1>7 DEF ConfirmReceipt, TypeInv, InHand
  <2>2. CASE ~ConfirmGuard(r) \/ InsertFails(r)
    <3>1. Quiet
      BY <1>7, <2>2, QuietMoves DEF ConfirmReceipt, Quiet, rows, Stages
    <3> QED
      BY <3>1, QuietKeepsEditInv
  <2>3. CASE ConfirmGuard(r) /\ ~InsertFails(r)
    <3>1. job[Bot].held = extraction[r] /\ job[Bot].raw = raw[r]
      BY <1>7, <2>3 DEF ConfirmReceipt, ConfirmGuard, EditInv, ConfirmHoldsTheRow
    <3>2. NewExpense(r).edits = EditsFromRaw(NewExpense(r).reading, NewExpense(r).data)
      <4>1. /\ NewExpense(r).reading = reading[r] /\ NewExpense(r).data = view
            /\ NewExpense(r).edits = IF job[Bot].raw = NoRaw THEN {}
                                     ELSE EditsFromRaw(job[Bot].raw, view)
        BY DEF NewExpense
      <4>2. CASE raw[r] = NoRaw
        <5>1. job[Bot].held = reading[r] /\ reading[r].merchant_canon = Illegible
          BY <2>1, <3>1, <4>2 DEF EditInv, RawIsTheReading, ReadingHasNoCanon
        <5>2. reading[r] \in Extraction
          BY <2>1 DEF TypeInv, TypeOK
        <5> QED
          BY <2>1, <3>1, <4>1, <4>2, <5>1, <5>2, NoEditsOfReading
      <4>3. CASE raw[r] # NoRaw
        BY <2>1, <3>1, <4>1, <4>3 DEF EditInv, RawIsTheReading
      <4> QED
        BY <4>2, <4>3
    <3>3. expenses' = [expenses EXCEPT ![r] = Append(@, NewExpense(r))]
      BY <1>7, <2>3 DEF ConfirmReceipt
    <3>4. EditLogExact'
      <4> SUFFICES ASSUME NEW q \in Receipts, NEW i \in DOMAIN expenses'[q]
                   PROVE  expenses'[q][i].edits =
                            EditsFromRaw(expenses'[q][i].reading, expenses'[q][i].data)
        BY DEF EditLogExact
      <4>1. expenses[q] \in Seq(Expense)
        BY DEF TypeInv, TypeOK
      <4>2. \/ i \in DOMAIN expenses[q] /\ expenses'[q][i] = expenses[q][i]
            \/ expenses'[q][i] = NewExpense(r)
        BY <3>3, <4>1 DEF TypeInv, TypeOK
      <4> QED
        BY <3>2, <4>2 DEF EditInv, EditLogExact
    <3>5. \A p \in Procs : job'[p].stage \in {"store", "confirm"} => job'[p] = job[p]
      BY <1>7, <2>3, QuietMoves DEF ConfirmReceipt
    <3>6. ReadingHasNoCanon' /\ RawIsTheReading' /\ ConfirmHoldsTheRow'
      BY <1>7, <2>3, <3>5 DEF ConfirmReceipt, Touch, EditInv, ReadingHasNoCanon,
                              RawIsTheReading, ConfirmHoldsTheRow
    <3> QED
      BY <3>4, <3>6 DEF EditInv
  <2> QED
    BY <2>2, <2>3
<1>8. ASSUME NEW r \in Receipts, VoidTransaction(r) PROVE EditInv'
  <2>1. PICK i \in DOMAIN expenses[r] :
          expenses' = [expenses EXCEPT ![r][i].voided = TRUE]
    BY <1>8 DEF VoidTransaction
  <2>2. EditLogExact'
    <3> SUFFICES ASSUME NEW q \in Receipts, NEW k \in DOMAIN expenses'[q]
                 PROVE  expenses'[q][k].edits =
                          EditsFromRaw(expenses'[q][k].reading, expenses'[q][k].data)
      BY DEF EditLogExact
    <3>1. expenses[q] \in Seq(Expense) /\ expenses[r] \in Seq(Expense)
      BY DEF TypeInv, TypeOK
    <3>2. /\ k \in DOMAIN expenses[q]
          /\ expenses'[q][k].edits = expenses[q][k].edits
          /\ expenses'[q][k].reading = expenses[q][k].reading
          /\ expenses'[q][k].data = expenses[q][k].data
      BY <2>1, <3>1 DEF TypeInv, TypeOK, Expense
    <3> QED
      BY <3>2 DEF EditInv, EditLogExact
  <2> QED
    BY <1>8, <2>2 DEF VoidTransaction, EditInv, RawIsTheReading, ReadingHasNoCanon,
                      ConfirmHoldsTheRow
<1> QED
  BY <1>1, <1>2, <1>3, <1>4, <1>5, <1>6, <1>7, <1>8
  DEF QuietAction, Next, User, BotStep, Step, Procs

\* The edit_log of every expense ever saved is exactly what the human changed in
\* the model's reading, however many reprocess commands run beside the bot.
THEOREM EditLogIsExact == Spec => []EditLogExact
<1>1. Init => TypeInv /\ EditInv
  BY TypeInit, EditInit
<1>2. TypeInv /\ EditInv /\ [Next]_vars => (TypeInv /\ EditInv)'
  BY TypeStep, EditStep
<1>3. EditInv => EditLogExact
  BY DEF EditInv
<1> QED
  BY <1>1, <1>2, <1>3, PTL DEF Spec

-----------------------------------------------------------------------------
(***************************************************************************)
(* The totals.  The unique index is what keeps two expenses of a receipt   *)
(* from counting when a reprocess command brings back a receipt that the   *)
(* bot has confirmed again in the meantime.                                *)
(***************************************************************************)

LedgerInv == CountedOnce /\ PendingIsUntouched

\* The actions that touch neither the status, nor extraction_raw, nor expenses.
LEMMA LedgerQuiet == LedgerInv /\ UNCHANGED <<status, raw, expenses>> => LedgerInv'
BY DEF LedgerInv, CountedOnce, PendingIsUntouched

LEMMA LedgerStep == TypeInv /\ LedgerInv /\ [Next]_vars => LedgerInv'
<1> SUFFICES ASSUME TypeInv, LedgerInv, [Next]_vars PROVE LedgerInv'
  OBVIOUS
<1> USE DEF LedgerInv, CountedOnce, PendingIsUntouched
<1>1. CASE UNCHANGED <<status, raw, expenses>>
  BY <1>1, LedgerQuiet
<1>2. ASSUME NEW p \in Procs, CreateReceipt(p) PROVE LedgerInv'
  BY <1>2 DEF CreateReceipt, TypeInv, TypeOK
<1>3. ASSUME NEW p \in Procs, SetExtraction(p) PROVE LedgerInv'
  BY <1>3 DEF SetExtraction, TypeInv, TypeOK
<1>4. ASSUME NEW p \in Procs, Settle(p) PROVE LedgerInv'
  BY <1>4 DEF Settle, Transition, TypeInv, TypeOK
<1>5. ASSUME NEW r \in Receipts, NEW patch \in Patches, Amend(r, patch) PROVE LedgerInv'
  BY <1>5 DEF Amend, Amendable, TypeInv, TypeOK
<1>6. ASSUME NEW p \in Procs, FillMerchant(p) PROVE LedgerInv'
  BY <1>6 DEF FillMerchant, Amendable, TypeInv, TypeOK
<1>7. CASE ConfirmReceipt
  <2> DEFINE r == job[Bot].doc
  <2>1. CASE ~ConfirmGuard(r) \/ InsertFails(r)
    BY <1>7, <2>1 DEF ConfirmReceipt, rows
  <2>2. CASE ConfirmGuard(r) /\ ~InsertFails(r)
    <3>1. r \in Receipts
      BY <1>7 DEF ConfirmReceipt, TypeInv, InHand, Procs
    <3>2. \A i \in DOMAIN expenses[r] : expenses[r][i].voided
      BY <2>2 DEF InsertFails, Active
    <3>3. /\ expenses' = [expenses EXCEPT ![r] = Append(@, NewExpense(r))]
          /\ status' = [status EXCEPT ![r] = "confirmed"] /\ raw' = raw
      BY <1>7, <2>2 DEF ConfirmReceipt
    <3>4. expenses[r] \in Seq(Expense)
      BY <3>1 DEF TypeInv, TypeOK
    <3> DEFINE saved == Append(expenses[r], NewExpense(r))
    <3>9. expenses'[r] = saved
      BY <3>1, <3>3 DEF TypeInv, TypeOK
    <3>10. /\ DOMAIN saved = 1 .. Len(expenses[r]) + 1
           /\ DOMAIN expenses[r] = 1 .. Len(expenses[r])
           /\ Len(expenses[r]) \in Nat
           /\ \A i \in 1 .. Len(expenses[r]) : saved[i] = expenses[r][i]
           /\ saved # << >>
      <4>1. NewExpense(r) \in Expense
        BY <1>7, NewExpenseType DEF ConfirmReceipt
      <4> QED
        BY <3>4, <4>1, AppendProperties
    <3> HIDE DEF saved
    <3>5. \A i \in DOMAIN expenses'[r] : ~expenses'[r][i].voided => i = Len(expenses[r]) + 1
      BY <3>2, <3>9, <3>10
    <3>6. expenses'[r] # << >>
      BY <3>9, <3>10
    <3>7. \A q \in Receipts \ {r} : expenses'[q] = expenses[q] /\ status'[q] = status[q]
      BY <3>3 DEF TypeInv, TypeOK
    <3>8. status'[r] = "confirmed"
      BY <3>1, <3>3 DEF TypeInv, TypeOK
    <3> QED
      BY <3>3, <3>5, <3>6, <3>7, <3>8
  <2> QED
    BY <2>1, <2>2
<1>8. ASSUME NEW r \in Receipts, DiscardReceipt(r) PROVE LedgerInv'
  BY <1>8 DEF DiscardReceipt, TypeInv, TypeOK
<1>9. ASSUME NEW r \in Receipts, VoidTransaction(r) PROVE LedgerInv'
  <2>1. PICK i \in DOMAIN expenses[r] :
          expenses' = [expenses EXCEPT ![r][i].voided = TRUE]
    BY <1>9 DEF VoidTransaction
  <2>2. expenses[r] \in Seq(Expense)
    BY DEF TypeInv, TypeOK
  <2>3. /\ DOMAIN expenses'[r] = DOMAIN expenses[r]
        /\ \A k \in DOMAIN expenses[r] : ~expenses'[r][k].voided => ~expenses[r][k].voided
    BY <2>1, <2>2 DEF TypeInv, TypeOK, Expense
  <2>4. \A q \in Receipts \ {r} : expenses'[q] = expenses[q]
    BY <2>1 DEF TypeInv, TypeOK
  <2>5. expenses'[r] = << >> <=> expenses[r] = << >>
    BY <2>1, <2>2 DEF TypeInv, TypeOK
  <2> QED
    BY <1>9, <2>3, <2>4, <2>5 DEF VoidTransaction
<1> QED
  BY <1>1, <1>2, <1>3, <1>4, <1>5, <1>6, <1>7, <1>8, <1>9
  DEF Next, User, BotStep, Step, Procs, vars, rows, ReceivePhoto, TapRetry, CommandReprocess,
      Truncate, Write, Duplicate, ReadReceipt, CheckVoided, LoadBlob, Extract, TapConfirm,
      Recheck, Abandon, Crash, Boot, ResumeStale

LEMMA LedgerInit == Init => LedgerInv
BY DEF Init, LedgerInv, CountedOnce, PendingIsUntouched

\* At most one expense of a receipt counts, and a confirmed receipt has had one.
THEOREM ReceiptIsCountedOnce == Spec => []CountedOnce
<1>1. Init => TypeInv /\ LedgerInv
  BY TypeInit, LedgerInit
<1>2. TypeInv /\ LedgerInv /\ [Next]_vars => (TypeInv /\ LedgerInv)'
  BY TypeStep, LedgerStep
<1>3. LedgerInv => CountedOnce
  BY DEF LedgerInv
<1> QED
  BY <1>1, <1>2, <1>3, PTL DEF Spec

\* Nothing has been corrected or saved for a receipt still in its first reading.
THEOREM PendingUntouched == Spec => []PendingIsUntouched
<1>1. Init => TypeInv /\ LedgerInv
  BY TypeInit, LedgerInit
<1>2. TypeInv /\ LedgerInv /\ [Next]_vars => (TypeInv /\ LedgerInv)'
  BY TypeStep, LedgerStep
<1>3. LedgerInv => PendingIsUntouched
  BY DEF LedgerInv
<1> QED
  BY <1>1, <1>2, <1>3, PTL DEF Spec

-----------------------------------------------------------------------------
(***************************************************************************)
(* The originals.  A row is created after its file has been opened, and    *)
(* everything else that is done with a receipt needs the row.              *)
(***************************************************************************)

\* The stages of a handler that come before the row.
Early == {"idle", "down", "put", "write", "create"}

OriginInv ==
  /\ OriginalStored
  /\ \A p \in Procs : job[p].stage = "create" => blob[job[p].doc] # "none"
  /\ \A p \in Procs : job[p].stage \notin Early => status[job[p].doc] # "absent"
  /\ \A r \in sweep : status[r] # "absent"

\* What a step of process p has to show: files and rows stay, a new row has a
\* file, and where p goes it has what it needs.
LEMMA OriginMove ==
  ASSUME TypeInv, OriginInv, NEW p \in Procs,
         \A r \in Receipts : blob[r] # "none" => blob'[r] # "none",
         \A r \in Receipts : status[r] # "absent" => status'[r] # "absent",
         \A r \in Receipts : status'[r] # "absent" => status[r] # "absent" \/ blob[r] # "none",
         \A q \in Procs \ {p} : job'[q] = job[q],
         job'[p].stage = "create" => blob'[job'[p].doc] # "none",
         job'[p].stage \notin Early => status'[job'[p].doc] # "absent",
         \A r \in sweep' : r \in Receipts /\ status[r] # "absent"
  PROVE  OriginInv'
<1>1. \A q \in Procs : job[q].stage \notin {"idle", "down"} => job[q].doc \in Receipts
  BY DEF TypeInv, InHand
<1>2. OriginalStored'
  BY DEF OriginInv, OriginalStored
<1>3. \A q \in Procs : job'[q].stage = "create" => blob'[job'[q].doc] # "none"
  BY <1>1 DEF OriginInv
<1>4. \A q \in Procs : job'[q].stage \notin Early => status'[job'[q].doc] # "absent"
  BY <1>1 DEF OriginInv, Early
<1> QED
  BY <1>2, <1>3, <1>4 DEF OriginInv

LEMMA OriginInit == Init => OriginInv
BY NoJobType DEF Init, OriginInv, OriginalStored, Early, Procs

\* Where Goto, Start and Done leave the processes.
LEMMA JobMoves ==
  ASSUME TypeInv, NEW p \in Procs
  PROVE  /\ \A s \in Stages : Goto(p, s) =>
              /\ job'[p].stage = s /\ job'[p].doc = job[p].doc
              /\ \A q \in Procs \ {p} : job'[q] = job[q]
         /\ \A s \in Stages, r \in Receipts : Start(p, s, r) =>
              /\ job'[p].stage = s /\ job'[p].doc = r
              /\ \A q \in Procs \ {p} : job'[q] = job[q]
         /\ Done(p) => /\ job'[p].stage = "idle"
                       /\ \A q \in Procs \ {p} : job'[q] = job[q]
<1>1. job \in [Procs -> Job]
  BY DEF TypeInv, TypeOK
<1>2. job[p] \in Job
  BY <1>1
<1>3. ASSUME NEW s \in Stages, Goto(p, s)
      PROVE  /\ job'[p].stage = s /\ job'[p].doc = job[p].doc
             /\ \A q \in Procs \ {p} : job'[q] = job[q]
  BY <1>1, <1>2, <1>3 DEF Goto, Job
<1>4. ASSUME NEW s \in Stages, NEW r \in Receipts, Start(p, s, r)
      PROVE  /\ job'[p].stage = s /\ job'[p].doc = r
             /\ \A q \in Procs \ {p} : job'[q] = job[q]
  BY <1>1, <1>4 DEF Start, NoJob
<1>5. ASSUME Done(p)
      PROVE  /\ job'[p].stage = "idle"
             /\ \A q \in Procs \ {p} : job'[q] = job[q]
  BY <1>1, <1>5, NoJobType DEF Done
<1> QED
  BY <1>3, <1>4, <1>5

LEMMA OriginStep == TypeInv /\ OriginInv /\ [Next]_vars => OriginInv'
<1> SUFFICES ASSUME TypeInv, OriginInv, [Next]_vars PROVE OriginInv'
  OBVIOUS
<1>0. /\ Bot \in Procs /\ Reprocessors \subseteq Procs
      /\ job \in [Procs -> Job]
      /\ blob \in [Receipts -> {"none", "torn", "whole"}]
      /\ status \in [Receipts -> Status]
      /\ \A p \in Procs : job[p].stage \notin {"idle", "down"} => job[p].doc \in Receipts
      /\ sweep \subseteq Receipts /\ \A r \in sweep : status[r] # "absent"
  BY DEF TypeInv, TypeOK, InHand, Procs, OriginInv
<1> USE DEF Stages, Early
<1>1. CASE UNCHANGED vars
  BY <1>1 DEF vars, OriginInv, OriginalStored
<1>2. ASSUME NEW r \in Receipts, ReceivePhoto(r) PROVE OriginInv'
  <2>1. CASE Start(Bot, "put", r)
    BY <1>0, <1>2, <2>1, JobMoves, OriginMove DEF ReceivePhoto, rows
  <2>2. CASE status[r] # "absent" /\ Start(Bot, "create", r)
    <3>1. blob[r] # "none"
      BY <2>2 DEF OriginInv, OriginalStored
    <3> QED
      BY <1>0, <1>2, <2>2, <3>1, JobMoves, OriginMove DEF ReceivePhoto, rows
  <2> QED
    BY <1>2, <2>1, <2>2 DEF ReceivePhoto
<1>3. ASSUME NEW p \in Procs, Truncate(p) \/ Write(p) PROVE OriginInv'
  <2>1. job[p].doc \in Receipts
    BY <1>0, <1>3 DEF Truncate, Write
  <2>2. blob'[job[p].doc] # "none" /\ \A r \in Receipts : blob[r] # "none" => blob'[r] # "none"
    BY <1>0, <1>3, <2>1 DEF Truncate, Write
  <2>3. \/ Goto(p, "write")
        \/ Goto(p, "create")
    BY <1>3 DEF Truncate, Write
  <2> QED
    BY <1>0, <1>3, <2>1, <2>2, <2>3, JobMoves, OriginMove DEF Truncate, Write, rows
<1>4. ASSUME NEW p \in Procs, CreateReceipt(p) PROVE OriginInv'
  <2>1. job[p].doc \in Receipts /\ blob[job[p].doc] # "none"
    BY <1>0, <1>4 DEF CreateReceipt, OriginInv
  <2>2. CASE status[job[p].doc] = "absent"
    <3>1. /\ status' = [status EXCEPT ![job[p].doc] = "pending"]
          /\ job' = [job EXCEPT ![p].stage = "extract", ![p].from = "pending"]
          /\ UNCHANGED <<blob, sweep>>
      BY <1>4, <2>2 DEF CreateReceipt
    <3>2. job[p] \in Job
      BY <1>0
    <3>3. /\ job'[p].stage = "extract" /\ job'[p].doc = job[p].doc
          /\ \A q \in Procs \ {p} : job'[q] = job[q]
      BY <1>0, <3>1, <3>2 DEF Job
    <3>4. /\ status'[job[p].doc] = "pending"
          /\ \A r \in Receipts \ {job[p].doc} : status'[r] = status[r]
      BY <1>0, <2>1, <3>1
    <3> QED
      BY <1>0, <2>1, <3>1, <3>3, <3>4, OriginMove
  <2>3. CASE status[job[p].doc] # "absent"
    <3>1. Goto(p, "duplicate") /\ UNCHANGED <<blob, status, sweep>>
      BY <1>4, <2>3 DEF CreateReceipt
    <3> QED
      BY <1>0, <2>3, <3>1, JobMoves, OriginMove
  <2> QED
    BY <2>2, <2>3
<1>5. ASSUME NEW p \in Procs,
             Duplicate(p) \/ CheckVoided(p) \/ LoadBlob(p) \/ SetExtraction(p)
      PROVE  OriginInv'
  <2>1. status[job[p].doc] # "absent"
    BY <1>5 DEF OriginInv, Duplicate, CheckVoided, LoadBlob, SetExtraction
  <2>2. /\ \/ Done(p)
           \/ \E s \in {"read", "load", "extract", "ready", "fail"} : Goto(p, s)
        /\ UNCHANGED <<blob, status, sweep>>
    BY <1>5 DEF Duplicate, CheckVoided, LoadBlob, SetExtraction, rows
  <2> QED
    BY <1>0, <2>1, <2>2, JobMoves, OriginMove
<1>6. ASSUME NEW p \in Procs, ReadReceipt(p) \/ Extract(p) PROVE OriginInv'
  <2>1. status[job[p].doc] # "absent"
    BY <1>6 DEF OriginInv, ReadReceipt, Extract
  <2>2. job[p] \in Job
    BY <1>0
  <2>3. /\ UNCHANGED <<blob, status, sweep>>
        /\ \A q \in Procs \ {p} : job'[q] = job[q]
        /\ \/ job'[p].stage = "idle"
           \/ /\ job'[p].stage \in {"load", "check", "store", "fail"}
              /\ job'[p].doc = job[p].doc
    BY <1>0, <1>6, <2>2, NoJobType DEF ReadReceipt, Extract, Goto, Done, Job, rows
  <2> QED
    BY <1>0, <2>1, <2>3, OriginMove
<1>7. ASSUME NEW p \in Procs, Settle(p) PROVE OriginInv'
  <2>1. status[job[p].doc] # "absent" /\ job[p].doc \in Receipts
    BY <1>0, <1>7 DEF OriginInv, Settle
  <2>2. /\ Done(p) /\ UNCHANGED <<blob, sweep>>
        /\ \/ status' = status
           \/ \E to \in {"awaiting_confirm", "failed"} :
                status' = [status EXCEPT ![job[p].doc] = to]
    BY <1>7 DEF Settle, Transition
  <2>3. \A r \in Receipts : status'[r] # "absent" <=> status[r] # "absent"
    BY <1>0, <2>1, <2>2
  <2> QED
    BY <1>0, <2>2, <2>3, JobMoves, OriginMove
<1>8. ASSUME NEW r \in Receipts, NEW patch \in Patches, Amend(r, patch) PROVE OriginInv'
  <2>1. status[r] # "absent" /\ UNCHANGED <<blob, status, sweep>>
    BY <1>8 DEF Amend, Amendable
  <2>2. PICK ex \in Extraction, s \in {"fill", "ready", "fail", "idle"} :
          job' = [job EXCEPT ![Bot] = AmendJob(r, ex, status[r], s)]
    <3>1. Merge(extraction[r], patch) \in Extraction
      BY MergeType DEF TypeInv, TypeOK
    <3> QED
      BY <1>8, <3>1 DEF Amend, AfterAmend
  <2>3. /\ \A q \in Procs \ {Bot} : job'[q] = job[q]
        /\ \/ job'[Bot].stage = "idle"
           \/ job'[Bot].stage \in {"fill", "ready", "fail"} /\ job'[Bot].doc = r
    BY <1>0, <2>2, NoJobType DEF AmendJob, NoJob
  <2> QED
    BY <1>0, <2>1, <2>3, OriginMove
<1>9. ASSUME NEW p \in Procs, FillMerchant(p) PROVE OriginInv'
  <2>1. status[job[p].doc] # "absent" /\ UNCHANGED <<blob, status, sweep>>
    BY <1>9 DEF FillMerchant, OriginInv
  <2>2. \/ Done(p)
        \/ \E ex, s : /\ s \in {"ready", "fail", "idle"}
                      /\ job' = [job EXCEPT ![p] = AmendJob(job[p].doc, ex, job[p].from, s)]
    BY <1>9 DEF FillMerchant, AfterAmend
  <2>3. /\ \A q \in Procs \ {p} : job'[q] = job[q]
        /\ \/ job'[p].stage = "idle"
           \/ job'[p].stage \in {"ready", "fail"} /\ job'[p].doc = job[p].doc
    BY <1>0, <2>2, NoJobType DEF AmendJob, NoJob, Done
  <2> QED
    BY <1>0, <2>1, <2>3, OriginMove
<1>10. ASSUME NEW r \in Receipts, TapConfirm(r) PROVE OriginInv'
  <2>1. status[r] # "absent" /\ UNCHANGED <<blob, status, sweep>>
    BY <1>10 DEF TapConfirm, HasCard, rows
  <2>2. /\ job'[Bot].stage = "confirm" /\ job'[Bot].doc = r
        /\ \A q \in Procs \ {Bot} : job'[q] = job[q]
    BY <1>0, <1>10 DEF TapConfirm, NoJob
  <2> QED
    BY <1>0, <2>1, <2>2, OriginMove
<1>11. ASSUME NEW r \in Receipts, NEW p \in Procs,
              \/ p = Bot /\ (TapRetry(r) \/ ResumeStale(r))
              \/ CommandReprocess(p, r)
       PROVE  OriginInv'
  <2>1. /\ status[r] # "absent" /\ Start(p, "read", r) /\ UNCHANGED <<blob, status>>
        /\ sweep' \subseteq sweep
    BY <1>0, <1>11 DEF TapRetry, HasCard, ResumeStale, CommandReprocess, rows
  <2> QED
    BY <1>0, <2>1, JobMoves, OriginMove
<1>12. CASE ConfirmReceipt
  <2>1. status[job[Bot].doc] # "absent" /\ job[Bot].doc \in Receipts
    BY <1>0, <1>12 DEF ConfirmReceipt, OriginInv
  <2>2. /\ UNCHANGED <<blob, sweep>> /\ (Done(Bot) \/ Goto(Bot, "recheck"))
        /\ status' \in {status, [status EXCEPT ![job[Bot].doc] = "confirmed"]}
    BY <1>12 DEF ConfirmReceipt, rows
  <2>3. \A r \in Receipts : status'[r] # "absent" <=> status[r] # "absent"
    BY <1>0, <2>1, <2>2
  <2> QED
    BY <1>0, <2>1, <2>2, <2>3, JobMoves, OriginMove
<1>13. ASSUME NEW r \in Receipts, DiscardReceipt(r) \/ VoidTransaction(r) PROVE OriginInv'
  <2>1. \A q \in Receipts : status'[q] # "absent" <=> status[q] # "absent"
    BY <1>0, <1>13 DEF DiscardReceipt, VoidTransaction
  <2> QED
    BY <1>0, <1>13, <2>1 DEF DiscardReceipt, VoidTransaction, OriginInv, OriginalStored
<1>14. ASSUME NEW p \in Procs, Abandon(p) \/ (p = Bot /\ (Recheck \/ Boot)) PROVE OriginInv'
  <2>1. /\ Done(p) /\ UNCHANGED <<blob, status>>
        /\ \A r \in sweep' : r \in Receipts /\ status[r] # "absent"
    BY <1>0, <1>14 DEF Abandon, Recheck, Boot, Stale, rows
  <2> QED
    BY <1>0, <2>1, JobMoves, OriginMove
<1>15. CASE Crash
  <2>1. /\ UNCHANGED <<blob, status>> /\ sweep' = {}
        /\ job'[Bot].stage = "down" /\ \A q \in Procs \ {Bot} : job'[q] = job[q]
    BY <1>0, <1>15 DEF Crash, NoJob, rows
  <2> QED
    BY <1>0, <2>1, OriginMove
<1> QED
  BY <1>0, <1>1, <1>2, <1>3, <1>4, <1>5, <1>6, <1>7, <1>8, <1>9, <1>10, <1>11, <1>12,
     <1>13, <1>14, <1>15
  DEF Next, User, BotStep, Step

\* An original is on disk before its receipt exists, whatever is interrupted.
THEOREM OriginalIsStored == Spec => []OriginalStored
<1>1. Init => TypeInv /\ OriginInv
  BY TypeInit, OriginInit
<1>2. TypeInv /\ OriginInv /\ [Next]_vars => (TypeInv /\ OriginInv)'
  BY TypeStep, OriginStep
<1>3. OriginInv => OriginalStored
  BY DEF OriginInv
<1> QED
  BY <1>1, <1>2, <1>3, PTL DEF Spec

-----------------------------------------------------------------------------
(***************************************************************************)
(* Confirm.  Only two actions touch the expenses: a confirm, which appends *)
(* what it has in hand, and an undo, which only marks one.                 *)
(***************************************************************************)

\* ConfirmSavesTheDraft, as a relation between a state and the next.
SavesTheDraft ==
  \A r \in Receipts :
    Len(expenses'[r]) > Len(expenses[r]) =>
      /\ Valid(extraction[r])
      /\ expenses'[r][Len(expenses'[r])].data = View(extraction[r])

\* The guard on updated_at makes what is in hand the draft that is in the row.
LEMMA ConfirmStep == TypeInv /\ EditInv /\ ConfirmReceipt => SavesTheDraft
<1> SUFFICES ASSUME TypeInv, EditInv, ConfirmReceipt PROVE SavesTheDraft
  OBVIOUS
<1> DEFINE r == job[Bot].doc
<1>1. r \in Receipts /\ Valid(job[Bot].held) /\ expenses \in [Receipts -> Seq(Expense)]
  BY DEF ConfirmReceipt, TypeInv, TypeOK, InHand, Procs
<1>2. CASE UNCHANGED expenses
  BY <1>1, <1>2 DEF SavesTheDraft
<1>3. CASE ConfirmGuard(r) /\ expenses' = [expenses EXCEPT ![r] = Append(@, NewExpense(r))]
  <2>1. job[Bot].held = extraction[r]
    BY <1>3 DEF ConfirmReceipt, ConfirmGuard, EditInv, ConfirmHoldsTheRow
  <2>2. NewExpense(r).data = View(extraction[r]) /\ Valid(extraction[r])
    BY <1>1, <2>1 DEF NewExpense
  <2>3. expenses'[r][Len(expenses'[r])] = NewExpense(r)
    BY <1>1, <1>3
  <2>4. \A q \in Receipts \ {r} : expenses'[q] = expenses[q]
    BY <1>1, <1>3
  <2>5. \A q \in Receipts \ {r} : Len(expenses'[q]) = Len(expenses[q])
                                  /\ Len(expenses[q]) \in Nat
    BY <1>1, <2>4
  <2> QED
    BY <2>2, <2>3, <2>5 DEF SavesTheDraft
<1> QED
  BY <1>2, <1>3 DEF ConfirmReceipt, rows

LEMMA VoidStep ==
  ASSUME TypeInv, NEW r \in Receipts, VoidTransaction(r) PROVE SavesTheDraft
<1>1. PICK i \in DOMAIN expenses[r] :
        expenses' = [expenses EXCEPT ![r][i].voided = TRUE]
  BY DEF VoidTransaction
<1>2. expenses \in [Receipts -> Seq(Expense)]
  BY DEF TypeInv, TypeOK
<1>3. \A q \in Receipts : Len(expenses'[q]) = Len(expenses[q]) /\ Len(expenses[q]) \in Nat
  BY <1>1, <1>2
<1> QED
  BY <1>3 DEF SavesTheDraft

\* A confirm enters the draft as the row has it at that moment, and a valid one.
THEOREM ConfirmIsTheDraft == Spec => ConfirmSavesTheDraft
<1>1. Init => TypeInv /\ EditInv
  BY TypeInit, EditInit
<1>2. TypeInv /\ EditInv /\ [Next]_vars => (TypeInv /\ EditInv)'
  BY TypeStep, EditStep
<1>3. TypeInv /\ EditInv /\ [Next]_vars => [SavesTheDraft]_vars
  <2> SUFFICES ASSUME TypeInv, EditInv, [Next]_vars, vars' # vars PROVE SavesTheDraft
    BY DEF SavesTheDraft
  <2>1. CASE UNCHANGED expenses
    <3>1. \A r \in Receipts : Len(expenses[r]) \in Nat
      BY DEF TypeInv, TypeOK
    <3> QED
      BY <2>1, <3>1 DEF SavesTheDraft
  <2>2. CASE ConfirmReceipt
    BY <2>2, ConfirmStep
  <2>3. ASSUME NEW r \in Receipts, VoidTransaction(r) PROVE SavesTheDraft
    BY <2>3, VoidStep
  <2> QED
    BY <2>1, <2>2, <2>3
    DEF Next, User, BotStep, Step, rows, ReceivePhoto, TapRetry, TapConfirm, DiscardReceipt,
        Amend, CommandReprocess, Truncate, Write, CreateReceipt, Duplicate, ReadReceipt,
        CheckVoided, LoadBlob, Extract, SetExtraction, Settle, FillMerchant, Recheck, Abandon,
        Crash, Boot, ResumeStale
<1>4. [][SavesTheDraft]_vars => ConfirmSavesTheDraft
  BY PTL DEF ConfirmSavesTheDraft, SavesTheDraft
<1> QED
  BY <1>1, <1>2, <1>3, <1>4, PTL DEF Spec
=============================================================================
