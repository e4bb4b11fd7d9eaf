------------------------------- MODULE Expenses ------------------------------
(***************************************************************************)
(* An expense after it has been entered: corrections (replies to a saved   *)
(* card, `finbox edit`), the edit_log, undo, and `finbox rerule`, which    *)
(* applies the merchant normaliser to old rows while the bot is serving    *)
(* (deploy.sh runs it before it replaces the container).                   *)
(*                                                                         *)
(* A correction reads the row, decides, and writes in a second statement;  *)
(* rerule reads all rows and then updates them one by one.                 *)
(*                                                                         *)
(* Sources: Edit and Void in internal/command/command.go, EditTransaction, *)
(* VoidTransaction and RecanonTransactions in                              *)
(* internal/store/transactions.go, ParseMinor in internal/money/money.go.  *)
(***************************************************************************)
EXTENDS Integers, Sequences

CONSTANTS
  Expenses,
  Editors,      \* who may correct at the same time: the bot, `finbox edit`
  Rerulers,     \* `finbox rerule` commands
  Names,        \* merchant names
  Canon,        \* merchant.Canon: [Names -> Names]
  Currencies,
  Exponent,     \* money.Exponent: decimals of a currency's minor unit
  Totals,       \* totals as typed: digits, and how many of them are decimals
  Corrections,  \* the corrections that may be made: some fields and values
  Nobody,       \* no expense at hand
  MaxEdits      \* bound: rows of the edit_log of one expense

ASSUME CanonAssumption == Canon \in [Names -> Names]
ASSUME ExponentAssumption == Exponent \in [Currencies -> Nat]
ASSUME TotalAssumption == Totals \subseteq [digits : Int, decimals : Nat]
ASSUME ActorAssumption == Editors \cap Rerulers = {} /\ Nobody \notin Expenses
ASSUME CorrectionAssumption ==
  \A c \in Corrections :
    /\ DOMAIN c \subseteq {"total", "currency", "merchant"}
    /\ "total" \in DOMAIN c => c["total"] \in Totals
    /\ "currency" \in DOMAIN c => c["currency"] \in Currencies
    /\ "merchant" \in DOMAIN c => c["merchant"] \in Names
ASSUME BoundAssumption == MaxEdits \in Nat

VARIABLES
  row,      \* transactions
  log,      \* edit_log, oldest first
  first,    \* history: the row as it was entered
  scale,    \* history: the exponent that the stored amount was parsed with
  job       \* where each command is, and its locals

vars == <<row, log, first, scale, job>>

Row == [merchant : Names, merchant_canon : Names, amount : Int, currency : Currencies,
        voided : BOOLEAN]
Field == {"amount", "currency", "merchant_canon"}
FieldEdit == [field : Field, old : Int \cup Currencies \cup Names,
              new : Int \cup Currencies \cup Names]

\* An update names some columns, each with a value of its type.
Value == [amount |-> Int, currency |-> Currencies, merchant_canon |-> Names]
IsUpdate(set) == DOMAIN set \subseteq Field /\ \A f \in DOMAIN set : set[f] \in Value[f]

Procs == Editors \cup Rerulers
Stages == {"idle", "write", "update"}
Job(set) == [stage : Stages, id : Expenses \cup {Nobody}, set : {set},
             edits : Seq(FieldEdit), scale : Nat, changes : SUBSET Expenses]
NoJob == [stage |-> "idle", id |-> Nobody, set |-> << >>, edits |-> << >>, scale |-> 0,
          changes |-> {}]

-----------------------------------------------------------------------------
(***************************************************************************)
(* money.ParseMinor, for digits that fit (overflow is an error like too    *)
(* many decimals).                                                         *)
(***************************************************************************)
Parses(total, currency) == total.decimals <= Exponent[currency]
ParseMinor(total, currency) ==
  total.digits * 10 ^ (Exponent[currency] - total.decimals)

-----------------------------------------------------------------------------
(***************************************************************************)
(* command.Edit: what is decided from the row as it was read.              *)
(***************************************************************************)
EditCurrency(cur, c) == IF "currency" \in DOMAIN c THEN c["currency"] ELSE cur.currency

\* Mutant: the currency may be changed alone, whatever its exponent.
RefusedTotals(cur, c) ==
  /\ "total" \in DOMAIN c
  /\ \/ ~Parses(c["total"], EditCurrency(cur, c))
     \/ ParseMinor(c["total"], EditCurrency(cur, c)) = 0

\* A relabelling across exponents needs the total again; a total has to parse
\* in the currency, and zero is no expense.
Refused(cur, c) ==
  \/ /\ "currency" \in DOMAIN c /\ "total" \notin DOMAIN c
     /\ Exponent[c["currency"]] # Exponent[cur.currency]
  \/ /\ "total" \in DOMAIN c
     /\ \/ ~Parses(c["total"], EditCurrency(cur, c))
        \/ ParseMinor(c["total"], EditCurrency(cur, c)) = 0

\* The columns of the update. A rename writes the canon, never the raw name.
ColumnOf == [total |-> "amount", currency |-> "currency", merchant |-> "merchant_canon"]
Columns(cur, c) ==
  [f \in {ColumnOf[o] : o \in DOMAIN c} |->
     CASE f = "amount" -> ParseMinor(c["total"], EditCurrency(cur, c))
       [] f = "currency" -> c["currency"]
       [] f = "merchant_canon" -> c["merchant"]]

\* The row after an update of some of its columns.
Updated(r, set) == [f \in DOMAIN r |-> IF f \in DOMAIN set THEN set[f] ELSE r[f]]

\* Mutant: a total that comes with a currency is not logged.
EditedOnce(cur, set) ==
  LET changed(f) == IF f \in DOMAIN set /\ set[f] # cur[f]
                    THEN <<[field |-> f, old |-> cur[f], new |-> set[f]]>>
                    ELSE << >>
  IN (IF "currency" \in DOMAIN set THEN changed("currency") ELSE changed("amount"))
       \o changed("merchant_canon")

\* The edit_log rows, in the order of the code; none where nothing changed.
Edited(cur, set) ==
  LET changed(f) == IF f \in DOMAIN set /\ set[f] # cur[f]
                    THEN <<[field |-> f, old |-> cur[f], new |-> set[f]]>>
                    ELSE << >>
  IN changed("currency") \o changed("amount") \o changed("merchant_canon")

-----------------------------------------------------------------------------
(***************************************************************************)
(* How an expense may have been entered: with the name that the normaliser *)
(* gives, or that it had before there was a normaliser; with a name that   *)
(* was corrected before the draft was confirmed (logged with it); or with  *)
(* a name that the model could not read and the user typed, which counts   *)
(* as the name on the ticket, too, and is not logged, nor is another name  *)
(* typed after it.                                                         *)
(***************************************************************************)
EnteredRow(m, canon, amount, currency) ==
  [merchant |-> m, merchant_canon |-> canon, amount |-> amount, currency |-> currency,
   voided |-> FALSE]
Entry(f, old, new) == [field |-> f, old |-> old, new |-> new]

EnteredAs(m, total, currency) ==
  LET read(canon) == EnteredRow(m, canon, ParseMinor(total, currency), currency) IN
  {[row |-> read(Canon[m]), log |-> << >>]}
  \cup {[row |-> read(n), log |-> <<Entry("merchant_canon", Canon[m], n)>>] :
          n \in Names \ {Canon[m]}}
  \cup {[row |-> read(n), log |-> << >>] : n \in Names}

Entered ==
  UNION {EnteredAs(x[1], x[2], x[3]) :
           x \in {y \in Names \X Totals \X Currencies : Parses(y[2], y[3])}}

Init ==
  \E start \in [Expenses -> {e \in Entered : e.row.amount # 0}] :
    /\ row = [t \in Expenses |-> start[t].row]
    /\ log = [t \in Expenses |-> start[t].log]
    /\ first = row
    /\ scale = [t \in Expenses |-> Exponent[row[t].currency]]
    /\ job = [p \in Procs |-> NoJob]

-----------------------------------------------------------------------------
(***************************************************************************)
(* Corrections.                                                            *)
(***************************************************************************)

\* Mutant: the log rows are inserted first, in a statement of their own.
ReadAndLog(p, t, c) ==
  /\ job[p].stage = "idle" /\ ~row[t].voided
  /\ Len(log[t]) + 3 <= MaxEdits
  /\ ~Refused(row[t], c)
  /\ LET set == Columns(row[t], c) IN
       /\ job' = [job EXCEPT ![p] =
                    [NoJob EXCEPT !.stage = "write", !.id = t, !.set = set,
                       !.scale = Exponent[EditCurrency(row[t], c)]]]
       /\ log' = [log EXCEPT ![t] = @ \o Edited(row[t], set)]
  /\ UNCHANGED <<row, first, scale>>

\* GetTransactionByID, and everything that is decided from what it returned.
\* Only an expense that counts is found, by its id or by that of its receipt.
ReadTransaction(p, t, c) ==
  /\ job[p].stage = "idle" /\ ~row[t].voided
  /\ Len(log[t]) + 3 <= MaxEdits
  /\ ~Refused(row[t], c)
  /\ LET set == Columns(row[t], c) IN
       job' = [job EXCEPT ![p] =
                 [NoJob EXCEPT !.stage = "write", !.id = t, !.set = set,
                    !.edits = Edited(row[t], set),
                    !.scale = Exponent[EditCurrency(row[t], c)]]]
  /\ UNCHANGED <<row, log, first, scale>>

\* Mutant: the update is not guarded by voided_at.
EditAnyTransaction(p) ==
  LET t == job[p].id  set == job[p].set IN
  /\ job[p].stage = "write"
  /\ row' = [row EXCEPT ![t] = Updated(@, set)]
  /\ log' = [log EXCEPT ![t] = @ \o job[p].edits]
  /\ scale' = IF "amount" \in DOMAIN set THEN [scale EXCEPT ![t] = job[p].scale] ELSE scale
  /\ job' = [job EXCEPT ![p] = NoJob]
  /\ UNCHANGED first

\* Mutant: the columns that the correction does not name are lost.
EditWholeRow(p) ==
  LET t == job[p].id IN
  /\ job[p].stage = "write" /\ ~row[t].voided
  /\ row' = [row EXCEPT ![t] = job[p].set]
  /\ job' = [job EXCEPT ![p] = NoJob]
  /\ UNCHANGED <<log, first, scale>>

\* EditTransaction: `where id=$1 and voided_at is null`, and the log rows in
\* the same transaction.
EditTransaction(p) ==
  LET t == job[p].id  set == job[p].set IN
  /\ job[p].stage = "write"
  /\ IF row[t].voided
     THEN UNCHANGED <<row, log, scale>>
     ELSE /\ row' = [row EXCEPT ![t] = Updated(@, set)]
          /\ log' = [log EXCEPT ![t] = @ \o job[p].edits]
          /\ scale' = IF "amount" \in DOMAIN set
                      THEN [scale EXCEPT ![t] = job[p].scale] ELSE scale
  /\ job' = [job EXCEPT ![p] = NoJob]
  /\ UNCHANGED first

VoidTransaction(t) ==
  /\ ~row[t].voided
  /\ row' = [row EXCEPT ![t].voided = TRUE]
  /\ UNCHANGED <<log, first, scale, job>>

-----------------------------------------------------------------------------
(***************************************************************************)
(* rerule.                                                                 *)
(***************************************************************************)

\* Rows carrying a 'merchant' edit_log row are skipped.
Renamed(t) == \E i \in DOMAIN log[t] : log[t][i].field = "merchant_canon"

SelectRows(p) ==
  /\ job[p].stage = "idle"
  /\ job' = [job EXCEPT ![p] =
               [NoJob EXCEPT !.stage = "update",
                  !.changes = {t \in Expenses :
                                 /\ ~row[t].voided /\ ~Renamed(t)
                                 /\ Canon[row[t].merchant] # row[t].merchant_canon}]]
  /\ UNCHANGED <<row, log, first, scale>>

\* One update per row, each on its own; the raw name it starts from never changes.
UpdateCanon(p, t) ==
  /\ job[p].stage = "update" /\ t \in job[p].changes
  /\ row' = [row EXCEPT ![t].merchant_canon = Canon[row[t].merchant]]
  /\ job' = [job EXCEPT ![p].changes = @ \ {t}]
  /\ UNCHANGED <<log, first, scale>>

\* The command is done, or is interrupted, or a statement fails.
Finish(p) ==
  /\ job[p].stage # "idle"
  /\ job' = [job EXCEPT ![p] = NoJob]
  /\ UNCHANGED <<row, log, first, scale>>

Next ==
  \/ \E p \in Editors :
       \/ \E t \in Expenses, c \in Corrections : ReadTransaction(p, t, c)
       \/ EditTransaction(p)
  \/ \E p \in Rerulers : SelectRows(p) \/ \E t \in Expenses : UpdateCanon(p, t)
  \/ \E p \in Procs : Finish(p)
  \/ \E t \in Expenses : VoidTransaction(t)

Spec == Init /\ [][Next]_vars

-----------------------------------------------------------------------------
(***************************************************************************)
(* Properties.                                                             *)
(***************************************************************************)

TypeOK ==
  /\ row \in [Expenses -> Row] /\ first \in [Expenses -> Row]
  /\ log \in [Expenses -> Seq(FieldEdit)]
  /\ scale \in [Expenses -> Nat]
  /\ job = [p \in Procs |-> job[p]]
  /\ \A p \in Procs : IsUpdate(job[p].set) /\ job[p] \in Job(job[p].set)

\* An expense that was voided is never corrected: its amount, its currency and
\* its edit_log stay, also when a correction read it just before.
VoidedIsFrozen ==
  [][\A t \in Expenses :
       row[t].voided =>
         /\ row'[t].voided /\ log'[t] = log[t]
         /\ row'[t].amount = row[t].amount /\ row'[t].currency = row[t].currency]_vars

\* command.go:139, "relabeling across exponents rescales the stored minor units
\* ... force a re-entry": the amount of an expense was parsed with the exponent
\* of its currency.
AmountIsToScale == \A t \in Expenses : scale[t] = Exponent[row[t].currency]

\* `value` is what the first n rows of an edit_log leave in a field that held
\* `start`: the new value of the last of them that is about the field.
Leaves(rows, n, field, start, value) ==
  \/ value = start /\ \A i \in 1..n : rows[i].field # field
  \/ \E i \in 1..n :
       /\ rows[i].field = field /\ value = rows[i].new
       /\ \A j \in i + 1..n : rows[j].field # field

\* command.go:189, "no edit_log row when nothing changed": and one whenever
\* something did. What the log leaves in a field is what the row holds.
LastChangeIsLogged ==
  \A t \in Expenses, f \in {"amount", "currency"} :
    Leaves(log[t], Len(log[t]), f, first[t][f], row[t][f])

\* command.go:125, "current values for edit_log old_value": every entry starts
\* from what the ones before it left, the first from what was entered.
LogIsAChain ==
  \A t \in Expenses, f \in {"amount", "currency"} :
    \A i \in DOMAIN log[t] :
      log[t][i].field = f => Leaves(log[t], i - 1, f, first[t][f], log[t][i].old)

\* transactions.go:324, "Rows carrying a 'merchant' edit_log row are skipped:
\* the human's name wins over the normalizer".
RenameWins ==
  \A t \in Expenses :
    Renamed(t) =>
      Leaves(log[t], Len(log[t]), "merchant_canon", first[t].merchant_canon,
             row[t].merchant_canon)
=============================================================================
