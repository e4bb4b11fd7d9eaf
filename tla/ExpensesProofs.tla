--------------------------- MODULE ExpensesProofs ---------------------------
(***************************************************************************)
(* Theorems of Expenses, for every set of expenses, editors, rerulers,     *)
(* names, currencies, totals and corrections. What is said of voided       *)
(* expenses holds whoever edits; what is said of the edit_log and of the   *)
(* scale of amounts holds for one editor at a time (two of them lose       *)
(* updates: each decides from the row as it read it).                      *)
(***************************************************************************)
EXTENDS Expenses, SequenceTheorems, TLAPS

-----------------------------------------------------------------------------
(***************************************************************************)
(* The columns of an update.                                               *)
(***************************************************************************)
LEMMA PowerType == ASSUME NEW n \in Nat PROVE 10 ^ n \in Int
OBVIOUS

LEMMA ParsedIsInt ==
  ASSUME NEW total \in Totals, NEW currency \in Currencies, Parses(total, currency)
  PROVE  ParseMinor(total, currency) \in Int
<1>1. total.digits \in Int /\ total.decimals \in Nat /\ Exponent[currency] \in Nat
  BY TotalAssumption, ExponentAssumption
<1>2. Exponent[currency] - total.decimals \in Nat
  BY <1>1 DEF Parses
<1> QED
  BY <1>1, <1>2, PowerType DEF ParseMinor

\* Only columns that a correction names are written, each with a value of its type.
LEMMA ColumnsType ==
  ASSUME NEW r \in Row, NEW c \in Corrections, ~Refused(r, c)
  PROVE  /\ IsUpdate(Columns(r, c))
         /\ "amount" \in DOMAIN Columns(r, c) <=> "total" \in DOMAIN c
         /\ "currency" \in DOMAIN Columns(r, c) <=> "currency" \in DOMAIN c
         /\ "currency" \in DOMAIN c => Columns(r, c)["currency"] = c["currency"]
<1> DEFINE set == Columns(r, c)
<1>1. DOMAIN c \subseteq {"total", "currency", "merchant"}
  BY CorrectionAssumption
<1>2. DOMAIN set = {ColumnOf[o] : o \in DOMAIN c}
  BY DEF Columns
<1>3. /\ DOMAIN set \subseteq Field
      /\ "amount" \in DOMAIN set <=> "total" \in DOMAIN c
      /\ "currency" \in DOMAIN set <=> "currency" \in DOMAIN c
      /\ "merchant_canon" \in DOMAIN set <=> "merchant" \in DOMAIN c
  BY <1>1, <1>2 DEF ColumnOf, Field
<1>4. EditCurrency(r, c) \in Currencies
  BY CorrectionAssumption DEF EditCurrency, Row
<1>5. "amount" \in DOMAIN set => set["amount"] \in Int
  <2> SUFFICES ASSUME "amount" \in DOMAIN set PROVE set["amount"] \in Int
    OBVIOUS
  <2>1. c["total"] \in Totals /\ Parses(c["total"], EditCurrency(r, c))
    BY <1>3, CorrectionAssumption DEF Refused
  <2>2. set["amount"] = ParseMinor(c["total"], EditCurrency(r, c))
    BY <1>2 DEF Columns
  <2> QED
    BY <2>1, <2>2, <1>4, ParsedIsInt
<1>6. "currency" \in DOMAIN set => set["currency"] = c["currency"]
  BY <1>2 DEF Columns
<1>7. "merchant_canon" \in DOMAIN set => set["merchant_canon"] = c["merchant"]
  BY <1>2 DEF Columns
<1>8. \A f \in DOMAIN set : set[f] \in Value[f]
  BY <1>3, <1>5, <1>6, <1>7, CorrectionAssumption DEF Field, Value
<1> QED
  BY <1>3, <1>6, <1>8 DEF IsUpdate

\* The update of a row: the columns that it names, and nothing else.
LEMMA UpdateType ==
  ASSUME NEW r \in Row, NEW set, IsUpdate(set)
  PROVE  /\ Updated(r, set) \in Row
         /\ Updated(r, set).voided = r.voided /\ Updated(r, set).merchant = r.merchant
         /\ \A f \in Field : Updated(r, set)[f] = IF f \in DOMAIN set THEN set[f] ELSE r[f]
<1> DEFINE u == Updated(r, set)
           cols == {"merchant", "merchant_canon", "amount", "currency", "voided"}
<1>1. r = [x \in cols |-> r[x]] /\ DOMAIN r = cols
  BY DEF Row
<1>2. u = [x \in cols |-> IF x \in DOMAIN set THEN set[x] ELSE r[x]]
  BY <1>1 DEF Updated
<1>3. \A f \in Field : u[f] = IF f \in DOMAIN set THEN set[f] ELSE r[f]
  BY <1>2 DEF Field
<1>4. u["voided"] = r["voided"] /\ u["merchant"] = r["merchant"]
  BY <1>2 DEF IsUpdate, Field
<1>5. u["amount"] \in Int /\ u["currency"] \in Currencies /\ u["merchant_canon"] \in Names
  BY <1>3 DEF IsUpdate, Field, Value, Row
<1>6. u \in Row
  BY <1>2, <1>4, <1>5 DEF Row
<1> QED
  BY <1>3, <1>4, <1>6

-----------------------------------------------------------------------------
(***************************************************************************)
(* The rows of the edit_log.                                               *)
(***************************************************************************)
Change(r, set, f) ==
  IF f \in DOMAIN set /\ set[f] # r[f]
  THEN <<[field |-> f, old |-> r[f], new |-> set[f]]>>
  ELSE << >>

\* The edits say, once for each of these fields, what the update changes in r.
Accounts(edits, r, set, fields) ==
  /\ edits \in Seq(FieldEdit)
  /\ \A i \in 1..Len(edits) : edits[i].field \in fields =>
       /\ edits[i].field \in DOMAIN set
       /\ edits[i].old = r[edits[i].field] /\ edits[i].new = set[edits[i].field]
  /\ \A i, j \in 1..Len(edits) : edits[i].field = edits[j].field => i = j
  /\ \A f \in fields \cap DOMAIN set :
       set[f] # r[f] => \E i \in 1..Len(edits) : edits[i].field = f

LEMMA ChangeType ==
  ASSUME NEW r \in Row, NEW set, IsUpdate(set), NEW f \in Field
  PROVE  /\ Change(r, set, f) \in Seq(FieldEdit)
         /\ Len(Change(r, set, f)) \in {0, 1}
         /\ Len(Change(r, set, f)) = 1 <=> f \in DOMAIN set /\ set[f] # r[f]
         /\ Len(Change(r, set, f)) = 1 =>
              Change(r, set, f)[1] = [field |-> f, old |-> r[f], new |-> set[f]]
<1>1. r[f] \in Int \cup Currencies \cup Names
  BY DEF Row, Field
<1>2. f \in DOMAIN set => set[f] \in Int \cup Currencies \cup Names
  BY DEF IsUpdate, Value, Field
<1>3. f \in DOMAIN set => [field |-> f, old |-> r[f], new |-> set[f]] \in FieldEdit
  BY <1>1, <1>2 DEF FieldEdit
<1> QED
  BY <1>3 DEF Change

\* The log rows of a correction account for the whole update of the row that it read.
LEMMA EditedAccounts ==
  ASSUME NEW r \in Row, NEW set, IsUpdate(set)
  PROVE  Accounts(Edited(r, set), r, set, Field)
<1> DEFINE cu == Change(r, set, "currency")
           am == Change(r, set, "amount")
           me == Change(r, set, "merchant_canon")
           edits == Edited(r, set)
<1>1. edits = (cu \o am) \o me
  BY DEF Edited, Change
<1> HIDE DEF cu, am, me, edits
<1>2. "currency" \in Field /\ "amount" \in Field /\ "merchant_canon" \in Field
  BY DEF Field
<1>3. /\ cu \in Seq(FieldEdit) /\ Len(cu) \in {0, 1}
      /\ Len(cu) = 1 <=> "currency" \in DOMAIN set /\ set["currency"] # r["currency"]
      /\ Len(cu) = 1 => cu[1] = [field |-> "currency", old |-> r["currency"], new |-> set["currency"]]
  BY <1>2, ChangeType DEF cu
<1>4. /\ am \in Seq(FieldEdit) /\ Len(am) \in {0, 1}
      /\ Len(am) = 1 <=> "amount" \in DOMAIN set /\ set["amount"] # r["amount"]
      /\ Len(am) = 1 => am[1] = [field |-> "amount", old |-> r["amount"], new |-> set["amount"]]
  BY <1>2, ChangeType DEF am
<1>5. /\ me \in Seq(FieldEdit) /\ Len(me) \in {0, 1}
      /\ Len(me) = 1 <=> "merchant_canon" \in DOMAIN set /\ set["merchant_canon"] # r["merchant_canon"]
      /\ Len(me) = 1 => me[1] = [field |-> "merchant_canon", old |-> r["merchant_canon"],
                                 new |-> set["merchant_canon"]]
  BY <1>2, ChangeType DEF me
<1>6. /\ edits \in Seq(FieldEdit) /\ Len(edits) = Len(cu) + Len(am) + Len(me)
      /\ \A i \in 1..Len(edits) :
           edits[i] = IF i <= Len(cu) THEN cu[i]
                      ELSE IF i <= Len(cu) + Len(am) THEN am[i - Len(cu)]
                      ELSE me[i - (Len(cu) + Len(am))]
  <2> DEFINE ca == cu \o am
  <2>1. /\ ca \in Seq(FieldEdit) /\ Len(ca) = Len(cu) + Len(am)
        /\ \A i \in 1..Len(cu) + Len(am) : ca[i] = IF i <= Len(cu) THEN cu[i] ELSE am[i - Len(cu)]
    BY <1>3, <1>4, ConcatProperties
  <2>2. edits = ca \o me
    BY <1>1
  <2> HIDE DEF ca
  <2>3. /\ edits \in Seq(FieldEdit) /\ Len(edits) = Len(ca) + Len(me)
        /\ \A i \in 1..Len(ca) + Len(me) : edits[i] = IF i <= Len(ca) THEN ca[i] ELSE me[i - Len(ca)]
    <3>1. ca \in Seq(FieldEdit) /\ me \in Seq(FieldEdit)
      BY <1>5, <2>1
    <3>2. /\ ca \o me \in Seq(FieldEdit) /\ Len(ca \o me) = Len(ca) + Len(me)
          /\ \A i \in 1..Len(ca) + Len(me) :
               (ca \o me)[i] = IF i <= Len(ca) THEN ca[i] ELSE me[i - Len(ca)]
      BY <3>1, ConcatProperties
    <3> QED
      BY <2>2, <3>2
  <2>4. Len(cu) \in {0, 1} /\ Len(am) \in {0, 1} /\ Len(me) \in {0, 1}
    BY <1>3, <1>4, <1>5
  <2> QED
    BY <2>1, <2>3, <2>4
<1>7. Len(cu) \in {0, 1} /\ Len(am) \in {0, 1} /\ Len(me) \in {0, 1}
  BY <1>3, <1>4, <1>5
<1>8. \A i \in 1..Len(edits) :
        \/ i = Len(cu) /\ Len(cu) = 1 /\ edits[i] = cu[1]
        \/ i = Len(cu) + 1 /\ Len(am) = 1 /\ edits[i] = am[1]
        \/ i = Len(cu) + Len(am) + 1 /\ Len(me) = 1 /\ edits[i] = me[1]
  BY <1>6, <1>7
<1>9. /\ Len(cu) = 1 => edits[1] = cu[1] /\ 1 \in 1..Len(edits)
      /\ Len(am) = 1 => edits[Len(cu) + 1] = am[1] /\ Len(cu) + 1 \in 1..Len(edits)
      /\ Len(me) = 1 => /\ edits[Len(cu) + Len(am) + 1] = me[1]
                        /\ Len(cu) + Len(am) + 1 \in 1..Len(edits)
  <2>1. Len(cu) = 1 => edits[1] = cu[1] /\ 1 \in 1..Len(edits)
    BY <1>6, <1>7
  <2>2. ASSUME Len(am) = 1
        PROVE  edits[Len(cu) + 1] = am[1] /\ Len(cu) + 1 \in 1..Len(edits)
    <3>1. CASE Len(cu) = 0
      BY <1>6, <1>7, <2>2, <3>1
    <3>2. CASE Len(cu) = 1
      BY <1>6, <1>7, <2>2, <3>2
    <3> QED
      BY <1>7, <3>1, <3>2
  <2>3. ASSUME Len(me) = 1
        PROVE  /\ edits[Len(cu) + Len(am) + 1] = me[1]
               /\ Len(cu) + Len(am) + 1 \in 1..Len(edits)
    <3> DEFINE k == Len(cu) + Len(am) + 1
    <3>1. k \in 1..Len(edits) /\ k > Len(cu) /\ k > Len(cu) + Len(am)
      BY <1>6, <1>7, <2>3
    <3>2. k - Len(cu) - Len(am) = 1 /\ k - (Len(cu) + Len(am)) = 1 /\ k - Len(cu) > Len(am)
      BY <1>7
    <3> QED
      BY <1>6, <1>7, <3>1, <3>2
  <2> QED
    BY <2>1, <2>2, <2>3
<1>10. \A i \in 1..Len(edits) :
        /\ edits[i].field \in DOMAIN set
        /\ edits[i].old = r[edits[i].field] /\ edits[i].new = set[edits[i].field]
  BY <1>8, <1>3, <1>4, <1>5
<1>11. \A i, j \in 1..Len(edits) : edits[i].field = edits[j].field => i = j
  BY <1>8, <1>3, <1>4, <1>5
<1>12. \A f \in Field \cap DOMAIN set :
         set[f] # r[f] => \E i \in 1..Len(edits) : edits[i].field = f
  BY <1>9, <1>3, <1>4, <1>5 DEF Field
<1> QED
  BY <1>6, <1>10, <1>11, <1>12 DEF Accounts, edits

-----------------------------------------------------------------------------
(***************************************************************************)
(* What a log leaves in a field.                                           *)
(***************************************************************************)

\* It depends on the rows up to n only.
LEMMA LeavesPrefix ==
  ASSUME NEW k, NEW l, NEW n \in Nat, \A i \in 1..n : k[i] = l[i],
         NEW f, NEW start, NEW value, Leaves(l, n, f, start, value)
  PROVE  Leaves(k, n, f, start, value)
BY DEF Leaves

\* Rows about other fields change nothing in it.
LEMMA LeavesOn ==
  ASSUME NEW l, NEW n \in Nat, NEW m \in Nat, n <= m, NEW f, NEW start, NEW value,
         \A i \in n + 1..m : l[i].field # f, Leaves(l, n, f, start, value)
  PROVE  Leaves(l, m, f, start, value)
<1>1. CASE value = start /\ \A i \in 1..n : l[i].field # f
  BY <1>1 DEF Leaves
<1>2. CASE \E i \in 1..n : /\ l[i].field = f /\ value = l[i].new
                           /\ \A j \in i + 1..n : l[j].field # f
  <2>1. PICK i \in 1..n : /\ l[i].field = f /\ value = l[i].new
                          /\ \A j \in i + 1..n : l[j].field # f
    BY <1>2
  <2>2. i \in 1..m /\ \A j \in i + 1..m : l[j].field # f
    BY <2>1
  <2> QED
    BY <2>1, <2>2 DEF Leaves
<1> QED
  BY <1>1, <1>2 DEF Leaves

\* A row that is appended is the last word on its field.
LEMMA LeavesLast ==
  ASSUME NEW l, NEW n \in Nat, NEW i \in 1..n, NEW f, NEW start,
         l[i].field = f, \A j \in i + 1..n : l[j].field # f
  PROVE  Leaves(l, n, f, start, l[i].new)
BY DEF Leaves

\* Appending the rows of an update keeps the chain, and ends in what it wrote.
LEMMA LeavesUpdate ==
  ASSUME NEW l \in Seq(FieldEdit), NEW r, NEW set, NEW fields, NEW edits,
         Accounts(edits, r, set, fields), NEW f \in fields, NEW start,
         Leaves(l, Len(l), f, start, r[f])
  PROVE  /\ Leaves(l \o edits, Len(l \o edits), f, start, IF f \in DOMAIN set THEN set[f] ELSE r[f])
         /\ \A i \in Len(l) + 1..Len(l \o edits) :
              (l \o edits)[i].field = f => Leaves(l \o edits, i - 1, f, start, (l \o edits)[i].old)
<1> DEFINE n == Len(l)
           k == l \o edits
<1>1. edits \in Seq(FieldEdit) /\ n \in Nat /\ Len(edits) \in Nat
  BY LenProperties DEF Accounts
<1>2. /\ Len(k) = n + Len(edits)
      /\ \A i \in 1..n + Len(edits) : k[i] = IF i <= n THEN l[i] ELSE edits[i - n]
  BY <1>1, ConcatProperties
<1> HIDE DEF n, k
<1>3. Leaves(k, n, f, start, r[f])
  <2>1. \A i \in 1..n : k[i] = l[i]
    BY <1>1, <1>2
  <2>2. Leaves(l, n, f, start, r[f])
    BY DEF n
  <2> QED
    BY <1>1, <2>1, <2>2, LeavesPrefix
<1>4. \A i \in n + 1..Len(k) : k[i] = edits[i - n] /\ i - n \in 1..Len(edits)
  BY <1>1, <1>2
<1>5. \A i, j \in n + 1..Len(k) : k[i].field = f /\ k[j].field = f => i = j
  <2> SUFFICES ASSUME NEW i \in n + 1..Len(k), NEW j \in n + 1..Len(k),
                      k[i].field = f, k[j].field = f
               PROVE  i = j
    OBVIOUS
  <2>1. i - n = j - n
    BY <1>4 DEF Accounts
  <2> QED
    BY <2>1, <1>1, <1>2
<1>6. ASSUME NEW i \in n + 1..Len(k), k[i].field = f
      PROVE  Leaves(k, i - 1, f, start, k[i].old)
  <2>1. k[i].old = r[f]
    BY <1>4, <1>6 DEF Accounts
  <2>2. \A j \in n + 1..i - 1 : k[j].field # f
    BY <1>1, <1>2, <1>5, <1>6
  <2>3. i - 1 \in Nat /\ n <= i - 1
    BY <1>1, <1>2
  <2> QED
    BY <2>1, <2>2, <2>3, <1>1, <1>3, LeavesOn
<1>7. CASE \E i \in n + 1..Len(k) : k[i].field = f
  <2>1. PICK i \in n + 1..Len(k) : k[i].field = f
    BY <1>7
  <2>2. f \in DOMAIN set /\ k[i].new = set[f]
    BY <2>1, <1>4 DEF Accounts
  <2>3. \A j \in i + 1..Len(k) : k[j].field # f
    BY <2>1, <1>1, <1>2, <1>5
  <2>4. Len(k) \in Nat /\ i \in 1..Len(k)
    BY <1>1, <1>2
  <2>5. Leaves(k, Len(k), f, start, k[i].new)
    BY <2>1, <2>3, <2>4, LeavesLast
  <2> QED
    BY <2>2, <2>5, <1>6 DEF k, n
<1>8. CASE ~\E i \in n + 1..Len(k) : k[i].field = f
  <2>1. Leaves(k, Len(k), f, start, r[f])
    <3>1. Len(k) \in Nat /\ n <= Len(k)
      BY <1>1, <1>2
    <3> QED
      BY <3>1, <1>1, <1>3, <1>8, LeavesOn
  <2>2. ASSUME f \in DOMAIN set PROVE set[f] = r[f]
    <3>1. \A i \in 1..Len(edits) : edits[i].field # f
      <4> SUFFICES ASSUME NEW i \in 1..Len(edits), edits[i].field = f PROVE FALSE
        OBVIOUS
      <4>1. i + n \in n + 1..Len(k) /\ k[i + n] = edits[i]
        BY <1>1, <1>2
      <4> QED
        BY <4>1, <1>8
    <3> QED
      BY <2>2, <3>1 DEF Accounts
  <2> QED
    BY <2>1, <2>2, <1>8 DEF k, n
<1> QED
  BY <1>7, <1>8

-----------------------------------------------------------------------------
(***************************************************************************)
(* Types, whoever edits.                                                   *)
(***************************************************************************)
TypeInv ==
  /\ TypeOK
  /\ \A p \in Procs : job[p].stage = "write" => job[p].id \in Expenses

LEMMA NoJobType == NoJob \in Job(<< >>) /\ NoJob.set = << >> /\ IsUpdate(<< >>)
<1>1. << >> \in Seq(FieldEdit) /\ DOMAIN << >> = {}
  OBVIOUS
<1>2. NoJob \in Job(<< >>) /\ NoJob.set = << >>
  BY <1>1 DEF NoJob, Job, Stages
<1> QED
  BY <1>1, <1>2 DEF IsUpdate

LEMMA EnteredType ==
  ASSUME NEW e \in Entered
  PROVE  e.row \in Row /\ e.log \in Seq(FieldEdit) /\ ~e.row.voided
         /\ \A i \in DOMAIN e.log : e.log[i].field = "merchant_canon"
<1>1. PICK y \in Names \X Totals \X Currencies :
        Parses(y[2], y[3]) /\ e \in EnteredAs(y[1], y[2], y[3])
  BY DEF Entered
<1> DEFINE m == y[1]
           total == y[2]
           currency == y[3]
<1>2. m \in Names /\ total \in Totals /\ currency \in Currencies /\ Canon[m] \in Names
  BY CanonAssumption
<1> HIDE DEF m, total, currency
<1>3. \A n \in Names : EnteredRow(m, n, ParseMinor(total, currency), currency) \in Row
  BY <1>1, <1>2, ParsedIsInt DEF EnteredRow, Row, total, currency
<1>4. \A n \in Names : <<Entry("merchant_canon", Canon[m], n)>> \in Seq(FieldEdit)
  BY <1>2 DEF Entry, FieldEdit, Field
<1>5. /\ \E n \in Names : e.row = EnteredRow(m, n, ParseMinor(total, currency), currency)
      /\ e.log = << >> \/ \E n \in Names : e.log = <<Entry("merchant_canon", Canon[m], n)>>
  BY <1>1, <1>2 DEF EnteredAs, m, total, currency
<1>6. e.log \in Seq(FieldEdit) /\ \A i \in DOMAIN e.log : e.log[i].field = "merchant_canon"
  <2>1. CASE e.log = << >>
    BY <2>1
  <2>2. CASE \E n \in Names : e.log = <<Entry("merchant_canon", Canon[m], n)>>
    BY <2>2, <1>4 DEF Entry
  <2> QED
    BY <1>5, <2>1, <2>2
<1>7. e.row \in Row /\ ~e.row.voided
  BY <1>3, <1>5 DEF EnteredRow
<1> QED
  BY <1>6, <1>7

LEMMA TypeInit == Init => TypeInv
<1> SUFFICES ASSUME Init PROVE TypeInv
  OBVIOUS
<1>1. PICK start \in [Expenses -> {e \in Entered : e.row.amount # 0}] :
        /\ row = [t \in Expenses |-> start[t].row]
        /\ log = [t \in Expenses |-> start[t].log]
        /\ first = row
        /\ scale = [t \in Expenses |-> Exponent[row[t].currency]]
        /\ job = [p \in Procs |-> NoJob]
  BY DEF Init
<1>2. \A t \in Expenses : start[t].row \in Row /\ start[t].log \in Seq(FieldEdit)
  BY EnteredType
<1>3. row \in [Expenses -> Row] /\ first \in [Expenses -> Row] /\ log \in [Expenses -> Seq(FieldEdit)]
  BY <1>1, <1>2
<1>4. scale \in [Expenses -> Nat]
  BY <1>1, <1>3, ExponentAssumption DEF Row
<1>5. \A p \in Procs : job[p] = NoJob
  BY <1>1
<1>6. job = [p \in Procs |-> job[p]]
  BY <1>1
<1>7. \A p \in Procs : job[p].stage = "idle"
  BY <1>5 DEF NoJob
<1>8. \A p \in Procs : IsUpdate(job[p].set) /\ job[p] \in Job(job[p].set)
  BY <1>5, NoJobType
<1> QED
  BY <1>3, <1>4, <1>6, <1>7, <1>8 DEF TypeInv, TypeOK

Jobs == /\ job = [p \in Procs |-> job[p]]
        /\ \A p \in Procs :
             /\ IsUpdate(job[p].set) /\ job[p] \in Job(job[p].set)
             /\ job[p].stage = "write" => job[p].id \in Expenses

\* A step of one command that leaves it with locals of their types.
LEMMA JobStep ==
  ASSUME Jobs, NEW p \in Procs, NEW j, job' = [job EXCEPT ![p] = j],
         IsUpdate(j.set), j \in Job(j.set), j.stage = "write" => j.id \in Expenses
  PROVE  Jobs'
<1>1. \A q \in Procs : job'[q] = IF q = p THEN j ELSE job[q]
  BY DEF Jobs
<1>2. job' = [q \in Procs |-> job'[q]]
  BY DEF Jobs
<1> QED
  BY <1>1, <1>2 DEF Jobs

LEMMA NoJobStep ==
  ASSUME Jobs, NEW p \in Procs, job' = [job EXCEPT ![p] = NoJob]
  PROVE  Jobs'
<1>1. NoJob.stage = "idle"
  BY DEF NoJob
<1> QED
  BY <1>1, NoJobType, JobStep

\* What a correction decides from the row that it read.
LEMMA ReadType ==
  ASSUME TypeOK, NEW t \in Expenses, NEW c \in Corrections, ~Refused(row[t], c)
  PROVE  /\ row[t] \in Row
         /\ IsUpdate(Columns(row[t], c))
         /\ Accounts(Edited(row[t], Columns(row[t], c)), row[t], Columns(row[t], c), Field)
         /\ Exponent[EditCurrency(row[t], c)] \in Nat
<1>1. row[t] \in Row
  BY DEF TypeOK
<1>2. EditCurrency(row[t], c) \in Currencies
  BY <1>1, CorrectionAssumption DEF EditCurrency, Row
<1> QED
  BY <1>1, <1>2, ColumnsType, EditedAccounts, ExponentAssumption

LEMMA ReadStep ==
  ASSUME TypeInv, NEW p \in Editors, NEW t \in Expenses, NEW c \in Corrections,
         ReadTransaction(p, t, c)
  PROVE  TypeInv'
<1> DEFINE set == Columns(row[t], c)
           edits == Edited(row[t], set)
           j == [NoJob EXCEPT !.stage = "write", !.id = t, !.set = set, !.edits = edits,
                   !.scale = Exponent[EditCurrency(row[t], c)]]
<1>1. ~Refused(row[t], c) /\ job' = [job EXCEPT ![p] = j] /\ UNCHANGED <<row, log, first, scale>>
  BY DEF ReadTransaction
<1>2. IsUpdate(set) /\ edits \in Seq(FieldEdit) /\ Exponent[EditCurrency(row[t], c)] \in Nat
  BY <1>1, ReadType DEF TypeInv, Accounts
<1> HIDE DEF set, edits
<1>3. j \in Job(set) /\ j.set = set /\ j.id = t
  BY <1>2, NoJobType DEF Job, Stages
<1> HIDE DEF j
<1>4. Jobs'
  BY <1>1, <1>2, <1>3, JobStep DEF TypeInv, TypeOK, Jobs, Procs
<1> QED
  BY <1>1, <1>4 DEF TypeInv, TypeOK, Jobs

LEMMA EditStep ==
  ASSUME TypeInv, NEW p \in Editors, EditTransaction(p)
  PROVE  /\ TypeInv'
         /\ \A t \in Expenses : row[t].voided => row'[t] = row[t] /\ log'[t] = log[t]
<1> DEFINE t == job[p].id
           set == job[p].set
<1>1. /\ t \in Expenses /\ IsUpdate(set) /\ job[p].edits \in Seq(FieldEdit) /\ job[p].scale \in Nat
  BY DEF TypeInv, TypeOK, Job, Procs, EditTransaction
<1>2. row[t] \in Row /\ log[t] \in Seq(FieldEdit)
  BY <1>1 DEF TypeInv, TypeOK
<1>3. job' = [job EXCEPT ![p] = NoJob] /\ first' = first
  BY DEF EditTransaction
<1>4. Jobs'
  BY <1>3, NoJobStep DEF TypeInv, TypeOK, Jobs, Procs
<1>5. CASE row[t].voided
  BY <1>3, <1>4, <1>5 DEF EditTransaction, TypeInv, TypeOK, Jobs
<1>6. CASE ~row[t].voided
  <2>1. /\ row' = [row EXCEPT ![t] = Updated(row[t], set)]
        /\ log' = [log EXCEPT ![t] = log[t] \o job[p].edits]
        /\ scale' = IF "amount" \in DOMAIN set THEN [scale EXCEPT ![t] = job[p].scale] ELSE scale
    BY <1>6 DEF EditTransaction
  <2>2. Updated(row[t], set) \in Row
    BY <1>1, <1>2, UpdateType
  <2>3. log[t] \o job[p].edits \in Seq(FieldEdit)
    BY <1>1, <1>2, ConcatProperties
  <2>4. row' \in [Expenses -> Row] /\ log' \in [Expenses -> Seq(FieldEdit)] /\ scale' \in [Expenses -> Nat]
    BY <1>1, <2>1, <2>2, <2>3 DEF TypeInv, TypeOK
  <2>5. \A u \in Expenses : row[u].voided => row'[u] = row[u] /\ log'[u] = log[u]
    BY <1>6, <2>1 DEF TypeInv, TypeOK
  <2> QED
    BY <1>3, <1>4, <2>4, <2>5 DEF TypeInv, TypeOK, Jobs
<1> QED
  BY <1>5, <1>6

LEMMA SelectStep ==
  ASSUME TypeInv, NEW p \in Rerulers, SelectRows(p)
  PROVE  TypeInv'
<1> DEFINE rows == {t \in Expenses : /\ ~row[t].voided /\ ~Renamed(t)
                                     /\ Canon[row[t].merchant] # row[t].merchant_canon}
           j == [NoJob EXCEPT !.stage = "update", !.changes = rows]
<1>1. job' = [job EXCEPT ![p] = j] /\ UNCHANGED <<row, log, first, scale>>
  BY DEF SelectRows
<1>2. rows \in SUBSET Expenses
  OBVIOUS
<1> HIDE DEF rows
<1>3. j \in Job(<< >>) /\ j.set = << >> /\ j.stage = "update"
  BY <1>2, NoJobType DEF Job, Stages
<1> HIDE DEF j
<1>4. Jobs'
  BY <1>1, <1>3, NoJobType, JobStep DEF TypeInv, TypeOK, Jobs, Procs
<1> QED
  BY <1>1, <1>4 DEF TypeInv, TypeOK, Jobs

LEMMA UpdateStep ==
  ASSUME TypeInv, NEW p \in Rerulers, NEW t \in Expenses, UpdateCanon(p, t)
  PROVE  TypeInv'
<1> DEFINE j == [job[p] EXCEPT !.changes = @ \ {t}]
<1>1. /\ row' = [row EXCEPT ![t].merchant_canon = Canon[row[t].merchant]]
      /\ job' = [job EXCEPT ![p] = j] /\ UNCHANGED <<log, first, scale>>
      /\ job[p].stage = "update"
  BY DEF UpdateCanon
<1>2. job[p] \in Job(job[p].set) /\ IsUpdate(job[p].set)
  BY DEF TypeInv, TypeOK, Procs
<1>3. j \in Job(job[p].set) /\ j.set = job[p].set /\ j.stage = "update"
  BY <1>1, <1>2 DEF Job
<1> HIDE DEF j
<1>4. Jobs'
  BY <1>1, <1>2, <1>3, JobStep DEF TypeInv, TypeOK, Jobs, Procs
<1>5. row[t] \in Row /\ Canon[row[t].merchant] \in Names
  BY CanonAssumption DEF TypeInv, TypeOK, Row
<1>6. row' \in [Expenses -> Row]
  BY <1>1, <1>5 DEF TypeInv, TypeOK, Row
<1> QED
  BY <1>1, <1>4, <1>6 DEF TypeInv, TypeOK, Jobs

LEMMA VoidStep ==
  ASSUME TypeInv, NEW t \in Expenses, VoidTransaction(t)
  PROVE  TypeInv'
<1>1. row' = [row EXCEPT ![t].voided = TRUE] /\ UNCHANGED <<log, first, scale, job>>
  BY DEF VoidTransaction
<1>2. row' \in [Expenses -> Row]
  BY <1>1 DEF TypeInv, TypeOK, Row
<1> QED
  BY <1>1, <1>2 DEF TypeInv, TypeOK

LEMMA FinishStep ==
  ASSUME TypeInv, NEW p \in Procs, Finish(p)
  PROVE  TypeInv'
<1>1. job' = [job EXCEPT ![p] = NoJob] /\ UNCHANGED <<row, log, first, scale>>
  BY DEF Finish
<1>2. Jobs'
  BY <1>1, NoJobStep DEF TypeInv, TypeOK, Jobs
<1> QED
  BY <1>1, <1>2 DEF TypeInv, TypeOK, Jobs

LEMMA TypeStep == TypeInv /\ [Next]_vars => TypeInv'
<1> SUFFICES ASSUME TypeInv, [Next]_vars PROVE TypeInv'
  OBVIOUS
<1>1. CASE UNCHANGED vars
  BY <1>1 DEF vars, TypeInv, TypeOK
<1>2. CASE Next
  BY <1>2, ReadStep, EditStep, SelectStep, UpdateStep, VoidStep, FinishStep DEF Next
<1> QED
  BY <1>1, <1>2

\* The rows, the edit_log and the locals of every command have their types.
THEOREM TypeTheorem == Spec => []TypeOK
<1>1. TypeInv => TypeOK
  BY DEF TypeInv
<1> QED
  BY <1>1, TypeInit, TypeStep, PTL DEF Spec

-----------------------------------------------------------------------------
(***************************************************************************)
(* What is voided stays as it is, whoever edits: also a correction that    *)
(* read the row before the undo writes nothing.                            *)
(***************************************************************************)
Frozen ==
  \A t \in Expenses :
    row[t].voided =>
      /\ row'[t].voided /\ log'[t] = log[t]
      /\ row'[t].amount = row[t].amount /\ row'[t].currency = row[t].currency

LEMMA NextFrozen == TypeInv /\ Next => Frozen
<1> SUFFICES ASSUME TypeInv, Next PROVE Frozen
  OBVIOUS
<1>1. ASSUME NEW p \in Editors, NEW t \in Expenses, NEW c \in Corrections, ReadTransaction(p, t, c)
      PROVE  Frozen
  BY <1>1 DEF ReadTransaction, Frozen
<1>2. ASSUME NEW p \in Editors, EditTransaction(p) PROVE Frozen
  BY <1>2, EditStep DEF Frozen
<1>3. ASSUME NEW p \in Rerulers, SelectRows(p) PROVE Frozen
  BY <1>3 DEF SelectRows, Frozen
<1>4. ASSUME NEW p \in Rerulers, NEW t \in Expenses, UpdateCanon(p, t) PROVE Frozen
  BY <1>4 DEF UpdateCanon, Frozen, TypeInv, TypeOK, Row
<1>5. ASSUME NEW p \in Procs, Finish(p) PROVE Frozen
  BY <1>5 DEF Finish, Frozen
<1>6. ASSUME NEW t \in Expenses, VoidTransaction(t) PROVE Frozen
  BY <1>6 DEF VoidTransaction, Frozen, TypeInv, TypeOK, Row
<1> QED
  BY <1>1, <1>2, <1>3, <1>4, <1>5, <1>6 DEF Next

\* transactions.go, "voided_at is null" in every update of a row: no correction
\* reaches an expense that was undone, not even one that had read it before.
THEOREM VoidedTheorem == Spec => VoidedIsFrozen
<1>1. TypeInv /\ [Next]_vars => [Frozen]_vars
  BY NextFrozen
<1> QED
  BY <1>1, TypeInit, TypeStep, PTL DEF Spec, VoidedIsFrozen, Frozen

-----------------------------------------------------------------------------
(***************************************************************************)
(* One editor at a time. Between its read and its write only rerule and an *)
(* undo touch the row, and neither changes its amount or its currency: what *)
(* was decided from the row still stands when it is written.               *)
(***************************************************************************)
OneEditor == \A p, q \in Editors : p = q
Sums == {"amount", "currency"}

Stands(j) ==
  LET r == row[j.id] IN
  /\ Accounts(j.edits, r, j.set, Sums)
  /\ Exponent[Updated(r, j.set).currency] =
       IF "amount" \in DOMAIN j.set THEN j.scale ELSE Exponent[r.currency]

LogInv ==
  /\ AmountIsToScale /\ LastChangeIsLogged /\ LogIsAChain
  /\ \A p \in Editors : job[p].stage = "write" => Stands(job[p])

\* What stands for one row stands for another with the same amount and currency.
LEMMA StandsSame ==
  ASSUME NEW r \in Row, NEW s \in Row, r.amount = s.amount, r.currency = s.currency,
         NEW set, IsUpdate(set), NEW edits, Accounts(edits, r, set, Sums)
  PROVE  /\ Accounts(edits, s, set, Sums)
         /\ Updated(r, set).currency = Updated(s, set).currency
<1>1. \A f \in Sums : r[f] = s[f]
  BY DEF Sums
<1>2. Accounts(edits, s, set, Sums)
  BY <1>1 DEF Accounts
<1>3. "currency" \in Field
  BY DEF Field
<1>4. Updated(r, set)["currency"] = Updated(s, set)["currency"]
  BY <1>3, UpdateType
<1> QED
  BY <1>2, <1>4

\* Nothing is lost by a step that leaves the amounts, the currencies and the
\* log alone, and no editor with a decision that does not stand.
LEMMA Untouched ==
  ASSUME TypeInv, TypeInv', LogInv, UNCHANGED <<log, first, scale>>,
         \A t \in Expenses :
           row'[t].amount = row[t].amount /\ row'[t].currency = row[t].currency,
         \A p \in Editors :
           job'[p].stage = "write" => job'[p] = job[p] \/ Stands(job'[p])
  PROVE  LogInv'
<1>1. AmountIsToScale' /\ LastChangeIsLogged' /\ LogIsAChain'
  BY DEF LogInv, AmountIsToScale, LastChangeIsLogged, LogIsAChain
<1>2. ASSUME NEW p \in Editors, job'[p].stage = "write" PROVE Stands(job[p])'
  <2> DEFINE j == job'[p]
             r == row[j.id]
             s == row'[j.id]
  <2>1. Stands(j)
    BY <1>2 DEF LogInv
  <2>2. j.id \in Expenses /\ IsUpdate(j.set)
    BY <1>2 DEF TypeInv, TypeOK, Procs
  <2>3. r \in Row /\ s \in Row /\ r.amount = s.amount /\ r.currency = s.currency
    BY <2>2 DEF TypeInv, TypeOK
  <2> HIDE DEF r, s, j
  <2>4. Accounts(j.edits, s, j.set, Sums) /\ Updated(r, j.set).currency = Updated(s, j.set).currency
    BY <2>1, <2>2, <2>3, StandsSame DEF Stands, r
  <2>5. Exponent[Updated(s, j.set).currency] =
          IF "amount" \in DOMAIN j.set THEN j.scale ELSE Exponent[s.currency]
    BY <2>1, <2>3, <2>4 DEF Stands, r
  <2> QED
    BY <2>4, <2>5 DEF Stands, s, j
<1> QED
  BY <1>1, <1>2 DEF LogInv

LEMMA LogInit == Init => LogInv
<1> SUFFICES ASSUME Init PROVE LogInv
  OBVIOUS
<1>1. PICK start \in [Expenses -> {e \in Entered : e.row.amount # 0}] :
        /\ log = [t \in Expenses |-> start[t].log]
        /\ first = row
        /\ scale = [t \in Expenses |-> Exponent[row[t].currency]]
        /\ job = [p \in Procs |-> NoJob]
  BY DEF Init
<1>2. AmountIsToScale
  BY <1>1 DEF AmountIsToScale
<1>3. ASSUME NEW t \in Expenses
      PROVE  log[t] \in Seq(FieldEdit) /\ \A i \in 1..Len(log[t]) : log[t][i].field \notin Sums
  BY <1>1, EnteredType, LenProperties DEF Sums
<1>4. LastChangeIsLogged
  BY <1>1, <1>3 DEF LastChangeIsLogged, Leaves, Sums
<1>5. LogIsAChain
  BY <1>3, LenProperties DEF LogIsAChain, Sums
<1>6. \A p \in Editors : job[p].stage = "idle"
  BY <1>1 DEF Procs, NoJob
<1> QED
  BY <1>2, <1>4, <1>5, <1>6 DEF LogInv

\* A correction that has just been decided stands.
LEMMA ReadStands ==
  ASSUME TypeInv, NEW p \in Editors, NEW t \in Expenses, NEW c \in Corrections,
         ReadTransaction(p, t, c)
  PROVE  Stands(job'[p])
<1> DEFINE set == Columns(row[t], c)
           edits == Edited(row[t], set)
           sc == Exponent[EditCurrency(row[t], c)]
           j == [NoJob EXCEPT !.stage = "write", !.id = t, !.set = set, !.edits = edits,
                   !.scale = sc]
           u == Updated(row[t], set)
<1>1. ~Refused(row[t], c) /\ job' = [job EXCEPT ![p] = j]
  BY DEF ReadTransaction
<1>2. row[t] \in Row /\ IsUpdate(set) /\ Accounts(edits, row[t], set, Field)
  BY <1>1, ReadType DEF TypeInv
<1>3. /\ "amount" \in DOMAIN set <=> "total" \in DOMAIN c
      /\ "currency" \in DOMAIN set <=> "currency" \in DOMAIN c
      /\ "currency" \in DOMAIN c => set["currency"] = c["currency"]
  BY <1>1, <1>2, ColumnsType
<1>4. u["currency"] = IF "currency" \in DOMAIN set THEN set["currency"] ELSE row[t]["currency"]
  BY <1>2, UpdateType DEF Field
<1>5. u.currency = EditCurrency(row[t], c)
  BY <1>3, <1>4 DEF EditCurrency
<1>6. "amount" \notin DOMAIN set => Exponent[u.currency] = Exponent[row[t].currency]
  BY <1>1, <1>3, <1>5 DEF Refused, EditCurrency
<1>7. Sums \subseteq Field
  BY DEF Sums, Field
<1>8. Accounts(edits, row[t], set, Sums)
  BY <1>2, <1>7 DEF Accounts
<1> HIDE DEF set, edits, sc
<1>9. j.id = t /\ j.set = set /\ j.edits = edits /\ j.scale = sc
  BY NoJobType DEF Job
<1>10. job'[p] = j
  BY <1>1 DEF TypeInv, TypeOK, Procs
<1> HIDE DEF j
<1> QED
  BY <1>5, <1>6, <1>8, <1>9, <1>10 DEF Stands, sc

LEMMA LogRead ==
  ASSUME TypeInv, LogInv, NEW p \in Editors, NEW t \in Expenses, NEW c \in Corrections,
         ReadTransaction(p, t, c)
  PROVE  LogInv'
<1>1. UNCHANGED <<row, log, first, scale>> /\ TypeInv'
  BY ReadStep DEF ReadTransaction
<1>2. Stands(job'[p])
  BY ReadStands
<1>3. \A q \in Editors : q # p => job'[q] = job[q]
  BY DEF ReadTransaction, TypeInv, TypeOK, Procs
<1> QED
  BY <1>1, <1>2, <1>3, Untouched

LEMMA LogEdit ==
  ASSUME OneEditor, TypeInv, LogInv, NEW p \in Editors, EditTransaction(p)
  PROVE  LogInv'
<1> DEFINE t == job[p].id
           set == job[p].set
           edits == job[p].edits
           u == Updated(row[t], set)
<1>1. t \in Expenses /\ IsUpdate(set) /\ row[t] \in Row /\ log[t] \in Seq(FieldEdit)
  BY DEF TypeInv, TypeOK, Procs, EditTransaction
<1>2. TypeInv' /\ first' = first /\ job' = [job EXCEPT ![p] = NoJob]
  BY EditStep DEF EditTransaction
<1>3. \A q \in Editors : job'[q].stage = "idle"
  BY <1>2 DEF OneEditor, TypeInv, TypeOK, Procs, NoJob
<1>4. CASE row[t].voided
  <2>1. UNCHANGED <<row, log, scale>>
    BY <1>4 DEF EditTransaction
  <2> QED
    BY <2>1, <1>2, <1>3, Untouched
<1>5. CASE ~row[t].voided
  <2>1. /\ row' = [row EXCEPT ![t] = u] /\ log' = [log EXCEPT ![t] = log[t] \o edits]
        /\ scale' = IF "amount" \in DOMAIN set THEN [scale EXCEPT ![t] = job[p].scale] ELSE scale
    BY <1>5 DEF EditTransaction
  <2>2. /\ Accounts(edits, row[t], set, Sums)
        /\ Exponent[u.currency] =
             IF "amount" \in DOMAIN set THEN job[p].scale ELSE Exponent[row[t].currency]
    BY DEF LogInv, Stands, EditTransaction
  <2>3. \A f \in Sums : u[f] = IF f \in DOMAIN set THEN set[f] ELSE row[t][f]
    BY <1>1, UpdateType DEF Sums, Field
  <2> HIDE DEF t, set, edits, u
  <2>4. \A x \in Expenses : x # t => row'[x] = row[x] /\ log'[x] = log[x] /\ scale'[x] = scale[x]
    BY <2>1, <1>1 DEF TypeInv, TypeOK
  <2>5. /\ row'[t] = u /\ log'[t] = log[t] \o edits
        /\ scale'[t] = IF "amount" \in DOMAIN set THEN job[p].scale ELSE scale[t]
    BY <2>1, <1>1 DEF TypeInv, TypeOK
  <2>6. AmountIsToScale'
    BY <2>2, <2>4, <2>5, <1>1 DEF LogInv, AmountIsToScale
  <2>7. ASSUME NEW f \in Sums
        PROVE  /\ Leaves(log'[t], Len(log'[t]), f, first'[t][f], row'[t][f])
               /\ \A i \in DOMAIN log'[t] :
                    log'[t][i].field = f => Leaves(log'[t], i - 1, f, first'[t][f], log'[t][i].old)
    <3> DEFINE l == log[t]
               k == log'[t]
               start == first[t][f]
    <3>1. Leaves(l, Len(l), f, start, row[t][f])
      BY <1>1 DEF LogInv, LastChangeIsLogged, Sums
    <3>2. \A i \in DOMAIN l : l[i].field = f => Leaves(l, i - 1, f, start, l[i].old)
      BY <1>1 DEF LogInv, LogIsAChain, Sums
    <3>3. edits \in Seq(FieldEdit)
      BY <2>2 DEF Accounts
    <3>4. /\ k \in Seq(FieldEdit) /\ Len(k) = Len(l) + Len(edits)
          /\ \A i \in 1..Len(l) + Len(edits) : k[i] = IF i <= Len(l) THEN l[i] ELSE edits[i - Len(l)]
      BY <1>1, <2>5, <3>3, ConcatProperties
    <3>5. /\ Len(l) \in Nat /\ Len(edits) \in Nat /\ Len(k) \in Nat
          /\ DOMAIN l = 1..Len(l) /\ DOMAIN k = 1..Len(k)
      BY <1>1, <3>3, <3>4, LenProperties
    <3>6. /\ Leaves(k, Len(k), f, start, IF f \in DOMAIN set THEN set[f] ELSE row[t][f])
          /\ \A i \in Len(l) + 1..Len(k) :
               k[i].field = f => Leaves(k, i - 1, f, start, k[i].old)
      <4>1. l \in Seq(FieldEdit) /\ k = l \o edits /\ Accounts(edits, row[t], set, Sums)
        BY <1>1, <2>2, <2>5
      <4> HIDE DEF l, k, start
      <4> QED
        BY <4>1, <3>1, LeavesUpdate
    <3> HIDE DEF l, k, start
    <3>7. ASSUME NEW i \in 1..Len(l), k[i].field = f PROVE Leaves(k, i - 1, f, start, k[i].old)
      <4>1. k[i] = l[i] /\ Leaves(l, i - 1, f, start, l[i].old)
        BY <3>2, <3>4, <3>5, <3>7
      <4>2. i - 1 \in Nat /\ \A j \in 1..i - 1 : k[j] = l[j]
        BY <3>4, <3>5
      <4> QED
        BY <4>1, <4>2, LeavesPrefix
    <3>8. \A i \in DOMAIN k : k[i].field = f => Leaves(k, i - 1, f, start, k[i].old)
      <4>1. \A i \in DOMAIN k : i \in 1..Len(l) \/ i \in Len(l) + 1..Len(k)
        BY <3>5
      <4> QED
        BY <4>1, <3>6, <3>7
    <3> QED
      BY <1>2, <2>3, <2>5, <3>6, <3>8 DEF k, start
  <2>8. LastChangeIsLogged'
    BY <1>2, <2>4, <2>7 DEF LogInv, LastChangeIsLogged, Sums
  <2>9. LogIsAChain'
    BY <1>2, <2>4, <2>7 DEF LogInv, LogIsAChain, Sums
  <2> QED
    BY <1>3, <2>6, <2>8, <2>9 DEF LogInv
<1> QED
  BY <1>4, <1>5

LEMMA LogStep == OneEditor /\ TypeInv /\ LogInv /\ [Next]_vars => LogInv'
<1> SUFFICES ASSUME OneEditor, TypeInv, LogInv, [Next]_vars PROVE LogInv'
  OBVIOUS
<1>1. TypeInv'
  BY TypeStep
<1>2. ASSUME NEW p \in Editors, NEW t \in Expenses, NEW c \in Corrections, ReadTransaction(p, t, c)
      PROVE  LogInv'
  BY <1>2, LogRead
<1>3. ASSUME NEW p \in Editors, EditTransaction(p) PROVE LogInv'
  BY <1>3, LogEdit
<1>4. ASSUME NEW p \in Rerulers, SelectRows(p) PROVE LogInv'
  <2>1. \A q \in Procs : job'[q] = job[q] \/ job'[q].stage = "update"
    BY <1>4, NoJobType DEF SelectRows, TypeInv, TypeOK, Job
  <2> QED
    BY <1>1, <1>4, <2>1, Untouched DEF SelectRows, Procs
<1>5. ASSUME NEW p \in Rerulers, NEW t \in Expenses, UpdateCanon(p, t) PROVE LogInv'
  <2>1. \A q \in Procs : job'[q] = job[q] \/ job'[q].stage = "update"
    BY <1>5 DEF UpdateCanon, TypeInv, TypeOK, Job, Procs
  <2>2. \A x \in Expenses : row'[x].amount = row[x].amount /\ row'[x].currency = row[x].currency
    BY <1>5 DEF UpdateCanon, TypeInv, TypeOK, Row
  <2> QED
    BY <1>1, <1>5, <2>1, <2>2, Untouched DEF UpdateCanon, Procs
<1>6. ASSUME NEW p \in Procs, Finish(p) PROVE LogInv'
  <2>1. \A q \in Procs : job'[q] = job[q] \/ job'[q].stage = "idle"
    BY <1>6 DEF Finish, TypeInv, TypeOK, NoJob
  <2> QED
    BY <1>1, <1>6, <2>1, Untouched DEF Finish, Procs
<1>7. ASSUME NEW t \in Expenses, VoidTransaction(t) PROVE LogInv'
  <2>1. \A x \in Expenses : row'[x].amount = row[x].amount /\ row'[x].currency = row[x].currency
    BY <1>7 DEF VoidTransaction, TypeInv, TypeOK, Row
  <2> QED
    BY <1>1, <1>7, <2>1, Untouched DEF VoidTransaction
<1>8. CASE UNCHANGED vars
  BY <1>1, <1>8, Untouched DEF vars
<1> QED
  BY <1>2, <1>3, <1>4, <1>5, <1>6, <1>7, <1>8 DEF Next

LEMMA LogInductive == ASSUME OneEditor PROVE Spec => []LogInv
<1>1. Init => TypeInv /\ LogInv
  BY TypeInit, LogInit
<1>2. TypeInv /\ LogInv /\ [Next]_vars => (TypeInv /\ LogInv)'
  BY TypeStep, LogStep
<1> QED
  BY <1>1, <1>2, PTL DEF Spec

\* command.go:139: no sequence of corrections, undos and rerules leaves an amount
\* that was parsed with the exponent of another currency than the row's.
THEOREM ScaleTheorem == ASSUME OneEditor PROVE Spec => []AmountIsToScale
<1>1. LogInv => AmountIsToScale
  BY DEF LogInv
<1> QED
  BY <1>1, LogInductive, PTL

\* command.go:189: the amount and the currency of an expense are what its
\* edit_log leaves of what was entered.
THEOREM LastChangeTheorem == ASSUME OneEditor PROVE Spec => []LastChangeIsLogged
<1>1. LogInv => LastChangeIsLogged
  BY DEF LogInv
<1> QED
  BY <1>1, LogInductive, PTL

\* command.go:125: every row of the edit_log starts from what the rows before
\* it left, so no change is missing between two of them.
THEOREM ChainTheorem == ASSUME OneEditor PROVE Spec => []LogIsAChain
<1>1. LogInv => LogIsAChain
  BY DEF LogInv
<1> QED
  BY <1>1, LogInductive, PTL
=============================================================================
