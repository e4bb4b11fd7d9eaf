-------------------------- MODULE ReceiptLifecycle --------------------------
(***************************************************************************)
(* What finbox promises about a receipt, without saying how (README.md,    *)
(* "Daily use"): a photo becomes a draft that the user confirms, corrects  *)
(* or discards; only a confirmed draft is an expense, exactly as drafted;  *)
(* a discarded, failed or undone receipt can be read again.                *)
(*                                                                         *)
(* One bot that handles one update at a time implements it (see Receipts); *)
(* a reprocess command running beside the bot does not.                    *)
(***************************************************************************)
CONSTANTS
  Receipts,
  Drafts,     \* what a readable draft says: merchant and total
  Nothing     \* no readable draft, or no expense in the totals; not in Drafts

VARIABLES
  life,     \* where each receipt is
  draft,    \* the draft that a confirm would save
  ledger    \* the expense of each receipt that the totals count

lifeVars == <<life, draft, ledger>>

Lives == {"absent", "pending", "awaiting_confirm", "failed", "discarded",
          "expense", "undone"}

LifeInit ==
  /\ life = [r \in Receipts |-> "absent"]
  /\ draft = [r \in Receipts |-> Nothing]
  /\ ledger = [r \in Receipts |-> Nothing]

Move(r, to) == life' = [life EXCEPT ![r] = to]

\* A photo is accepted.
Accept(r) ==
  /\ life[r] = "absent"
  /\ Move(r, "pending")
  /\ UNCHANGED <<draft, ledger>>

\* The model, or the user, changes what the draft says: never that of an
\* expense in the totals.
Redraft(r) ==
  /\ life[r] \notin {"absent", "expense"}
  /\ \E d \in Drafts \cup {Nothing} : draft' = [draft EXCEPT ![r] = d]
  /\ UNCHANGED <<life, ledger>>

\* A readable draft is offered for confirmation.
Offer(r) ==
  /\ life[r] \in {"pending", "failed", "discarded", "undone"}
  /\ draft[r] # Nothing
  /\ Move(r, "awaiting_confirm")
  /\ UNCHANGED <<draft, ledger>>

\* Reading failed, or a correction left the draft unreadable.
Fail(r) ==
  /\ life[r] \in {"pending", "awaiting_confirm", "failed", "discarded", "undone"}
  /\ Move(r, "failed")
  /\ UNCHANGED <<draft, ledger>>

\* The only way into the totals.
Confirm(r) ==
  /\ life[r] = "awaiting_confirm" /\ draft[r] # Nothing
  /\ Move(r, "expense")
  /\ ledger' = [ledger EXCEPT ![r] = draft[r]]
  /\ UNCHANGED draft

Discard(r) ==
  /\ life[r] \in {"awaiting_confirm", "failed"}
  /\ Move(r, "discarded")
  /\ UNCHANGED <<draft, ledger>>

Undo(r) ==
  /\ life[r] = "expense"
  /\ Move(r, "undone")
  /\ ledger' = [ledger EXCEPT ![r] = Nothing]
  /\ UNCHANGED draft

LifeNext ==
  \E r \in Receipts :
    Accept(r) \/ Redraft(r) \/ Offer(r) \/ Fail(r) \/ Confirm(r) \/ Discard(r) \/ Undo(r)

LifeSpec == LifeInit /\ [][LifeNext]_lifeVars
=============================================================================
