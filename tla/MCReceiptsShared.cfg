\* One receipt, the bot and one concurrent `finbox reprocess`; the bot crashes
\* at any point.
SPECIFICATION FairSpec
CONSTANTS
  r1 = r1
  r2 = r2
  printed = printed
  short = short
  typed = typed
  a1 = a1
  a2 = a2
  refund = refund
  Bot = Bot
  cli = cli
  Illegible = Illegible
  NoRaw = NoRaw
  NoReceipt = NoReceipt
  Receipts = {r1}
  Reprocessors = {cli}
  Names <- MCNames
  Amounts <- MCAmounts
  NotPositive = {refund}
  Canon <- MCCanon
  Readings <- MCTwoReadings
  Patches <- MCTwoPatches
  Crashes = TRUE
  DBErrors = FALSE
  MaxExpenses = 2
INVARIANTS
  TypeOK
  OriginalStored
  CountedOnce
  PendingIsUntouched
  EditLogExact
PROPERTIES
  ConfirmSavesTheDraft
  PendingIsResolved
