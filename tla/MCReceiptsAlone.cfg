\* The bot alone with two receipts; it crashes and its statements fail at any
\* point; the operator only voids.
SPECIFICATION Spec
CONSTANTS
  r1 = r1
  r2 = r2
  printed = printed
  short = short
  typed = typed
  a1 = a1
  a2 = a2
  refund = refund
  Bot = Bot
  cli = cli
  Illegible = Illegible
  NoRaw = NoRaw
  NoReceipt = NoReceipt
  Receipts = {r1, r2}
  Reprocessors = {}
  Names <- MCNames
  Amounts <- MCAmounts
  NotPositive = {refund}
  Canon <- MCCanon
  Readings <- MCOneReading
  Patches <- MCBreakingPatches
  Crashes = TRUE
  DBErrors = TRUE
  MaxExpenses = 2
SYMMETRY MCSymmetry
INVARIANTS
  ActiveIsConfirmed
  NoLostRace
PROPERTIES
  ImplementsLifecycle
