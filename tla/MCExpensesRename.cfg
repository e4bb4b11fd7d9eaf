\* A rename while rerule is running.
SPECIFICATION Spec
CONSTANTS
  t1 = t1
  t2 = t2
  bot = bot
  cli = cli
  rerule = rerule
  printed = printed
  short = short
  typed = typed
  MXN = MXN
  JPY = JPY
  Nobody = Nobody
  Expenses = {t1}
  Editors = {bot}
  Rerulers = {rerule}
  Names <- MCNames
  Canon <- MCCanon
  Currencies = {MXN, JPY}
  Exponent <- MCExponent
  Totals <- MCTotals
  Corrections <- MCCorrections
  MaxEdits = 4
INVARIANTS
  RenameWins
