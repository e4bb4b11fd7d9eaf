\* A deployment: reembed of the new release beside the bot of the old one, and
\* `finbox edit` beside both.
SPECIFICATION FairSpec
CONSTANTS
  t1 = t1
  i1 = i1
  bot = bot
  reembed = reembed
  older = older
  newer = newer
  None = None
  Empty = Empty
  Expenses = {t1}
  Items = {i1}
  Owner <- MCOwner
  Texts = {textA, textB}
  Lines = {Empty, lineA}
  Bots = {bot}
  Reembeds = {reembed}
  Release <- Deploying
  Others = TRUE
  MaxEdits = 1
INVARIANTS
  TypeOK
  IndexedIsFresh
PROPERTIES
  IndexHeals
CHECK_DEADLOCK FALSE
