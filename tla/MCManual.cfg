\* Two updates; crashes anywhere and pairs of the other troubles; the purge
\* comes as early as it may.
SPECIFICATION FairSpec
CONSTANTS
  MaxUpdates = 2
  MaxNow = 2
  Retention = 1
  PurgeAge = 1
  Totals = {1, 2}
  MaxExpenses = 2
  Worlds <- MCWorlds
INVARIANTS
  TypeOK
  NothingIsForgotten
  UndoneIsOut
PROPERTIES
  HandledOnce
  DuplicateIsHinted
  HintMeansAnother
  UpdatesAreSettled
