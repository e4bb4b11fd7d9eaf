\* A user who waits for each answer; the bot may crash at any point.
SPECIFICATION Spec
CONSTANTS
  r1 = r1
  d1 = d1
  d2 = d2
  Unreadable = Unreadable
  Nothing = Nothing
  Receipts = {r1}
  Drafts = {d1, d2}
  Worlds <- MCStrandedWorlds
INVARIANTS
  AwaitingIsConfirmable
