\* The three worlds of MCCards; every property says which of them it is about.
SPECIFICATION FairSpec
CONSTANTS
  r1 = r1
  d1 = d1
  d2 = d2
  Unreadable = Unreadable
  Nothing = Nothing
  Receipts = {r1}
  Drafts = {d1, d2}
  Worlds <- MCWorlds
INVARIANTS
  TypeOK
  CardsAreLive
  HandledPhotosAreOnRecord
  SavedCardsAreTrue
PROPERTIES
  ConfirmWhatYouSee
  PhotosAreRead
