\* Days and months only.
SPECIFICATION Spec
CONSTANTS
  MaxInt = 127
  MaxWords = 4
  RrfK = 60
  Limit = 5
  AmountTexts = {}
  Minors = {}
  Todays <- MCTodays
  DayTokens <- MCDayTokens
  ReplyTexts = {}
  TrgmLists = {}
  VecLists = {}
INVARIANTS
  TypedDayIsKept
