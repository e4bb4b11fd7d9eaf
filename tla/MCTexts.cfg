\* Every input once.
SPECIFICATION Spec
CONSTANTS
  MaxInt = 127
  MaxWords = 4
  RrfK = 60
  Limit = 5
  AmountTexts <- MCAmountTexts
  Minors <- MCMinors
  Todays <- MCTodays
  DayTokens <- MCDayTokens
  ReplyTexts <- MCReplyTexts
  TrgmLists <- MCTrgmLists
  VecLists <- MCVecLists
INVARIANTS
  AmountsAreExact
  TokensAreMostRecent
  RepliesUseAll
  HitsAreInOrder
