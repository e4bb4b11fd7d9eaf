-------------------------------- MODULE Texts --------------------------------
(***************************************************************************)
(* The algorithms on texts that a chat or a command line feeds, one input  *)
(* at a time: amounts, days and months, replies and /add, hybrid search.   *)
(* They keep nothing between two inputs.                                   *)
(***************************************************************************)
EXTENDS Money, Tokens, Replies, Fusion

CONSTANTS
  AmountTexts,    \* strings that may be amounts
  Minors,         \* amounts that are written
  Todays,         \* days on which tokens are read
  DayTokens,      \* days of a month, as <<month, day>>
  ReplyTexts,     \* sequences of tokens
  TrgmLists,      \* lists of hits, and of hits by vector
  VecLists

ASSUME AmountAssumption == AmountTexts \subseteq Amounts /\ Minors \subseteq -MaxInt..MaxInt
ASSUME DayAssumption ==
  /\ \A today \in Todays :
       today \in [y : Nat, m : 1..12, d : 1..31] /\ IsDate(today.y, today.m, today.d)
  /\ DayTokens \subseteq Nat \X Nat
ASSUME ReplyAssumption == ReplyTexts \subseteq Seq(Kinds)
ASSUME ListAssumption == \A list \in TrgmLists \cup VecLists : IsList(list)

VARIABLE asked

Init == asked = [about |-> "nothing"]

Amount == \E text \in AmountTexts, decimals \in {Exponent(c) : c \in Currencies} \cup {Milli} :
  asked' = [about |-> "amount", text |-> text, decimals |-> decimals]

Write == \E minor \in Minors, currency \in Currencies :
  asked' = [about |-> "write", minor |-> minor, exponent |-> Exponent(currency)]

Day == \E today \in Todays, token \in DayTokens :
  asked' = [about |-> "day", today |-> today, m |-> token[1], d |-> token[2]]

Since == \E today \in Todays, back \in 0..2 :
  asked' = [about |-> "since", today |-> today, back |-> back]

Month == \E today \in Todays, m \in 1..12 :
  asked' = [about |-> "month", today |-> today, m |-> m]

Reply == \E text \in ReplyTexts, currency \in Currencies :
  asked' = [about |-> "reply", text |-> text, currency |-> currency]

Add == \E text \in ReplyTexts : asked' = [about |-> "add", text |-> text]

Search == \E trgm \in TrgmLists, vec \in VecLists : \E near \in 0..Len(vec) :
  asked' = [about |-> "search", trgm |-> trgm, vec |-> vec, near |-> near]

Ask == asked.about = "nothing" /\
         (Amount \/ Write \/ Day \/ Since \/ Month \/ Reply \/ Add \/ Search)
Answer == asked.about # "nothing" /\ asked' = [about |-> "nothing"]

Next == Ask \/ Answer
Spec == Init /\ [][Next]_asked

-----------------------------------------------------------------------------
(***************************************************************************)
(* Properties.                                                             *)
(***************************************************************************)

\* money.go:43, "guarded against int64 overflow": an amount is read exactly or
\* not at all, up to the largest integer, and what is written reads back.
AmountsAreExact ==
  /\ asked.about = "amount" => ReadExactly(asked.text, asked.decimals)
  /\ asked.about = "write" => ReadsBack(asked.minor, asked.exponent)

\* daytok.go:31 and monthtok.go:30, "most recent": on every day, across the end
\* of a month and of a year. Not of 29/02: see TypedDayIsKept.
TokensAreMostRecent ==
  /\ asked.about = "day" /\ ~(asked.m = 2 /\ asked.d = 29) => DayIsMostRecent(asked.m, asked.d, asked.today)
  /\ asked.about = "since" => RelativeIsExact(asked.back, asked.today)
  /\ asked.about = "month" => MonthIsMostRecent(asked.m, asked.today)

\* correct.go:26, "Nothing else is inferred from it": what is accepted, as a
\* reply or as an /add, leaves no word of the user out and uses none twice.
RepliesUseAll ==
  /\ asked.about = "reply" => ReplyUsesAll(asked.text, asked.currency)
  /\ asked.about = "add" => AddIsAReply(asked.text)

\* command.go:305, the promise of fuse about hits of both lists and ties.
HitsAreInOrder ==
  asked.about = "search" => /\ LiteralFirst(asked.trgm, asked.vec, asked.near)
                            /\ OneList(asked.trgm, asked.vec, asked.near)

\* daytok.go:31, "DD/MM: this year, unless that is still ahead of us", then
\* last year: the day that is read is the day and the month that were typed.
TypedDayIsKept ==
  asked.about = "day" =>
    LET date == DayMonth(asked.m, asked.d, asked.today) IN
      date = NoDate \/ (date.m = asked.m /\ date.d = asked.d)
=============================================================================
