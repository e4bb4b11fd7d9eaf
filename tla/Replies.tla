------------------------------- MODULE Replies -------------------------------
(***************************************************************************)
(* The grammar of replies and of /add: bare values are told apart by their *)
(* shape, keywords own what follows them. A text is a sequence of tokens,  *)
(* each standing for its kind.                                             *)
(*                                                                         *)
(* Source: internal/correct/correct.go; the amounts and dates in Money and *)
(* in Tokens.                                                              *)
(***************************************************************************)
EXTENDS Integers, SequencesExt

CONSTANT MaxWords      \* of a merchant without its keyword (4)

ASSUME WordAssumption == MaxWords \in Nat

FieldOf == [total |-> "total", fecha |-> "date", comercio |-> "merchant", moneda |-> "currency",
            categoria |-> "category"]
Keywords == DOMAIN FieldOf
FieldNames == {"total", "date", "merchant", "currency", "category"}

\* "285.5" has a decimal, "0" is no total, "32/09" no day; "super" is a category
\* when a keyword says so.
Shape == [t \in {"285", "285.5", "0", "ayer", "32/09", "JPY", "24h", "Oxxo", "super"} |->
            CASE t \in {"285", "285.5", "0"} -> "total"
              [] t \in {"ayer", "32/09"} -> "date"
              [] t = "JPY" -> "currency"
              [] t = "24h" -> "mixed"
              [] OTHER -> "word"]
Kinds == Keywords \cup DOMAIN Shape

NoFields == [f \in FieldNames |-> << >>]
Unparseable == [error |-> TRUE, fields |-> NoFields]
Parsed(fields) == [error |-> FALSE, fields |-> fields]

\* A value: its field, its tokens, and the position in the text that gave it.
Value(field, tokens, i) == [field |-> field, tokens |-> tokens, at |-> i]

FirstKey(text) == CHOOSE i \in 1..Len(text) + 1 :
  /\ i = Len(text) + 1 \/ text[i] \in Keywords
  /\ \A j \in 1..i - 1 : text[j] \notin Keywords
Bare(text) == SubSeq(text, 1, FirstKey(text) - 1)

\* The words are a merchant when there is nothing else and they are few.
BareWords(bare) ==
  IF \E i \in DOMAIN bare : Shape[bare[i]] = "word" THEN {Value("merchant", bare, 0)} ELSE {}

BareValues(bare) ==
  {Value(Shape[bare[i]], <<bare[i]>>, i) : i \in {j \in DOMAIN bare : Shape[bare[j]] # "word"}}

\* Mutant: words may be mixed with values.
FewWords(bare) ==
  LET words == {i \in DOMAIN bare : Shape[bare[i]] = "word"} IN
  /\ \A i \in DOMAIN bare : Shape[bare[i]] # "mixed"
  /\ words # {} => Len(bare) <= MaxWords

BareOK(bare) ==
  LET words == {i \in DOMAIN bare : Shape[bare[i]] = "word"} IN
  /\ \A i \in DOMAIN bare : Shape[bare[i]] # "mixed"
  /\ words # {} => words = DOMAIN bare /\ Len(bare) <= MaxWords

\* Each keyword owns the tokens up to the next.
EndOf(text, i) == CHOOSE j \in i..Len(text) :
  /\ j = Len(text) \/ text[j + 1] \in Keywords
  /\ \A k \in i + 1..j : text[k] \notin Keywords
KeyValues(text) ==
  {Value(FieldOf[text[i]], SubSeq(text, i + 1, EndOf(text, i)), i) :
     i \in {j \in DOMAIN text : text[j] \in Keywords}}

\* normalize: the values of the fields, the total in the currency of the text
\* or else of the receipt.
Sound(fields, currency) ==
  LET final == IF fields.currency = << >> THEN currency ELSE fields.currency[1] IN
  /\ fields.total # << >> =>
       \/ fields.total[1] = "285"
       \/ fields.total[1] = "285.5" /\ final # "JPY"
  /\ fields.date \in {<< >>, <<"ayer">>}
  /\ fields.currency \in {<< >>, <<"JPY">>}
  /\ fields.category \in {<< >>, <<"super">>}

Parse(text, currency) ==
  LET bare == Bare(text)
      values == BareWords(bare) \cup BareValues(bare) \cup KeyValues(text)
      fields == [f \in FieldNames |->
                   IF \E v \in values : v.field = f
                   THEN (CHOOSE v \in values : v.field = f).tokens ELSE << >>]
  IN  IF /\ text # << >>
         /\ BareOK(bare)
         /\ \A v \in values : v.tokens # << >> /\ (v.field # "merchant" => Len(v.tokens) = 1)
         /\ \A v, w \in values : v.field = w.field => v = w
         /\ Sound(fields, currency)
      THEN Parsed(fields)
      ELSE Unparseable

IsNumber(t) == t \in DOMAIN Shape /\ Shape[t] = "total"

\* /add: the amount first and no other bare number, then what Parse reads; there
\* must be a merchant.
ParseAdd(text) ==
  IF /\ text # << >> /\ IsNumber(text[1])
     /\ \A i \in DOMAIN Bare(Tail(text)) : ~IsNumber(Tail(text)[i])
  THEN LET answer == Parse(Tail(text) \o <<"total", text[1]>>, "MXN") IN
         IF answer.fields.merchant = << >> THEN Unparseable ELSE answer
  ELSE Unparseable

-----------------------------------------------------------------------------
Words(text) == {i \in DOMAIN text : text[i] \notin Keywords}

\* Every token of a text that is accepted has been used, and once: it is a
\* keyword, or it is in the value of the field that the text gives it to.
Uses(text, fields) ==
  /\ \A i \in Words(text) :
       \E f \in FieldNames : text[i] \in ToSet(fields[f])
  /\ Cardinality(Words(text)) = Cardinality(UNION {{f} \X DOMAIN fields[f] : f \in FieldNames})
  /\ \A i \in DOMAIN text : text[i] \in Keywords =>
       /\ fields[FieldOf[text[i]]] # << >>
       /\ fields[FieldOf[text[i]]][1] = text[i + 1]

ReplyUsesAll(text, currency) ==
  LET answer == Parse(text, currency) IN ~answer.error => Uses(text, answer.fields)

\* What /add accepts is its amount and a reply that names the merchant.
AddIsAReply(text) ==
  LET answer == ParseAdd(text) IN
    ~answer.error => /\ Uses(text, answer.fields)
                     /\ answer.fields.total = <<text[1]>> /\ answer.fields.merchant # << >>
=============================================================================
