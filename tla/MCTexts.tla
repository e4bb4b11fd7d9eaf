------------------------------- MODULE MCTexts -------------------------------
(* Amounts of up to four digits around the largest integer of 8 bits (it ends *)
(* in 7, like that of 64), every day of four months of a leap year and of the *)
(* next, texts of up to four tokens, lists of up to five hits of seven.       *)
EXTENDS Texts

SeqsUpTo(S, n) == UNION {[1..k -> S] : k \in 0..n}

NearDigits == {0, 1, 2, 7, 8}
Whole == {text \in [minus : BOOLEAN, groups : {<<g>> : g \in SeqsUpTo(NearDigits, 3)},
                    frac : SeqsUpTo(NearDigits, 3), junk : {FALSE}] :
            Len(text.groups[1]) + Len(text.frac) <= 4}
Grouped == [minus : BOOLEAN,
            groups : {<<g, h>> : g \in SeqsUpTo({0, 1}, 4), h \in {<<1, 2, 7>>, <<1, 2, 8>>, <<5, 0>>, <<7>>}},
            frac : {<< >>, <<0>>}, junk : {FALSE}]
Junk == [minus : BOOLEAN, groups : {<<<<1>>>>}, frac : {<< >>}, junk : {TRUE}]
MCAmountTexts == Whole \cup Grouped \cup Junk
MCMinors == -127..127

MCTodays == {t \in [y : {2024, 2025}, m : {1, 2, 3, 12}, d : 1..31] : IsDate(t.y, t.m, t.d)}
MCDayTokens == ({1, 2, 3, 12} \X (1..32)) \cup {<<13, 1>>, <<4, 31>>}

MCReplyTexts == SeqsUpTo(Kinds, 3) \cup {<<"285">> \o s : s \in SeqsUpTo(Kinds, 3)}
                  \cup {<<"Oxxo", "Oxxo", "Oxxo", "Oxxo">> \o s : s \in SeqsUpTo(Kinds, 1)}

\* The hits of the first list have the first names: they are interchangeable.
MCTrgmLists == {[i \in 1..n |-> i] : n \in 0..Limit}
Injective(f) == \A i, j \in DOMAIN f : f[i] = f[j] => i = j
MCVecLists == {f \in SeqsUpTo(1..6, Limit) : Injective(f)}
=============================================================================
