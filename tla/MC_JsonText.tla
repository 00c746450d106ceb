----------------------------- MODULE MC_JsonText -----------------------------
(* Foreign texts: every sequence of up to InputLength tokens, the string    *)
(* without an end only at its end, and containers nested up to one level    *)
(* deeper than the limit, around a scalar or around nothing.                *)
(* And the reference itself: the texts that After calls JSON are those of   *)
(* the grammar, up to InputLength tokens.                                   *)
EXTENDS JsonText

CONSTANT InputLength

Some == Tokens \ {"raw"}

UpTo(n) == UNION {[1..k -> Some] : k \in 1..n}

Tower(kinds, inside) ==
    LET opening[i \in 0..Len(kinds)] ==
            IF i = 0 THEN <<>>
            ELSE opening[i - 1] \o <<OpenOf(kinds[i])>>
                 \o IF kinds[i] = "OBJECT" /\ (i < Len(kinds) \/ inside # <<>>)
                    THEN <<"str", "colon">> ELSE <<>>
        closing == [i \in 1..Len(kinds) |-> CloseOf(kinds[Len(kinds) + 1 - i])]
    IN  opening[Len(kinds)] \o inside \o closing

MCInputs ==
    UpTo(InputLength)
    \cup {Append(s, "cut") : s \in UpTo(InputLength - 1)}
    \cup {Tower(kinds, inside) : kinds \in UNION {[1..k -> {"ARRAY", "OBJECT"}] :
                                                    k \in 1..MAX_JSON_DEPTH + 1},
                                 inside \in {<<>>, <<"lit">>}}

MCObjects == {<<"lit">>, <<"begin_array", "end_array">>,
              <<"begin_object", "str", "colon", "str", "end_object">>}
-----------------------------------------------------------------------------
(* The texts that are JSON, by their grammar: for each length the values,  *)
(* the lists of elements and the lists of members.                         *)

Join(heads, tails) == {h \o <<"comma">> \o t : h \in heads, t \in tails}

Grammar[n \in 0..6] ==
    LET value == IF n = 1 THEN {<<"str">>, <<"lit">>, <<"raw">>}
                 ELSE IF n = 0 THEN {}
                 ELSE {<<"begin_array">> \o b \o <<"end_array">> : b \in Grammar[n - 2].elements}
                      \cup {<<"begin_object">> \o b \o <<"end_object">> :
                                b \in Grammar[n - 2].members}
        member == IF n < 3 THEN {} ELSE {<<"str", "colon">> \o v : v \in Grammar[n - 2].value}
        joined(one, some) == UNION {Join(one[k], some[n - 1 - k]) : k \in 1..n - 2}
        empty == IF n = 0 THEN {<<>>} ELSE {}
    IN  [value |-> value, member |-> member,
         elements |-> empty \cup value \cup
             joined([k \in 1..n - 2 |-> Grammar[k].value],
                    [k \in 1..n - 2 |-> Grammar[k].elements]),
         members |-> empty \cup member \cup
             joined([k \in 1..n - 2 |-> Grammar[k].member],
                    [k \in 1..n - 2 |-> Grammar[k].members])]

Json(n) == UNION {Grammar[k].value : k \in 1..n}

ASSUME AfterIsGrammar == \A text \in UNION {[1..k -> Tokens] : k \in 0..InputLength} :
                            IsJson(text) <=> text \in Json(6)
=============================================================================
