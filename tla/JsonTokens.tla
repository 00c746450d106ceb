------------------------------ MODULE JsonTokens ------------------------------
(***************************************************************************)
(* JSON text as a sequence of tokens, for the writer and the parser of     *)
(* lib/src/json: the brackets "begin_array", "end_array", "begin_object"   *)
(* and "end_object", "comma", "colon", "str" for anything in quotes (names *)
(* too), "lit" for any other scalar, "raw" for a value supplied as text.   *)
(***************************************************************************)
EXTENDS Integers, Sequences

CONSTANT MAX_JSON_DEPTH   \* LIB_CARDANO_C_MAX_JSON_DEPTH

ASSUME DepthAssumption == MAX_JSON_DEPTH \in Nat \ {0}

Scalars == {"str", "lit"}
Opening == {"begin_array", "begin_object"}
Closing == {"end_array", "end_object"}
Tokens  == Opening \cup Closing \cup {"comma", "colon", "raw"} \cup Scalars

Kinds == {"ARRAY", "OBJECT"}

OpenOf(kind)  == IF kind = "ARRAY" THEN "begin_array" ELSE "begin_object"
CloseOf(kind) == IF kind = "ARRAY" THEN "end_array" ELSE "end_object"

-----------------------------------------------------------------------------
(* JSON by the rules of JSON alone, the reference of writer and parser.    *)
(* After[text] are the containers a text leaves open, the innermost last,  *)
(* and what it wants next: a value, the first item of a container (or its  *)
(* end), a name, a colon, or what may come behind a value.  A text that no *)
(* JSON text begins with wants "none".                                     *)

Wants == {"value", "first", "name", "colon", "next", "none"}

Front(s) == SubSeq(s, 1, Len(s) - 1)
Last(s)  == s[Len(s)]

Within(s, kind) == s.open # <<>> /\ Last(s.open) = kind

TakesValue(s) == s.wants = "value" \/ (s.wants = "first" /\ Within(s, "ARRAY"))
TakesName(s)  == s.wants = "name" \/ (s.wants = "first" /\ Within(s, "OBJECT"))
TakesEnd(s, kind) == s.wants \in {"first", "next"} /\ Within(s, kind)
TakesComma(s) == s.wants = "next" /\ s.open # <<>>

Behind(open, wants) == [open |-> open, wants |-> wants]

Read(s, token) ==
    IF token \in Opening /\ TakesValue(s)
    THEN Behind(Append(s.open, IF token = "begin_array" THEN "ARRAY" ELSE "OBJECT"), "first")
    ELSE IF \E kind \in Kinds : token = CloseOf(kind) /\ TakesEnd(s, kind)
    THEN Behind(Front(s.open), "next")
    ELSE IF token = "str" /\ TakesName(s) THEN Behind(s.open, "colon")
    ELSE IF token \in {"str", "lit", "raw"} /\ TakesValue(s) THEN Behind(s.open, "next")
    ELSE IF token = "colon" /\ s.wants = "colon" THEN Behind(s.open, "value")
    ELSE IF token = "comma" /\ TakesComma(s)
    THEN Behind(s.open, IF Within(s, "ARRAY") THEN "value" ELSE "name")
    ELSE Behind(s.open, "none")

After[text \in Seq(Tokens)] ==
    IF text = <<>> THEN Behind(<<>>, "value") ELSE Read(After[Front(text)], Last(text))

\* A complete JSON text.
IsJson(text) == text \in Seq(Tokens) /\ After[text] = Behind(<<>>, "next")

\* The containers of a text are nested less deep than the limit, below that many
\* others.
Fits(text, others) ==
    \A i \in 0..Len(text) : others + Len(After[SubSeq(text, 1, i)].open) < MAX_JSON_DEPTH
=============================================================================
