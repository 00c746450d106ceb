------------------------------- MODULE UplcValues -------------------------------
(***************************************************************************)
(* The builtins on multi-asset values of lib/src/uplc/builtins/builtins.c, *)
(* on arguments whose types have been checked.  A value is a sequence of   *)
(* <<policy, tokens>> and tokens a sequence of <<name, amount>>, both      *)
(* meant to be sorted by their first component, without zero amounts and   *)
(* without empty policies.  Data is tagged: <<"map", entries>>, <<"B", s>> *)
(* and <<"I", n>> are the kinds the builtins tell apart.                   *)
(***************************************************************************)
EXTENDS UplcBytes

CONSTANTS
    VALUE_KEY_MAX,   \* PRV_VALUE_KEY_MAX
    AMOUNT_LIMIT     \* amounts lie in -AMOUNT_LIMIT..AMOUNT_LIMIT - 1; 2^127 in the code

ASSUME ValueAssumption == VALUE_KEY_MAX \in Nat /\ AMOUNT_LIMIT \in Nat \ {0}

ValueOf(v) == <<"value", v>>
DataOf(d) == <<"data", d>>

amount_in_range(n) == n >= -AMOUNT_LIMIT /\ n < AMOUNT_LIMIT

\* What the loops of body_insert_coin do to a sorted sequence: an entry with the
\* key becomes what replaced says, else fresh goes before the first greater one.
Place(s, key, replaced(_), fresh) ==
    LET placed[n \in 0..Len(s)] ==
            IF n = 0 THEN [out |-> <<>>, found |-> FALSE]
            ELSE LET before == placed[n - 1]
                     cmp == byte_view_compare(s[n][1], key)
                 IN  CASE cmp < 0 -> [before EXCEPT !.out = Append(@, s[n])]
                       [] cmp = 0 -> [out |-> before.out \o replaced(s[n]), found |-> TRUE]
                       [] cmp > 0 -> [out |-> before.out \o (IF before.found THEN <<>> ELSE fresh)
                                                \o <<s[n]>>,
                                      found |-> TRUE]
        all == placed[Len(s)]
    IN  IF all.found THEN all.out ELSE all.out \o fresh

\* Mutant: a policy that lost its last token stays.
body_insert_coin_keeps_empty(ccy, tok, amount, v) ==
    LET item == IF amount = 0 THEN <<>> ELSE <<<<tok, amount>>>>
        token(t) == item
        policy(e) == <<<<e[1], Place(e[2], tok, token, item)>>>>
        fresh == IF amount = 0 THEN <<>> ELSE <<<<ccy, item>>>>
    IN  IF Len(ccy) > VALUE_KEY_MAX \/ Len(tok) > VALUE_KEY_MAX
        THEN IF amount # 0 THEN Error ELSE ValueOf(v)
        ELSE IF amount # 0 /\ ~amount_in_range(amount) THEN Error
        ELSE ValueOf(Place(v, ccy, policy, fresh))

body_insert_coin(ccy, tok, amount, v) ==
    LET item == IF amount = 0 THEN <<>> ELSE <<<<tok, amount>>>>
        token(t) == item
        policy(e) == LET tokens == Place(e[2], tok, token, item)
                     IN  IF tokens = <<>> THEN <<>> ELSE <<<<e[1], tokens>>>>
        fresh == IF amount = 0 THEN <<>> ELSE <<<<ccy, item>>>>
    IN  IF Len(ccy) > VALUE_KEY_MAX \/ Len(tok) > VALUE_KEY_MAX
        THEN IF amount # 0 THEN Error ELSE ValueOf(v)
        ELSE IF amount # 0 /\ ~amount_in_range(amount) THEN Error
        ELSE ValueOf(Place(v, ccy, policy, fresh))

\* The entries one by one: policy, name, amount.
Entries(v) == UNION {{<<v[i][1], v[i][2][j][1], v[i][2][j][2]>> : j \in 1..Len(v[i][2])} :
                        i \in 1..Len(v)}

\* The amount under two keys, as a set of one or none.
value_lookup(v, ccy, tok) == {e[3] : e \in {e \in Entries(v) : e[1] = ccy /\ e[2] = tok}}

body_lookup_coin(ccy, tok, v) ==
    LET found == value_lookup(v, ccy, tok)
    IN  IntOf(IF found = {} THEN 0 ELSE CHOOSE n \in found : TRUE)

\* The value, or an error when an amount is out of range.
InRangeOr(v) == IF \A e \in Entries(v) : amount_in_range(e[3]) THEN ValueOf(v) ELSE Error

body_scale_value(scalar, v) ==
    CASE scalar = 0 -> ValueOf(<<>>)
      [] scalar # 0 /\ ~amount_in_range(scalar) -> Error
      [] OTHER -> InRangeOr([i \in 1..Len(v) |->
                    <<v[i][1], [j \in 1..Len(v[i][2]) |->
                                    <<v[i][2][j][1], v[i][2][j][2] * scalar>>]>>])

\* Two sorted sequences walked in step; entries with the same key become what
\* both says.
Merge(a, b, both(_, _)) ==
    LET from[i \in 1..Len(a) + 1, j \in 1..Len(b) + 1] ==
            IF i > Len(a) THEN SubSeq(b, j, Len(b))
            ELSE IF j > Len(b) THEN SubSeq(a, i, Len(a))
            ELSE LET cmp == byte_view_compare(a[i][1], b[j][1])
                 IN  CASE cmp < 0 -> <<a[i]>> \o from[i + 1, j]
                       [] cmp > 0 -> <<b[j]>> \o from[i, j + 1]
                       [] cmp = 0 -> both(a[i], b[j]) \o from[i + 1, j + 1]
    IN  from[1, 1]

merge_tokens(t1, t2) ==
    LET both(x, y) == IF x[2] + y[2] = 0 THEN <<>> ELSE <<<<x[1], x[2] + y[2]>>>>
    IN  Merge(t1, t2, both)

body_union_value(a, b) ==
    LET both(x, y) == LET tokens == merge_tokens(x[2], y[2])
                      IN  IF tokens = <<>> THEN <<>> ELSE <<<<x[1], tokens>>>>
    IN  InRangeOr(Merge(a, b, both))

value_has_negative(v) == \E e \in Entries(v) : e[3] < 0

body_value_contains(covering, required) ==
    IF value_has_negative(required) \/ value_has_negative(covering) THEN Error
    ELSE BoolOf(\A e \in Entries(required) :
                    \E n \in value_lookup(covering, e[1], e[2]) : n >= e[3])

body_value_data(v) ==
    DataOf(<<"map", [i \in 1..Len(v) |->
        <<<<"B", v[i][1]>>,
          <<"map", [j \in 1..Len(v[i][2]) |->
                        <<<<"B", v[i][2][j][1]>>, <<"I", v[i][2][j][2]>>>>]>>>>]>>)

\* The keys of a map of data are byte strings of legal length in strict order.
KeysInOrder(entries) ==
    /\ \A i \in 1..Len(entries) : entries[i][1][1] = "B" /\ Len(entries[i][1][2]) <= VALUE_KEY_MAX
    /\ \A i \in 1..Len(entries) - 1 :
          byte_view_compare(entries[i][1][2], entries[i + 1][1][2]) < 0

decode_token(t) == t[2][1] = "I" /\ t[2][2] # 0 /\ amount_in_range(t[2][2])

body_un_value_data(d) ==
    LET wellFormed == d[1] = "map" /\ KeysInOrder(d[2]) /\ \A i \in 1..Len(d[2]) :
                        LET inner == d[2][i][2]
                        IN  /\ inner[1] = "map" /\ Len(inner[2]) > 0 /\ KeysInOrder(inner[2])
                            /\ \A j \in 1..Len(inner[2]) : decode_token(inner[2][j])
    IN  IF ~wellFormed THEN Error
        ELSE ValueOf([i \in 1..Len(d[2]) |->
                <<d[2][i][1][2], [j \in 1..Len(d[2][i][2][2]) |->
                    <<d[2][i][2][2][j][1][2], d[2][i][2][2][j][2][2]>>]>>])

\* What every value should be: sorted strictly by policy and by name, without
\* zero amounts, amounts out of range, empty policies and keys that are too long.
Canonical(v) ==
    LET Sorted(s) == \A i \in 1..Len(s) - 1 : byte_view_compare(s[i][1], s[i + 1][1]) < 0
    IN  /\ Sorted(v)
        /\ \A i \in 1..Len(v) : v[i][2] # <<>> /\ Sorted(v[i][2])
        /\ \A e \in Entries(v) : /\ e[3] # 0 /\ amount_in_range(e[3])
                                 /\ Len(e[1]) <= VALUE_KEY_MAX /\ Len(e[2]) <= VALUE_KEY_MAX
=============================================================================
