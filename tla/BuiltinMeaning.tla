----------------------------- MODULE BuiltinMeaning -----------------------------
(***************************************************************************)
(* What the builtins mean: the reference the operators of UplcBuiltins are *)
(* compared with.  Nothing here follows the code.  Byte strings are        *)
(* numbers or sets of positions, division is the equation it solves, and a *)
(* value is the set of what it holds.                                      *)
(***************************************************************************)
EXTENDS UplcBuiltins

-----------------------------------------------------------------------------
(* Views of a byte string.                                                 *)

\* The number written in the bytes, the first byte most significant.
Num(s) == LET n[i \in 0..Len(s)] == IF i = 0 THEN 0 ELSE n[i - 1] * BYTE_MODULUS + s[i]
          IN  n[Len(s)]
Size(s) == Len(s) * BYTE_BITS

\* The positions of its ones; position 0 is worth 1.
Ones(s) == {i \in 0..Size(s) - 1 : (Num(s) \div 2^i) % 2 = 1}

Strings(len) == [1..len -> 0..BYTE_MAX]
WithNumber(len, n) == BytesOf(CHOOSE s \in Strings(len) : Num(s) = n)
WithOnes(len, set) == BytesOf(CHOOSE s \in Strings(len) : Ones(s) = set)

\* A number that orders byte strings the way a dictionary does.
Rank(s, len) ==
    LET digit(i) == IF i <= Len(s) THEN s[i] + 1 ELSE 0
        n[i \in 0..len] == IF i = 0 THEN 0 ELSE n[i - 1] * (BYTE_MODULUS + 1) + digit(i)
    IN  n[len]

\* The shorter of two strings filled up with a byte, or the longer cut.
Fitted(s, len, fill) == [i \in 1..len |-> IF i <= Len(s) THEN s[i] ELSE fill]

-----------------------------------------------------------------------------
(* Integers and byte strings.                                              *)

\* The quotient that leaves a remainder with the sign of the divisor, or with
\* that of the dividend.
Quotient(a, b, floored) ==
    CHOOSE q \in -Abs(a)..Abs(a) :
        LET r == a - q * b
        IN  Abs(r) < Abs(b) /\ Sign(r) \in {0, IF floored THEN Sign(b) ELSE Sign(a)}

\* base^exponent modulo modulus, with an inverse where the exponent is negative.
ExpMod(base, exponent, modulus) ==
    LET solves(x) == IF exponent = 0 THEN (1 - x) % modulus = 0
                     ELSE IF exponent > 0 THEN (base^exponent - x) % modulus = 0
                     ELSE (x * base^(-exponent) - 1) % modulus = 0
        solutions == {x \in 0..modulus - 1 : solves(x)}
    IN  IF modulus <= 0 \/ solutions = {} THEN Error
        ELSE IntOf(CHOOSE x \in solutions : TRUE)

IntMeaning(func, x, y) ==
    LET q(floored) == Quotient(x, y, floored)
    IN  CASE func = "addInteger" -> IntOf(x + y)
          [] func = "subtractInteger" -> IntOf(x - y)
          [] func = "multiplyInteger" -> IntOf(x * y)
          [] func = "equalsInteger" -> BoolOf(x = y)
          [] func = "lessThanInteger" -> BoolOf(x < y)
          [] func = "lessThanEqualsInteger" -> BoolOf(x <= y)
          [] OTHER -> IF y = 0 THEN Error
                      ELSE CASE func = "divideInteger" -> IntOf(q(TRUE))
                             [] func = "quotientInteger" -> IntOf(q(FALSE))
                             [] func = "modInteger" -> IntOf(x - y * q(TRUE))
                             [] func = "remainderInteger" -> IntOf(x - y * q(FALSE))

Order(func, a, b) ==
    LET len == Most(Len(a), Len(b))
    IN  BoolOf(CASE func = "equalsByteString" -> Rank(a, len) = Rank(b, len)
                 [] func = "lessThanByteString" -> Rank(a, len) < Rank(b, len)
                 [] func = "lessThanEqualsByteString" -> Rank(a, len) <= Rank(b, len))

\* Padding is with the bits that change nothing.
Logical(func, pad, a, b) ==
    LET len == IF pad THEN Most(Len(a), Len(b)) ELSE Least(Len(a), Len(b))
        fill == IF func = "andByteString" THEN BYTE_MAX ELSE 0
        x == Ones(Fitted(a, len, fill))
        y == Ones(Fitted(b, len, fill))
    IN  WithOnes(len, CASE func = "andByteString" -> x \cap y
                        [] func = "orByteString" -> x \cup y
                        [] func = "xorByteString" -> (x \ y) \cup (y \ x))

Slice(start, len, s) ==
    LET from == Most(start, 0)
        kept == {p \in 1..Len(s) : from < p /\ p <= from + len}
    IN  BytesOf([i \in 1..Cardinality(kept) |-> s[from + i]])

WrittenBits(s, indices, set) ==
    LET positions == {indices[i] : i \in 1..Len(indices)}
    IN  IF ~(positions \subseteq 0..Size(s) - 1) THEN Error
        ELSE WithOnes(Len(s), IF set THEN Ones(s) \cup positions ELSE Ones(s) \ positions)

Shifted(s, by) ==
    WithOnes(Len(s), {i + by : i \in Ones(s)} \cap 0..Size(s) - 1)

Rotated(s, by) ==
    WithOnes(Len(s), {(i + by) % Size(s) : i \in Ones(s)})

\* The shortest string of the number, or the one of the width asked for.
AsBytes(big, width, n) ==
    LET lens == {len \in 0..INT_TO_BS_MAX : n < BYTE_MODULUS^len}
        shortest == CHOOSE len \in lens : \A k \in lens : len <= k
        len == IF width = 0 THEN shortest ELSE width
        s == WithNumber(len, n)[2]
    IN  IF n < 0 \/ width \notin 0..INT_TO_BS_MAX \/ lens = {} \/ (width # 0 /\ width \notin lens)
        THEN Error
        ELSE BytesOf(IF big THEN s ELSE Reversed(s))

ByteMeaning(func, c) ==
    LET x == c[1][2]
        y == c[2][2]
        z == c[3][2]
    IN  CASE func = "appendByteString" -> WithNumber(Len(x) + Len(y), Num(x) * 2^Size(y) + Num(y))
          [] func \in {"consByteString", "consByteStringChecked"} ->
                IF func = "consByteStringChecked" /\ x \notin 0..BYTE_MAX THEN Error
                ELSE WithNumber(Len(y) + 1, (x % BYTE_MODULUS) * 2^Size(y) + Num(y))
          [] func = "sliceByteString" -> Slice(x, y, z)
          [] func = "lengthOfByteString" -> IntOf(Cardinality(DOMAIN x))
          [] func = "indexByteString" ->
                IF y + 1 \in DOMAIN x THEN IntOf(x[y + 1]) ELSE Error
          [] func \in {"equalsByteString", "lessThanByteString", "lessThanEqualsByteString"} ->
                Order(func, x, y)
          [] func \in {"andByteString", "orByteString", "xorByteString"} -> Logical(func, x, y, z)
          [] func = "complementByteString" -> WithNumber(Len(x), 2^Size(x) - 1 - Num(x))
          [] func = "readBit" ->
                IF y \in 0..Size(x) - 1 THEN BoolOf(y \in Ones(x)) ELSE Error
          [] func = "writeBits" ->
                IF AllInts(y) THEN WrittenBits(x, Ints(y), z) ELSE Error
          [] func = "replicateByte" ->
                IF x \in 0..INT_TO_BS_MAX /\ y \in 0..BYTE_MAX THEN BytesOf([i \in 1..x |-> y])
                ELSE Error
          [] func = "shiftByteString" -> Shifted(x, y)
          [] func = "rotateByteString" -> IF x = <<>> THEN BytesOf(x) ELSE Rotated(x, y)
          [] func = "countSetBits" -> IntOf(Cardinality(Ones(x)))
          [] func = "findFirstSetBit" ->
                IntOf(IF Ones(x) = {} THEN -1 ELSE CHOOSE i \in Ones(x) : \A j \in Ones(x) : i <= j)
          [] func = "integerToByteString" -> AsBytes(x, y, z)
          [] func = "byteStringToInteger" -> IntOf(Num(IF x THEN y ELSE Reversed(y)))

-----------------------------------------------------------------------------
(* Values: the set of what is held, <<policy, name, amount>>.              *)

Holding(set) == <<"holding", set>>
Keys(set) == {<<e[1], e[2]>> : e \in set}
AmountOf(set, key) ==
    IF key \in Keys(set) THEN (CHOOSE e \in set : <<e[1], e[2]>> = key)[3] ELSE 0

\* The holding in which every key has the amount given, unless one is too large.
Holdings(keys, amount(_)) ==
    IF \E k \in keys : ~amount_in_range(amount(k)) THEN Error
    ELSE Holding({<<k[1], k[2], amount(k)>> : k \in {k \in keys : amount(k) # 0}})

Inserted(ccy, tok, amount, set) ==
    LET tooLong == Len(ccy) > VALUE_KEY_MAX \/ Len(tok) > VALUE_KEY_MAX
        new(k) == IF k = <<ccy, tok>> THEN amount ELSE AmountOf(set, k)
    IN  IF tooLong THEN IF amount = 0 THEN Holding(set) ELSE Error
        ELSE Holdings(Keys(set) \cup {<<ccy, tok>>}, new)

Union(a, b) ==
    LET sum(k) == AmountOf(a, k) + AmountOf(b, k)
    IN  Holdings(Keys(a) \cup Keys(b), sum)

Scaled(scalar, set) ==
    LET product(k) == AmountOf(set, k) * scalar
    IN  IF scalar # 0 /\ ~amount_in_range(scalar) THEN Error ELSE Holdings(Keys(set), product)

Contains(a, b) ==
    IF \E e \in a \cup b : e[3] < 0 THEN Error
    ELSE BoolOf(\A k \in Keys(b) : AmountOf(a, k) >= AmountOf(b, k))

\* A value, seen as what it holds.
View(c) == IF c # Error /\ c[1] = "value" THEN Holding(Entries(c[2])) ELSE c

ValueMeaning(func, c) ==
    LET x == c[1][2]
        y == c[2][2]
        z == c[3][2]
    IN  CASE func = "insertCoin" -> Inserted(x, y, z, Entries(c[4][2]))
          [] func = "lookupCoin" -> IntOf(AmountOf(Entries(z), <<x, y>>))
          [] func = "unionValue" -> Union(Entries(x), Entries(y))
          [] func = "valueContains" -> Contains(Entries(x), Entries(y))
          [] func = "scaleValue" -> Scaled(x, Entries(y))

-----------------------------------------------------------------------------

ByteBuiltins == {"appendByteString", "consByteString", "consByteStringChecked",
    "sliceByteString", "lengthOfByteString", "indexByteString", "equalsByteString",
    "lessThanByteString", "lessThanEqualsByteString",
    "andByteString", "orByteString", "xorByteString", "complementByteString", "readBit",
    "writeBits", "replicateByte", "shiftByteString", "rotateByteString", "countSetBits",
    "findFirstSetBit", "integerToByteString", "byteStringToInteger"}
IntBuiltins == {"addInteger", "subtractInteger", "multiplyInteger", "divideInteger",
    "quotientInteger", "remainderInteger", "modInteger", "equalsInteger", "lessThanInteger",
    "lessThanEqualsInteger"}
ValueBuiltins == {"insertCoin", "lookupCoin", "unionValue", "valueContains", "scaleValue"}

\* Whether what a builtin answers to these constants is what it should.
Agrees(func, c) ==
    LET answer == Computed(func, c)
    IN  CASE func \in IntBuiltins -> answer = IntMeaning(func, c[1][2], c[2][2])
          [] func = "expModInteger" -> answer = ExpMod(c[1][2], c[2][2], c[3][2])
          [] func \in ByteBuiltins -> answer = ByteMeaning(func, c)
          [] func \in ValueBuiltins -> View(answer) = ValueMeaning(func, c)
          [] func = "valueData" -> body_un_value_data(answer[2]) = c[1]
          [] func = "unValueData" -> answer # Error => body_value_data(answer[2]) = c[1]
          [] OTHER -> TRUE
=============================================================================
