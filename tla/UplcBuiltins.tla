------------------------------ MODULE UplcBuiltins ------------------------------
(***************************************************************************)
(* The dispatch of the builtins (cardano_uplc_int_builtin_run of           *)
(* lib/src/uplc/builtins/builtins.c, the tables of uplc_builtin.c) and the *)
(* builtins that take a value apart or choose between values.  A value of  *)
(* the machine is a tuple that begins with its kind, a constant            *)
(* <<"con", c>>.  A list carries the type of its elements as its third     *)
(* component; a type is a tuple that begins with its kind.                 *)
(* Left out are cryptography, text, and the builtins that wrap and unwrap  *)
(* data.                                                                   *)
(***************************************************************************)
EXTENDS UplcValues

\* The types of the arguments, "any" where a value is passed on unseen and "con"
\* where any constant will do.  consByteString has two semantics and two names.
Signature == [
    addInteger |-> <<"int", "int">>, subtractInteger |-> <<"int", "int">>,
    multiplyInteger |-> <<"int", "int">>, divideInteger |-> <<"int", "int">>,
    quotientInteger |-> <<"int", "int">>, remainderInteger |-> <<"int", "int">>,
    modInteger |-> <<"int", "int">>, equalsInteger |-> <<"int", "int">>,
    lessThanInteger |-> <<"int", "int">>, lessThanEqualsInteger |-> <<"int", "int">>,
    expModInteger |-> <<"int", "int", "int">>,
    appendByteString |-> <<"bytes", "bytes">>, consByteString |-> <<"int", "bytes">>,
    consByteStringChecked |-> <<"int", "bytes">>,
    sliceByteString |-> <<"int", "int", "bytes">>, lengthOfByteString |-> <<"bytes">>,
    indexByteString |-> <<"bytes", "int">>, equalsByteString |-> <<"bytes", "bytes">>,
    lessThanByteString |-> <<"bytes", "bytes">>, lessThanEqualsByteString |-> <<"bytes", "bytes">>,
    andByteString |-> <<"bool", "bytes", "bytes">>, orByteString |-> <<"bool", "bytes", "bytes">>,
    xorByteString |-> <<"bool", "bytes", "bytes">>, complementByteString |-> <<"bytes">>,
    readBit |-> <<"bytes", "int">>, writeBits |-> <<"bytes", "list", "bool">>,
    replicateByte |-> <<"int", "int">>, shiftByteString |-> <<"bytes", "int">>,
    rotateByteString |-> <<"bytes", "int">>, countSetBits |-> <<"bytes">>,
    findFirstSetBit |-> <<"bytes">>, integerToByteString |-> <<"bool", "int", "int">>,
    byteStringToInteger |-> <<"bool", "bytes">>,
    ifThenElse |-> <<"bool", "any", "any">>, chooseUnit |-> <<"unit", "any">>,
    fstPair |-> <<"pair">>, sndPair |-> <<"pair">>,
    chooseList |-> <<"list", "any", "any">>, mkCons |-> <<"con", "list">>,
    headList |-> <<"list">>, tailList |-> <<"list">>, nullList |-> <<"list">>,
    dropList |-> <<"int", "list">>, listToArray |-> <<"list">>, lengthOfArray |-> <<"array">>,
    indexArray |-> <<"array", "int">>,
    insertCoin |-> <<"bytes", "bytes", "int", "value">>,
    lookupCoin |-> <<"bytes", "bytes", "value">>,
    unionValue |-> <<"value", "value">>, valueContains |-> <<"value", "value">>,
    valueData |-> <<"value">>, unValueData |-> <<"data">>, scaleValue |-> <<"int", "value">>,
    laterBuiltin |-> <<"any">>]

Arity(func) == Len(Signature[func])

Forces(func) ==
    CASE func \in {"fstPair", "sndPair", "chooseList"} -> 2
      [] func \in {"ifThenElse", "chooseUnit", "mkCons", "headList", "tailList", "nullList",
                   "dropList", "listToArray", "lengthOfArray", "indexArray"} -> 1
      [] OTHER -> 0

\* laterBuiltin stands for the builtins that are not available at the version.
Available(func) == func # "laterBuiltin"

HasType(value, type) ==
    \/ type = "any"
    \/ value[1] = "con" /\ type \in {"con", value[2][1]}

RECURSIVE constant_has_type(_, _)
constant_has_type(type, c) ==
    /\ type[1] = c[1]
    /\ c[1] \in {"list", "array"} => type[2] = c[3]
    /\ c[1] = "pair" => constant_has_type(type[2], c[2]) /\ constant_has_type(type[3], c[3])

-----------------------------------------------------------------------------
(* Lists and arrays.                                                       *)

ListOf(items, type) == <<"list", items, type>>

body_mk_cons(head, list) ==
    IF constant_has_type(list[3], head) THEN ListOf(<<head>> \o list[2], list[3]) ELSE Error

body_head_list(list) == IF list[2] = <<>> THEN Error ELSE list[2][1]

body_tail_list(list) == IF list[2] = <<>> THEN Error ELSE ListOf(Tail(list[2]), list[3])

body_drop_list(n, list) ==
    LET start == IF n <= 0 THEN 0 ELSE IF n >= Len(list[2]) THEN Len(list[2]) ELSE n
    IN  ListOf(SubSeq(list[2], start + 1, Len(list[2])), list[3])

body_index_array(array, i) == IF i < 0 \/ i >= Len(array[2]) THEN Error ELSE array[2][i + 1]

Ints(list) == [i \in 1..Len(list) |-> list[i][2]]
AllInts(list) == \A i \in 1..Len(list) : list[i][1] = "int"

-----------------------------------------------------------------------------
(* The dispatch.                                                           *)

\* The constant a builtin computes from constants.
Computed(func, c) ==
    LET x == c[1][2]
        y == c[2][2]
        z == c[3][2]
    IN  CASE func \in {"addInteger", "subtractInteger", "multiplyInteger"} ->
                body_int_arith(func, x, y)
          [] func \in {"divideInteger", "modInteger", "quotientInteger", "remainderInteger"} ->
                body_int_div(func, x, y)
          [] func \in {"equalsInteger", "lessThanInteger", "lessThanEqualsInteger"} ->
                body_int_compare(func, x, y)
          [] func = "expModInteger" -> body_exp_mod_integer(x, y, z)
          [] func = "appendByteString" -> body_append_byte_string(x, y)
          [] func \in {"consByteString", "consByteStringChecked"} ->
                body_cons_byte_string(func = "consByteStringChecked", x, y)
          [] func = "sliceByteString" -> body_slice_byte_string(x, y, z)
          [] func = "lengthOfByteString" -> body_length_of_byte_string(x)
          [] func = "indexByteString" -> body_index_byte_string(x, y)
          [] func \in {"equalsByteString", "lessThanByteString", "lessThanEqualsByteString"} ->
                body_byte_string_compare(func, x, y)
          [] func \in {"andByteString", "orByteString", "xorByteString"} ->
                body_logical_byte_string(func, x, y, z)
          [] func = "complementByteString" -> body_complement_byte_string(x)
          [] func = "readBit" -> body_read_bit(x, y)
          [] func = "writeBits" -> IF AllInts(y) THEN body_write_bits(x, Ints(y), z) ELSE Error
          [] func = "replicateByte" -> body_replicate_byte(x, y)
          [] func = "shiftByteString" -> body_shift_byte_string(x, y)
          [] func = "rotateByteString" -> body_rotate_byte_string(x, y)
          [] func = "countSetBits" -> body_count_set_bits(x)
          [] func = "findFirstSetBit" -> body_find_first_set_bit(x)
          [] func = "integerToByteString" -> body_integer_to_byte_string(x, y, z)
          [] func = "byteStringToInteger" -> body_byte_string_to_integer(x, y)
          [] func = "fstPair" -> c[1][2]
          [] func = "sndPair" -> c[1][3]
          [] func = "mkCons" -> body_mk_cons(c[1], c[2])
          [] func = "headList" -> body_head_list(c[1])
          [] func = "tailList" -> body_tail_list(c[1])
          [] func = "nullList" -> BoolOf(x = <<>>)
          [] func = "dropList" -> body_drop_list(x, c[2])
          [] func = "listToArray" -> <<"array", x, c[1][3]>>
          [] func = "lengthOfArray" -> IntOf(Len(x))
          [] func = "indexArray" -> body_index_array(c[1], y)
          [] func = "insertCoin" -> body_insert_coin(x, y, z, c[4][2])
          [] func = "lookupCoin" -> body_lookup_coin(x, y, z)
          [] func = "unionValue" -> body_union_value(x, y)
          [] func = "valueContains" -> body_value_contains(x, y)
          [] func = "valueData" -> body_value_data(x)
          [] func = "unValueData" -> body_un_value_data(x)
          [] func = "scaleValue" -> body_scale_value(x, y)

\* The value of a builtin applied to all its arguments, <<>> for a script error.
builtin_run(func, args) ==
    IF \E i \in 1..Len(args) : ~HasType(args[i], Signature[func][i]) THEN Error
    ELSE CASE func = "ifThenElse" -> IF args[1][2][2] THEN args[2] ELSE args[3]
           [] func = "chooseUnit" -> args[2]
           [] func = "chooseList" -> IF args[1][2][2] = <<>> THEN args[2] ELSE args[3]
           [] OTHER -> LET c == Computed(func, [i \in 1..Len(args) |-> args[i][2]])
                       IN  IF c = Error THEN Error ELSE <<"con", c>>

-----------------------------------------------------------------------------
(* Failed allocations that a builtin does not report.                      *)

\* Whether integers are computed on as big ones: int64_t does not do for them.
NeedsBig(func, c) ==
    LET x == c[1][2]
        y == c[2][2]
        small == IsSmall(x) /\ IsSmall(y)
    IN  CASE func \in {"addInteger", "subtractInteger", "multiplyInteger"} ->
                ~(small /\ IsSmall(Sum(func, x, y)))
          [] func \in {"divideInteger", "modInteger", "quotientInteger", "remainderInteger"} ->
                ~small \/ (x = INT_MIN /\ y = -1)
          [] func \in {"equalsInteger", "lessThanInteger", "lessThanEqualsInteger"} -> ~small
          [] OTHER -> TRUE

\* Whether a big integer has to be made of an inline one, or a value of data: where
\* that fails the builtin answers with a script error.
Materializes(func, c) ==
    /\ NeedsBig(func, c) /\ func # "writeBits"
    /\ \E i \in 1..Len(c) :
         \/ c[i][1] = "int" /\ IsSmall(c[i][2])
         \/ c[i][1] = "value" /\ \E e \in Entries(c[i][2]) :
                                    IsSmall(e[3]) /\ (func = "lookupCoin" => e[1] = c[1][2])
         \/ c[i][1] = "data"

\* What a builtin answers when floor_div_mod cannot allocate the 1 to step down by:
\* quotient and remainder stay rounded towards zero, and where an unsigned number
\* is made of the remainder, its sign is lost.
Unfloored(func, c) ==
    LET x == c[1][2]
        y == c[2][2]
        unadjusted(a, b) == b # 0 /\ floor_div_mod(a, b)[2] # TruncRem(a, b)
    IN  CASE func \in {"divideInteger", "modInteger"} ->
                IF NeedsBig(func, c) /\ unadjusted(x, y)
                THEN {IntOf(IF func = "divideInteger" THEN TruncDiv(x, y) ELSE TruncRem(x, y))}
                ELSE {}
          [] func = "consByteString" ->
                IF unadjusted(x, BYTE_MODULUS)
                THEN {BytesOf(<<Abs(TruncRem(x, BYTE_MODULUS))>> \o y)} ELSE {}
          [] func = "rotateByteString" ->
                LET bits == Len(x) * BYTE_BITS
                IN  IF unadjusted(y, bits)
                    THEN {body_rotate_byte_string(x, Abs(TruncRem(y, bits)))} ELSE {}
          [] OTHER -> {}

\* The answers of a call on constants that hide a failed allocation.
Unreported(func, c) ==
    (IF Materializes(func, c) THEN {Error} ELSE {})
    \cup {<<"con", r>> : r \in Unfloored(func, c)}
=============================================================================
