------------------------------- MODULE UplcBytes -------------------------------
(***************************************************************************)
(* The builtins on integers and byte strings of                            *)
(* lib/src/uplc/builtins/builtins.c, on arguments whose types have been    *)
(* checked.  A byte has BYTE_BITS bits, a byte string is a sequence whose  *)
(* first byte is the most significant one.  Integers are unbounded; one    *)
(* that fits INT_MIN..INT_MAX (an int64_t in the code) is held small and   *)
(* takes a path of its own.  An operator returns a constant, or Error for  *)
(* a script error.  Behind the operators of the code stand those that say  *)
(* what each builtin means, by number theory or bit by bit.                *)
(***************************************************************************)
EXTENDS Integers, Sequences, FiniteSets

CONSTANTS
    BYTE_BITS,              \* 8 in the code
    INT_MAX,                \* the largest int64_t
    INT_TO_BS_MAX           \* CARDANO_UPLC_BUILTIN_INT_TO_BS_MAX

ASSUME ByteAssumption ==
    BYTE_BITS \in Nat \ {0} /\ INT_TO_BS_MAX \in Nat /\ INT_MAX \in Nat

INT_MIN == -INT_MAX - 1

Error == <<>>
IntOf(n) == <<"int", n>>
BytesOf(s) == <<"bytes", s>>
BoolOf(b) == <<"bool", b>>

BYTE_MODULUS == 2^BYTE_BITS
BYTE_MAX == BYTE_MODULUS - 1

Sign(n) == IF n < 0 THEN -1 ELSE IF n = 0 THEN 0 ELSE 1
Abs(n) == IF n < 0 THEN -n ELSE n
Least(a, b) == IF a < b THEN a ELSE b
Most(a, b) == IF a > b THEN a ELSE b

-----------------------------------------------------------------------------
(* Integers.                                                               *)

\* The division of C and of cardano_bigint_divide_and_reminder: towards zero.
TruncDiv(a, b) == Sign(a) * Sign(b) * (Abs(a) \div Abs(b))
TruncRem(a, b) == a - b * TruncDiv(a, b)

floor_div_mod(a, b) ==
    LET r == TruncRem(a, b)
    IN  IF r # 0 /\ Sign(r) # Sign(b) THEN <<TruncDiv(a, b) - 1, r + b>>
        ELSE <<TruncDiv(a, b), r>>

IsSmall(n) == n \in INT_MIN..INT_MAX

Sum(func, a, b) == CASE func = "addInteger" -> a + b
                     [] func = "subtractInteger" -> a - b
                     [] func = "multiplyInteger" -> a * b

\* An int64_t that overflowed, or the exact result.
Wrapped(n) == INT_MIN + ((n - INT_MIN) % (INT_MAX - INT_MIN + 1))

body_int_arith(func, a, b) ==
    LET exact == Sum(func, a, b)
        overflow == ~IsSmall(exact)
    IN  IF IsSmall(a) /\ IsSmall(b) /\ ~overflow THEN IntOf(Wrapped(exact)) ELSE IntOf(exact)

body_int_div(func, a, b) ==
    LET floored == func \in {"divideInteger", "modInteger"}
        qr == IF floored THEN floor_div_mod(a, b) ELSE <<TruncDiv(a, b), TruncRem(a, b)>>
        wanted == IF func \in {"divideInteger", "quotientInteger"} THEN 1 ELSE 2
    IN  IF b = 0 THEN Error
        ELSE IF IsSmall(a) /\ IsSmall(b) /\ ~(a = INT_MIN /\ b = -1)
             THEN IntOf(Wrapped(qr[wanted])) ELSE IntOf(qr[wanted])

Compared(func, cmp) == BoolOf(CASE func \in {"equalsInteger", "equalsByteString"} -> cmp = 0
                                [] func \in {"lessThanInteger", "lessThanByteString"} -> cmp < 0
                                [] OTHER -> cmp <= 0)

body_int_compare(func, a, b) == Compared(func, Sign(a - b))

\* cardano_bigint_mod_pow, cardano_bigint_mod_inverse and cardano_bigint_gcd, by what
\* the functions of mini-gmp behind them compute.
ModPow(base, exponent, modulus) ==
    LET power[i \in 0..exponent] == IF i = 0 THEN 1 % modulus
                                    ELSE (power[i - 1] * (base % modulus)) % modulus
    IN  power[exponent]
Inverses(n, modulus) == {x \in 0..modulus - 1 : (x * n) % modulus = 1}
Gcd(a, b) == CHOOSE d \in 1..b :
                /\ a % d = 0 /\ b % d = 0
                /\ \A e \in d + 1..b : ~(a % e = 0 /\ b % e = 0)

body_exp_mod_integer(base, exponent, modulus) ==
    LET reduced == floor_div_mod(base, modulus)[2]
    IN  CASE modulus <= 0 -> Error
          [] modulus = 1 -> IntOf(0)
          [] modulus > 1 /\ exponent = 0 -> IntOf(1)
          [] modulus > 1 /\ exponent > 0 -> IntOf(ModPow(base, exponent, modulus))
          [] modulus > 1 /\ exponent < 0 ->
                IF base = 0 \/ Gcd(reduced, modulus) # 1 THEN Error
                ELSE LET inverse == CHOOSE x \in Inverses(reduced, modulus) : TRUE
                     IN  IntOf(ModPow(inverse, Abs(exponent), modulus))

-----------------------------------------------------------------------------
(* Byte strings as sequences of bytes.                                     *)

body_append_byte_string(a, b) == BytesOf(a \o b)

\* Whether the head is checked or wrapped depends on the semantics of the version.
body_cons_byte_string(range_checks, head, tail) ==
    IF range_checks /\ head \notin 0..BYTE_MAX THEN Error
    ELSE BytesOf(<<IF range_checks THEN head ELSE floor_div_mod(head, BYTE_MODULUS)[2]>> \o tail)

clamp_index(n, limit) == IF n < 0 THEN 0 ELSE IF n > limit THEN limit ELSE n

body_slice_byte_string(start, len, s) ==
    LET skip == clamp_index(start, Len(s))
        take == Least(clamp_index(len, Len(s)), Len(s) - skip)
    IN  BytesOf(SubSeq(s, skip + 1, skip + take))

body_length_of_byte_string(s) == IntOf(Len(s))

body_index_byte_string(s, i) == IF i < 0 \/ i >= Len(s) THEN Error ELSE IntOf(s[i + 1])

byte_view_compare(a, b) ==
    LET n == Least(Len(a), Len(b))
        differ == {i \in 1..n : a[i] # b[i]}
        at == CHOOSE i \in differ : \A j \in differ : i <= j
    IN  IF differ # {} THEN (IF a[at] < b[at] THEN -1 ELSE 1) ELSE Sign(Len(a) - Len(b))

body_byte_string_compare(func, a, b) == Compared(func, byte_view_compare(a, b))

body_replicate_byte(size, byte) ==
    IF size \notin 0..INT_TO_BS_MAX \/ byte \notin 0..BYTE_MAX THEN Error
    ELSE BytesOf([i \in 1..size |-> byte])

-----------------------------------------------------------------------------
(* Byte strings as bits.                                                   *)

BitAt(byte, offset) == (byte \div 2^offset) % 2
ByteOf(bit(_)) ==
    LET sum[i \in 0..BYTE_BITS] == IF i = 0 THEN 0 ELSE sum[i - 1] + bit(i - 1) * 2^(i - 1)
    IN  sum[BYTE_BITS]

Gate(func, x, y) == CASE func = "andByteString" -> x * y
                      [] func = "orByteString" -> Most(x, y)
                      [] func = "xorByteString" -> (x + y) % 2

body_logical_byte_string(func, pad, a, b) ==
    LET shorter == Least(Len(a), Len(b))
        out_len == IF pad THEN Most(Len(a), Len(b)) ELSE shorter
        Both(i) == LET bit(k) == Gate(func, BitAt(a[i], k), BitAt(b[i], k)) IN ByteOf(bit)
    IN  BytesOf([i \in 1..out_len |->
            IF i <= shorter THEN Both(i) ELSE IF i <= Len(a) THEN a[i] ELSE b[i]])

body_complement_byte_string(s) ==
    BytesOf([i \in 1..Len(s) |-> LET bit(k) == 1 - BitAt(s[i], k) IN ByteOf(bit)])

\* Mutant: bytes are counted from the front.
resolve_bit_front(index, length) == <<(index \div BYTE_BITS) + 1, index % BYTE_BITS>>

\* Bit 0 is the least significant bit of the last byte.
resolve_bit(index, length) == <<length - (index \div BYTE_BITS), index % BYTE_BITS>>

InBits(s, index) == index >= 0 /\ index < Len(s) * BYTE_BITS

body_read_bit(s, index) ==
    IF ~InBits(s, index) THEN Error
    ELSE LET at == resolve_bit(index, Len(s)) IN BoolOf(BitAt(s[at[1]], at[2]) = 1)

body_write_bits(s, indices, set_bit) ==
    LET written[n \in 0..Len(indices)] ==
            IF n = 0 THEN s
            ELSE LET at == resolve_bit(indices[n], Len(s))
                     bit(k) == IF k # at[2] THEN BitAt(written[n - 1][at[1]], k)
                               ELSE IF set_bit THEN 1 ELSE 0
                 IN  [written[n - 1] EXCEPT ![at[1]] = ByteOf(bit)]
    IN  IF \E n \in 1..Len(indices) : ~InBits(s, indices[n]) THEN Error
        ELSE BytesOf(written[Len(indices)])

\* Bit i from the front, the first being 0.
FrontBit(s, i) == BitAt(s[(i \div BYTE_BITS) + 1], (BYTE_BITS - 1) - (i % BYTE_BITS))

\* The byte string whose bits from the front are given.
FromFront(size, bit(_)) ==
    [j \in 1..size |->
        LET k(offset) == bit((j - 1) * BYTE_BITS + (BYTE_BITS - 1) - offset) IN ByteOf(k)]

\* A shift that does not fit 63 bits is one by the whole length.
body_shift_byte_string(s, shift) ==
    LET bits == Len(s) * BYTE_BITS
        magnitude == IF Abs(shift) > INT_MAX THEN bits ELSE Abs(shift)
        src(dst) == IF shift >= 0 THEN dst + magnitude ELSE dst - magnitude
        moved(dst) == IF src(dst) \in 0..bits - 1 THEN FrontBit(s, src(dst)) ELSE 0
    IN  BytesOf(FromFront(Len(s), moved))

body_rotate_byte_string(s, shift) ==
    LET bits == Len(s) * BYTE_BITS
        rot == floor_div_mod(shift, bits)[2]
        moved(dst) == FrontBit(s, (dst + rot) % bits)
    IN  IF Len(s) = 0 THEN BytesOf(<<>>) ELSE BytesOf(FromFront(Len(s), moved))

body_count_set_bits(s) ==
    IntOf(Cardinality({<<i, k>> \in (1..Len(s)) \X (0..BYTE_BITS - 1) : BitAt(s[i], k) = 1}))

body_find_first_set_bit(s) ==
    LET nonzero == {i \in 0..Len(s) - 1 : s[Len(s) - i] # 0}
        i == CHOOSE i \in nonzero : \A j \in nonzero : i <= j
        set == {k \in 0..BYTE_BITS - 1 : BitAt(s[Len(s) - i], k) = 1}
        bit == CHOOSE k \in set : \A j \in set : k <= j
    IN  IF nonzero = {} THEN IntOf(-1) ELSE IntOf(i * BYTE_BITS + bit)

-----------------------------------------------------------------------------
(* Between integers and byte strings.                                      *)

\* cardano_bigint_get_bytes_size and cardano_bigint_to_bytes.
SizeOf(n) == CHOOSE k \in 1..n + 1 : n < BYTE_MODULUS^k /\ (k > 1 => n >= BYTE_MODULUS^(k - 1))
BigEndian(n) == [i \in 1..SizeOf(n) |-> (n \div BYTE_MODULUS^(SizeOf(n) - i)) % BYTE_MODULUS]

Reversed(s) == [i \in 1..Len(s) |-> s[Len(s) + 1 - i]]
Zeros(n) == [i \in 1..n |-> 0]

body_integer_to_byte_string(big_endian, width, n) ==
    LET significant == IF n = 0 THEN <<>> ELSE BigEndian(n)
        out_len == IF width # 0 THEN width ELSE Len(significant)
        padding == Zeros(out_len - Len(significant))
    IN  CASE width \notin 0..INT_TO_BS_MAX \/ n < 0 -> Error
          [] width \in 1..INT_TO_BS_MAX /\ n >= 0 /\ Len(significant) > width -> Error
          [] width = 0 /\ n >= 0 /\ Len(significant) > INT_TO_BS_MAX -> Error
          [] OTHER -> BytesOf(IF big_endian THEN padding \o significant
                              ELSE Reversed(significant) \o padding)

\* cardano_bigint_from_bytes.
body_byte_string_to_integer(big_endian, s) ==
    LET digits == IF big_endian THEN s ELSE Reversed(s)
        n[i \in 0..Len(s)] == IF i = 0 THEN 0 ELSE n[i - 1] * BYTE_MODULUS + digits[i]
    IN  IntOf(n[Len(s)])

=============================================================================
