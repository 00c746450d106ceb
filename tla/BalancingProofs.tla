--------------------------- MODULE BalancingProofs ----------------------------
(***************************************************************************)
(* Theorems about Balancing, for every set of requests: the fee covers the *)
(* transaction that is handed back, its value is preserved, it is made of  *)
(* the last round alone, and its redeemers fit it.                         *)
(***************************************************************************)
EXTENDS Balancing, ValueTheorems

-----------------------------------------------------------------------------
(* Sums of numbers.                                                        *)

TotalStep(ns, g, s) == IF s = {} THEN 0 ELSE g[s \ {Max(s)}] + ns[Max(s)]

LEMMA TotalFunctionExists ==
  ASSUME NEW ns \in Seq(Nat)
  PROVE  \E g \in [SUBSET (1 .. Len(ns)) -> Nat] :
           \A s \in SUBSET (1 .. Len(ns)) : g[s] = TotalStep(ns, g, s)
<1> DEFINE Good(n) == \E g \in [SUBSET (1 .. n) -> Nat] :
                        \A s \in SUBSET (1 .. n) : g[s] = TotalStep(ns, g, s)
           G == {n \in Nat : Good(n)}
<1>1. 0 \in G
  <2> DEFINE g == [s \in SUBSET (1 .. 0) |-> 0]
  <2>1. 1 .. 0 = {} /\ SUBSET (1 .. 0) = {{}}
    OBVIOUS
  <2>2. g \in [SUBSET (1 .. 0) -> Nat]
    OBVIOUS
  <2>3. \A s \in SUBSET (1 .. 0) : g[s] = TotalStep(ns, g, s)
    BY <2>1 DEF TotalStep
  <2>4. Good(0)
    BY <2>2, <2>3
  <2> QED BY <2>4
<1>2. \A n \in 0 .. Len(ns) - 1 : n \in G => n + 1 \in G
  <2> HIDE DEF Good
  <2> SUFFICES ASSUME NEW n \in 0 .. Len(ns) - 1, Good(n) PROVE Good(n + 1)
    OBVIOUS
  <2> USE DEF Good
  <2>1. PICK g \in [SUBSET (1 .. n) -> Nat] :
          \A s \in SUBSET (1 .. n) : g[s] = TotalStep(ns, g, s)
    OBVIOUS
  <2> DEFINE h == [s \in SUBSET (1 .. n + 1) |->
                     IF n + 1 \in s THEN g[s \ {n + 1}] + ns[n + 1] ELSE g[s]]
  <2>2. ASSUME NEW s \in SUBSET (1 .. n + 1)
        PROVE  /\ s \ {n + 1} \in SUBSET (1 .. n)
               /\ n + 1 \notin s => s \in SUBSET (1 .. n)
    OBVIOUS
  <2>3. h \in [SUBSET (1 .. n + 1) -> Nat]
    <3>1. ns[n + 1] \in Nat
      BY ElementOfSeq
    <3>2. ASSUME NEW s \in SUBSET (1 .. n + 1) PROVE h[s] \in Nat
      <4>1. CASE n + 1 \in s
        <5>1. g[s \ {n + 1}] \in Nat
          BY <2>2
        <5> QED BY <3>1, <4>1, <5>1
      <4>2. CASE n + 1 \notin s
        BY <2>2, <4>2
      <4> QED BY <4>1, <4>2
    <3> QED BY <3>2
  <2>4. ASSUME NEW s \in SUBSET (1 .. n + 1), s # {} PROVE Max(s) \in s /\ \A y \in s : y <= Max(s)
    <3>1. s \in SUBSET (0 .. n + 1) /\ n + 1 \in Nat
      OBVIOUS
    <3> QED BY <2>4, <3>1, MaxIsGreatest
  <2>5. ASSUME NEW s \in SUBSET (1 .. n + 1) PROVE h[s] = TotalStep(ns, h, s)
    <3>1. CASE n + 1 \in s
      <4>1. Max(s) = n + 1
        <5>1. Max(s) \in s /\ \A y \in s : y <= Max(s)
          BY <2>4, <3>1
        <5>2. Max(s) \in 1 .. n + 1 /\ n + 1 <= Max(s)
          BY <3>1, <5>1
        <5> QED BY <5>2
      <4>2. s \ {n + 1} \in SUBSET (1 .. n + 1) /\ n + 1 \notin s \ {n + 1}
        OBVIOUS
      <4>3. h[s \ {n + 1}] = g[s \ {n + 1}]
        BY <4>2
      <4> QED BY <3>1, <4>1, <4>3 DEF TotalStep
    <3>2. CASE n + 1 \notin s
      <4>1. s \in SUBSET (1 .. n) /\ h[s] = g[s]
        BY <2>2, <3>2
      <4>2. g[s] = TotalStep(ns, g, s)
        BY <2>1, <4>1
      <4>3. h[s \ {Max(s)}] = g[s \ {Max(s)}]
        BY <3>2
      <4> QED BY <4>1, <4>2, <4>3 DEF TotalStep
    <3> QED BY <3>1, <3>2
  <2> HIDE DEF h
  <2> QED BY <2>3, <2>5
<1> HIDE DEF Good
<1>3. Len(ns) \in Nat
  OBVIOUS
<1> HIDE DEF G
<1>4. 0 .. Len(ns) \subseteq G
  BY <1>1, <1>2, <1>3, InductionUpTo
<1>5. Len(ns) \in G
  BY <1>3, <1>4
<1> QED BY <1>5 DEF G, Good

LEMMA SumIsNat ==
  ASSUME NEW ns \in Seq(Nat)
  PROVE  SumNumbers(ns) \in Nat
<1> DEFINE n == Len(ns)
           iter == CHOOSE g : g = [s \in SUBSET (1 .. n) |-> TotalStep(ns, g, s)]
<1>1. n \in Nat /\ DOMAIN ns = 1 .. n
  OBVIOUS
<1>2. SumNumbers(ns) = iter[1 .. n]
  BY <1>1, Zenon DEF SumNumbers, FoldLeft, MapThenFoldSet, TotalStep
<1>3. PICK g \in [SUBSET (1 .. n) -> Nat] : \A s \in SUBSET (1 .. n) : g[s] = TotalStep(ns, g, s)
  BY TotalFunctionExists
<1>4. g = [s \in SUBSET (1 .. n) |-> TotalStep(ns, g, s)]
  BY <1>3
<1>5. iter = [s \in SUBSET (1 .. n) |-> TotalStep(ns, iter, s)]
  BY <1>4, Zenon
<1> HIDE DEF iter
<1> DEFINE S == {k \in Nat : k <= n => iter[1 .. k] \in Nat}
<1>6. 0 \in S
  <2>1. 1 .. 0 = {} /\ {} \in SUBSET (1 .. n)
    OBVIOUS
  <2>2. iter[{}] = TotalStep(ns, iter, {})
    BY <1>5, <2>1
  <2> QED BY <2>1, <2>2 DEF TotalStep
<1>7. \A k \in 0 .. n - 1 : k \in S => k + 1 \in S
  <2> SUFFICES ASSUME NEW k \in 0 .. n - 1, iter[1 .. k] \in Nat PROVE iter[1 .. k + 1] \in Nat
    BY <1>1
  <2>1. k + 1 \in 1 .. n /\ k + 1 \in 1 .. k + 1 /\ k \in Nat
    BY <1>1
  <2>2. 1 .. k + 1 \in SUBSET (1 .. n) /\ 1 .. k + 1 \in SUBSET (0 .. n)
    BY <1>1
  <2>3. Max(1 .. k + 1) = k + 1
    <3>1. Max(1 .. k + 1) \in 1 .. k + 1 /\ \A y \in 1 .. k + 1 : y <= Max(1 .. k + 1)
      BY <1>1, <2>1, <2>2, MaxIsGreatest
    <3> QED BY <2>1, <3>1
  <2>4. (1 .. k + 1) \ {k + 1} = 1 .. k
    BY <2>1
  <2>5. iter[1 .. k + 1] = TotalStep(ns, iter, 1 .. k + 1)
    BY <1>5, <2>2
  <2>6. iter[1 .. k + 1] = iter[1 .. k] + ns[k + 1]
    BY <2>1, <2>3, <2>4, <2>5 DEF TotalStep
  <2>7. ns[k + 1] \in Nat
    BY <2>1, ElementOfSeq
  <2> QED BY <2>6, <2>7
<1> HIDE DEF S
<1>8. n \in S
  <2>1. 0 .. n \subseteq S
    BY <1>1, <1>6, <1>7, InductionUpTo
  <2> QED BY <1>1, <2>1
<1> QED BY <1>1, <1>2, <1>8 DEF S

\* A sum of what is taken of the elements of a list.
LEMMA SumOfEach ==
  ASSUME NEW s, NEW T, s \in Seq(T), NEW ns, DOMAIN ns = DOMAIN s, ns = [i \in DOMAIN s |-> ns[i]],
         \A i \in DOMAIN s : ns[i] \in Nat
  PROVE  SumNumbers(ns) \in Nat
<1>1. DOMAIN s = 1 .. Len(s) /\ Len(s) \in Nat
  OBVIOUS
<1>2. ns \in Seq(Nat)
  BY <1>1
<1> QED BY <1>2, SumIsNat

-----------------------------------------------------------------------------
(* What a transaction costs.                                               *)

LEMMA DepositIsNat ==
  ASSUME NEW c \in Certificate
  PROVE  DepositOf(c) \in Nat
<1>1. KeyDeposit \in Nat /\ PoolDeposit \in Nat /\ c.deposit \in Nat
  BY CostsAssumption DEF Certificate
<1> QED BY <1>1 DEF DepositOf

LEMMA DepositsAreNat ==
  ASSUME NEW cs \in Seq(Certificate), NEW kinds
  PROVE  DepositsOf(cs, kinds) \in Nat
<1> DEFINE ns == [i \in DOMAIN cs |-> IF cs[i].kind \in kinds THEN DepositOf(cs[i]) ELSE 0]
<1>1. \A i \in DOMAIN cs : cs[i] \in Certificate
  BY ElementOfSeq
<1>2. \A i \in DOMAIN cs : DepositOf(cs[i]) \in Nat
  BY <1>1, DepositIsNat
<1>3. \A i \in DOMAIN cs : ns[i] \in Nat
  BY <1>2
<1>4. DOMAIN ns = DOMAIN cs /\ ns = [i \in DOMAIN cs |-> ns[i]]
  OBVIOUS
<1> HIDE DEF ns
<1>5. SumNumbers(ns) \in Nat
  BY <1>3, <1>4, SumOfEach
<1> QED BY <1>5 DEF DepositsOf, ns

LEMMA ImplicitValueType ==
  ASSUME NEW r \in Requests, NEW f \in Nat
  PROVE  implicit_value(r, f) \in Value
<1>1. /\ r.withdrawals \in Seq(Withdrawal)
      /\ r.certificates \in Seq(Certificate)
      /\ r.proposals \in Seq(Nat) /\ r.donation \in Nat /\ r.mint \in Value
  BY ContentsAssumption
<1>2. compute_withdrawals(r) \in Nat
  <2> DEFINE ns == [i \in DOMAIN r.withdrawals |-> r.withdrawals[i].amount]
  <2>1. \A i \in DOMAIN r.withdrawals : r.withdrawals[i] \in Withdrawal
    BY <1>1, ElementOfSeq
  <2>2. \A i \in DOMAIN r.withdrawals : ns[i] \in Nat
    BY <2>1 DEF Withdrawal
  <2>3. DOMAIN ns = DOMAIN r.withdrawals /\ ns = [i \in DOMAIN r.withdrawals |-> ns[i]]
    OBVIOUS
  <2> HIDE DEF ns
  <2>4. SumNumbers(ns) \in Nat
    BY <1>1, <2>2, <2>3, SumOfEach
  <2> QED BY <2>4 DEF compute_withdrawals, ns
<1>3. compute_reclaims(r) \in Nat
  BY <1>1, DepositsAreNat DEF compute_reclaims
<1>4. compute_deposits(r) \in Nat
  <2>1. SumNumbers(r.proposals) \in Nat
    BY <1>1, SumIsNat
  <2>2. DepositsOf(r.certificates, Depositing) \in Nat
    BY <1>1, DepositsAreNat
  <2> QED BY <2>1, <2>2 DEF compute_deposits
<1> DEFINE c == compute_withdrawals(r) + compute_reclaims(r) - (compute_deposits(r) + f + r.donation)
<1>5. c \in Int
  BY <1>1, <1>2, <1>3, <1>4
<1> HIDE DEF c
<1>6. WithCoin(r.mint, c) \in Value
  BY <1>1, <1>5 DEF WithCoin, Value
<1> QED BY <1>6 DEF implicit_value, c

LEMMA AssetsAreFinite ==
  ASSUME NEW v
  PROVE  IsFiniteSet(AssetsOf(v)) /\ Cardinality(AssetsOf(v)) \in Nat
<1>1. IsFiniteSet(Assets)
  BY ValuesAssumption, FS_Interval DEF Assets
<1>2. IsFiniteSet(AssetsOf(v))
  BY <1>1, FS_Subset DEF AssetsOf
<1> QED BY <1>2, FS_CardinalityType

LEMMA MinAdaIsNat ==
  ASSUME NEW v
  PROVE  compute_min_ada_required(v) \in Nat
<1>1. Cardinality(AssetsOf(v)) \in Nat
  BY AssetsAreFinite
<1> DEFINE n == Cardinality(AssetsOf(v))
<1> HIDE DEF n
<1>2. MinAdaPerAsset * n \in Nat
  BY <1>1, ValuesAssumption DEF n
<1> QED BY <1>2, ValuesAssumption DEF compute_min_ada_required, n

LEMMA OutputsSizeIsNat ==
  ASSUME NEW vs \in Seq(Bundle)
  PROVE  outputs_size(vs) \in Nat
<1> DEFINE ns == [i \in DOMAIN vs |-> output_size(vs[i])]
<1>1. ASSUME NEW i \in DOMAIN vs PROVE output_size(vs[i]) \in Nat
  <2>1. coin_size(vs[i][Ada]) \in Nat
    BY DEF coin_size
  <2>2. Cardinality(AssetsOf(vs[i])) \in Nat
    BY AssetsAreFinite
  <2> QED BY <2>1, <2>2 DEF output_size
<1>2. \A i \in DOMAIN vs : ns[i] \in Nat
  BY <1>1
<1>3. DOMAIN ns = DOMAIN vs /\ ns = [i \in DOMAIN vs |-> ns[i]]
  OBVIOUS
<1> HIDE DEF ns
<1>4. SumNumbers(ns) \in Nat
  BY <1>2, <1>3, SumOfEach
<1> QED BY <1>4 DEF outputs_size, ns

\* What the fee is computed of.
TransactionLike(b) ==
  /\ b.inputs \in Seq(Nat) /\ b.outputs \in Seq(Bundle) /\ b.fee \in Nat
  /\ b.collateral \in Seq(Nat) /\ b.collateral_return \in Seq(Bundle)
  /\ \E n \in Nat : b.redeemers \in [1 .. n -> Redeemer]

LEMMA SignersAreFinite ==
  ASSUME NEW r \in Requests, NEW b, TransactionLike(b)
  PROVE  Cardinality(get_unique_signers(r, b)) \in Nat
<1>1. ASSUME NEW S, IsFiniteSet(S), NEW f PROVE IsFiniteSet({f[x] : x \in S})
  <2> DEFINE g == [x \in S |-> f[x]]
             T == {g[x] : x \in S}
  <2>1. g \in [S -> T]
    OBVIOUS
  <2>2. \A y \in T : \E x \in S : g[x] = y
    OBVIOUS
  <2>3. {f[x] : x \in S} = T
    OBVIOUS
  <2> HIDE DEF g, T
  <2>4. g \in Surjection(S, T)
    BY <2>1, <2>2 DEF Surjection
  <2>5. IsFiniteSet(T)
    BY <1>1, <2>4, FS_Surjection
  <2> QED BY <2>3, <2>5
<1>2. ASSUME NEW ids \in Seq(Nat) PROVE IsFiniteSet(input_signers(r, ids))
  <2> DEFINE f == [i \in DOMAIN ids |-> r.owner[ids[i]]]
  <2>1. IsFiniteSet(DOMAIN ids)
    <3>1. DOMAIN ids = 1 .. Len(ids) /\ Len(ids) \in Nat
      OBVIOUS
    <3> QED BY <3>1, FS_Interval
  <2>2. input_signers(r, ids) = {f[i] : i \in DOMAIN ids}
    BY DEF input_signers
  <2> HIDE DEF f
  <2> QED BY <1>1, <2>1, <2>2
<1>3. IsFiniteSet(withdrawal_signers(r))
  <2> DEFINE D == DOMAIN r.withdrawals
             f == [i \in D |-> r.withdrawals[i].key]
  <2>1. IsFiniteSet(D)
    <3>1. D = 1 .. Len(r.withdrawals) /\ Len(r.withdrawals) \in Nat
      BY ContentsAssumption
    <3> QED BY <3>1, FS_Interval
  <2>2. withdrawal_signers(r) = {f[i] : i \in D}
    BY DEF withdrawal_signers
  <2> HIDE DEF f, D
  <2> QED BY <1>1, <2>1, <2>2
<1>4. IsFiniteSet(certificate_signers(r))
  <2> DEFINE D == DOMAIN r.certificates
             J == {j \in D : r.certificates[j].kind \notin Unsigned}
             f == [i \in J |-> r.certificates[i].keys]
             K == {f[i] : i \in J}
  <2>1. IsFiniteSet(D)
    <3>1. D = 1 .. Len(r.certificates) /\ Len(r.certificates) \in Nat
      BY ContentsAssumption
    <3> QED BY <3>1, FS_Interval
  <2>2. \A i \in D : IsFiniteSet(r.certificates[i].keys)
    BY ContentsAssumption
  <2>3. \A k \in K : IsFiniteSet(k)
    BY <2>2
  <2>4. J \in SUBSET D
    OBVIOUS
  <2>5. certificate_signers(r) = UNION K
    BY DEF certificate_signers
  <2>6. K = {f[i] : i \in J}
    OBVIOUS
  <2> HIDE DEF D, J, f, K
  <2>7. IsFiniteSet(J)
    BY <2>1, <2>4, FS_Subset
  <2>8. IsFiniteSet(K)
    BY <1>1, <2>6, <2>7
  <2> QED BY <2>3, <2>5, <2>8, FS_UNION
<1>5. IsFiniteSet(r.required_signers) /\ IsFiniteSet(r.voters)
  BY ContentsAssumption
<1>6. IsFiniteSet(input_signers(r, b.inputs)) /\ IsFiniteSet(input_signers(r, b.collateral))
  BY <1>2 DEF TransactionLike
<1> DEFINE U == r.required_signers \cup input_signers(r, b.inputs) \cup input_signers(r, b.collateral)
                  \cup withdrawal_signers(r) \cup certificate_signers(r) \cup r.voters
<1>7. IsFiniteSet(U)
  BY <1>3, <1>4, <1>5, <1>6, FS_Union
<1>8. get_unique_signers(r, b) = U \ {0}
  BY DEF get_unique_signers
<1> HIDE DEF U
<1>9. IsFiniteSet(U \ {0})
  BY <1>7, FS_Subset
<1> QED BY <1>8, <1>9, FS_CardinalityType

LEMMA FeeIsNat ==
  ASSUME NEW r \in Requests, NEW b, TransactionLike(b)
  PROVE  required_fee(r, b) \in Nat
<1> DEFINE n == r.foreign_signature_count + Cardinality(get_unique_signers(r, b))
           rs == b.redeemers
           sizes == [i \in DOMAIN rs |-> rs[i].size]
           units == [i \in DOMAIN rs |-> rs[i].ex_units]
<1>1. n \in Nat /\ r.ref_fee \in Nat
  BY SignersAreFinite, ContentsAssumption
<1>2. SumNumbers(sizes) \in Nat /\ SumNumbers(units) \in Nat
  <2>1. PICK m \in Nat : rs \in [1 .. m -> Redeemer]
    BY DEF TransactionLike
  <2>2. \A i \in 1 .. m : rs[i].size \in Nat /\ rs[i].ex_units \in Nat
    BY <2>1 DEF Redeemer
  <2>3. sizes \in [1 .. m -> Nat] /\ units \in [1 .. m -> Nat]
    BY <2>1, <2>2
  <2>4. sizes \in Seq(Nat) /\ units \in Seq(Nat)
    BY <2>3
  <2> QED BY <2>4, SumIsNat
<1> HIDE DEF sizes, units, n
<1>3. transaction_size(b) \in Nat
  <2>1. Len(b.inputs) \in Nat /\ Len(b.collateral) \in Nat
    BY DEF TransactionLike
  <2>2. outputs_size(b.outputs) \in Nat /\ outputs_size(b.collateral_return) \in Nat
    BY OutputsSizeIsNat DEF TransactionLike
  <2>3. coin_size(b.fee) \in Nat
    BY DEF coin_size
  <2>4. transaction_size(b) = Len(b.inputs) + Len(b.collateral) + coin_size(b.fee)
          + outputs_size(b.outputs) + outputs_size(b.collateral_return) + SumNumbers(sizes)
    BY Zenon DEF transaction_size, sizes
  <2> DEFINE i == Len(b.inputs)
             c == Len(b.collateral)
             f == coin_size(b.fee)
             o == outputs_size(b.outputs)
             u == outputs_size(b.collateral_return)
             z == SumNumbers(sizes)
  <2>5. i \in Nat /\ c \in Nat /\ f \in Nat /\ o \in Nat /\ u \in Nat /\ z \in Nat
    BY <1>2, <2>1, <2>2, <2>3
  <2>6. transaction_size(b) = i + c + f + o + u + z
    BY <2>4
  <2> HIDE DEF i, c, f, o, u, z
  <2> QED BY <2>5, <2>6
<1>4. compute_min_script_fee(r, b) \in Nat
  <2>1. ExPrice * SumNumbers(units) \in Nat
    BY <1>2, CostsAssumption
  <2> QED BY <1>1, <2>1 DEF compute_min_script_fee, units
<1>5. compute_transaction_fee(r, b) \in Nat
  <2>1. MinFeeA * transaction_size(b) \in Nat /\ MinFeeB \in Nat
    BY <1>3, CostsAssumption
  <2> QED BY <1>4, <2>1 DEF compute_transaction_fee
<1>6. compute_vk_witnesses_cost(n) \in Nat
  <2>1. cbor_array_header_size(n) \in Nat
    BY DEF cbor_array_header_size
  <2>2. WitnessSize * n \in Nat /\ MinFeeA \in Nat
    BY <1>1, CostsAssumption
  <2> DEFINE m == 1 + cbor_array_header_size(n) + WitnessSize * n
  <2>3. m \in Nat
    BY <2>1, <2>2
  <2> HIDE DEF m
  <2>4. m * MinFeeA \in Nat
    BY <2>2, <2>3
  <2> QED BY <2>4 DEF compute_vk_witnesses_cost, m
<1> QED BY <1>5, <1>6 DEF required_fee, n

-----------------------------------------------------------------------------
(* The UTXOs of a request and those that are chosen.                       *)

IsAscending(a, S) ==
  /\ Cardinality(S) \in Nat /\ a \in Seq(S) /\ Len(a) = Cardinality(S)
  /\ DOMAIN a = 1 .. Cardinality(S)
  /\ {a[i] : i \in DOMAIN a} = S
  /\ \A i, j \in DOMAIN a : a[i] = a[j] => i = j

LEMMA AscendingProperties ==
  ASSUME NEW S \in SUBSET Nat, IsFiniteSet(S)
  PROVE  IsAscending(Ascending(S), S)
<1> DEFINE R == {p \in S \X S : p[1] < p[2]}
           a == Ascending(S)
           n == Cardinality(S)
<1>1. IsOrder(S, R)
  BY NumbersAreOrdered
<1>2. a = InOrder(S, R)
  BY DEF Ascending
<1> HIDE DEF R, a
<1>3. /\ n \in Nat /\ a \in [1 .. n -> S]
      /\ \A x \in S : \E i \in 1 .. n : a[i] = x
      /\ \A i, j \in 1 .. n : a[i] = a[j] => i = j
  BY <1>1, <1>2, InOrderProperties
<1> HIDE DEF n
<1>4. DOMAIN a = 1 .. n /\ a \in Seq(S) /\ Len(a) = n
  BY <1>3
<1>5. {a[i] : i \in DOMAIN a} = S
  <2>1. \A i \in DOMAIN a : a[i] \in S
    BY <1>3, <1>4
  <2>2. \A x \in S : \E i \in DOMAIN a : a[i] = x
    BY <1>3, <1>4
  <2> QED BY <2>1, <2>2
<1> QED BY <1>3, <1>4, <1>5 DEF IsAscending, n, a

LEMMA ListIds ==
  ASSUME NEW us \in Seq(Utxo)
  PROVE  Ids(us) \in SUBSET Nat /\ IsFiniteSet(Ids(us))
<1>1. DOMAIN us = 1 .. Len(us) /\ Len(us) \in Nat /\ \A i \in DOMAIN us : us[i] \in Utxo
  BY ElementOfSeq
<1>2. Ids(us) \in SUBSET Nat
  BY <1>1 DEF Ids, Utxo
<1> DEFINE f == [i \in DOMAIN us |-> us[i].id]
<1>3. f \in [DOMAIN us -> Ids(us)] /\ \A x \in Ids(us) : \E i \in DOMAIN us : f[i] = x
  BY DEF Ids
<1> HIDE DEF f
<1>4. f \in Surjection(DOMAIN us, Ids(us))
  BY <1>3 DEF Surjection
<1>5. IsFiniteSet(DOMAIN us)
  BY <1>1, FS_Interval
<1> QED BY <1>2, <1>4, <1>5, FS_Surjection

\* A chosen list has a UTXO of the list for each id, in the order of the ids.
IsChosen(s, us, ids) ==
  /\ s \in Seq(Utxo) /\ Len(s) = Cardinality(ids) /\ DOMAIN s = DOMAIN Ascending(ids)
  /\ Ids(s) = ids
  /\ \A i \in DOMAIN s : s[i].id = Ascending(ids)[i] /\ \E j \in DOMAIN us : s[i] = us[j]

LEMMA ChosenProperties ==
  ASSUME NEW us \in Seq(Utxo), NEW ids \in SUBSET Ids(us)
  PROVE  IsChosen(Chosen(us, ids), us, ids) /\ IsAscending(Ascending(ids), ids)
<1> DEFINE a == Ascending(ids)
           s == Chosen(us, ids)
           n == Cardinality(ids)
           at(i) == Min({j \in DOMAIN us : us[j].id = a[i]})
<1>1. ids \in SUBSET Nat /\ IsFiniteSet(ids)
  BY ListIds, FS_Subset
<1>2. IsAscending(a, ids)
  BY <1>1, AscendingProperties
<1>3. n \in Nat /\ DOMAIN a = 1 .. n /\ {a[i] : i \in DOMAIN a} = ids /\ \A i \in 1 .. n : a[i] \in ids
  BY <1>2 DEF IsAscending
<1>4. DOMAIN us = 1 .. Len(us) /\ \A i \in DOMAIN us : us[i] \in Utxo
  BY ElementOfSeq
<1>5. s = [i \in 1 .. n |-> us[at(i)]]
  BY <1>3 DEF Chosen
<1> HIDE DEF a, n, s
<1>6. ASSUME NEW i \in 1 .. n PROVE at(i) \in DOMAIN us /\ us[at(i)].id = a[i]
  <2> DEFINE J == {j \in DOMAIN us : us[j].id = a[i]}
  <2>1. a[i] \in Ids(us)
    BY <1>3
  <2>2. J # {} /\ J \in SUBSET Nat
    BY <1>4, <2>1 DEF Ids
  <2> HIDE DEF J
  <2>3. Min(J) \in J
    BY <2>2, MinIsLeast
  <2> QED BY <2>3 DEF J
<1> HIDE DEF at
<1>7. /\ s \in [1 .. n -> Utxo] /\ DOMAIN s = 1 .. n
      /\ \A i \in 1 .. n : s[i] = us[at(i)] /\ s[i].id = a[i]
  <2>1. \A i \in 1 .. n : us[at(i)] \in Utxo
    BY <1>4, <1>6
  <2>2. \A i \in 1 .. n : s[i] = us[at(i)]
    BY <1>5
  <2> QED BY <1>5, <1>6, <2>1, <2>2
<1>8. s \in Seq(Utxo) /\ Len(s) = n
  BY <1>3, <1>7
<1>9. Ids(s) = ids
  BY <1>3, <1>7 DEF Ids
<1>10. \A i \in DOMAIN s : s[i].id = a[i] /\ \E j \in DOMAIN us : s[i] = us[j]
  BY <1>6, <1>7
<1> QED BY <1>2, <1>3, <1>7, <1>8, <1>9, <1>10 DEF IsChosen, a, s, n

\* The elements of two lists in one.
IsJoin(c, a, b, S) ==
  /\ c \in Seq(S) /\ DOMAIN c \in SUBSET Nat
  /\ \A i \in DOMAIN c : (\E j \in DOMAIN a : c[i] = a[j]) \/ (\E j \in DOMAIN b : c[i] = b[j])
  /\ \A j \in DOMAIN a : \E i \in DOMAIN c : c[i] = a[j]
  /\ \A j \in DOMAIN b : \E i \in DOMAIN c : c[i] = b[j]

LEMMA Joined ==
  ASSUME NEW S, NEW a \in Seq(S), NEW b \in Seq(S), NEW c, c = a \o b
  PROVE  IsJoin(c, a, b, S)
<1> DEFINE m == Len(a)
           n == Len(b)
<1>1. /\ c \in Seq(S) /\ Len(c) = m + n /\ m \in Nat /\ n \in Nat
      /\ DOMAIN c = 1 .. Len(c) /\ DOMAIN a = 1 .. m /\ DOMAIN b = 1 .. n
      /\ \A i \in 1 .. m + n : c[i] = IF i <= m THEN a[i] ELSE b[i - m]
  BY ConcatProperties
<1> HIDE DEF m, n
<1>2. ASSUME NEW i \in DOMAIN c
      PROVE  (\E j \in DOMAIN a : c[i] = a[j]) \/ (\E j \in DOMAIN b : c[i] = b[j])
  <2>1. CASE i <= m
    BY <1>1, <2>1
  <2>2. CASE ~(i <= m)
    <3>1. i - m \in DOMAIN b /\ c[i] = b[i - m]
      BY <1>1, <2>2
    <3> QED BY <3>1
  <2> QED BY <2>1, <2>2
<1>3. ASSUME NEW j \in DOMAIN a PROVE \E i \in DOMAIN c : c[i] = a[j]
  <2>1. j \in DOMAIN c /\ c[j] = a[j]
    BY <1>1
  <2> QED BY <2>1
<1>4. ASSUME NEW j \in DOMAIN b PROVE \E i \in DOMAIN c : c[i] = b[j]
  <2>1. m + j \in 1 .. m + n /\ ~(m + j <= m) /\ (m + j) - m = j
    BY <1>1
  <2>2. m + j \in DOMAIN c /\ c[m + j] = b[j]
    BY <1>1, <2>1
  <2> QED BY <2>2
<1>5. DOMAIN c \in SUBSET Nat
  BY <1>1
<1>6. c \in Seq(S)
  BY <1>1
<1> QED BY <1>2, <1>3, <1>4, <1>5, <1>6, Zenon DEF IsJoin

\* The UTXOs of the lists of a request: an id has one.
Ledger(r) ==
  {r.pre[i] : i \in DOMAIN r.pre} \cup {r.available[i] : i \in DOMAIN r.available}
    \cup {r.collateral_utxo[i] : i \in DOMAIN r.collateral_utxo}

LEMMA LedgerProperties ==
  ASSUME NEW r \in Requests
  PROVE  /\ r.pre \in Seq(Utxo) /\ r.available \in Seq(Utxo) /\ r.collateral_utxo \in Seq(Utxo)
         /\ r.pre \o r.available \in Seq(Utxo)
         /\ \A i \in DOMAIN (r.pre \o r.available) : (r.pre \o r.available)[i] \in Ledger(r)
         /\ Ids(r.pre) \subseteq Ids(r.pre \o r.available)
         /\ \A u, v \in Ledger(r) : u.id = v.id => u = v
<1> DEFINE a == r.pre
           b == r.available
           c == r.collateral_utxo
           d == a \o b
<1>1. a \in Seq(Utxo) /\ b \in Seq(Utxo) /\ c \in Seq(Utxo)
  BY RequestsAssumption
<1>2. \A us, vs \in {a, b, c} : \A i \in DOMAIN us, j \in DOMAIN vs : us[i].id = vs[j].id => us[i] = vs[j]
  BY RequestsAssumption
<1>3. \A u \in Ledger(r) : \E us \in {a, b, c} : \E i \in DOMAIN us : u = us[i]
  BY DEF Ledger
<1>4. \A u, v \in Ledger(r) : u.id = v.id => u = v
  <2> SUFFICES ASSUME NEW u \in Ledger(r), NEW v \in Ledger(r), u.id = v.id PROVE u = v
    OBVIOUS
  <2>1. PICK us \in {a, b, c} : \E i \in DOMAIN us : u = us[i]
    BY <1>3
  <2>2. PICK i \in DOMAIN us : u = us[i]
    BY <2>1
  <2>3. PICK vs \in {a, b, c} : \E j \in DOMAIN vs : v = vs[j]
    BY <1>3
  <2>4. PICK j \in DOMAIN vs : v = vs[j]
    BY <2>3
  <2> HIDE DEF a, b, c
  <2>5. us[i].id = vs[j].id => us[i] = vs[j]
    BY <1>2, <2>1, <2>3
  <2> QED BY <2>2, <2>4, <2>5
<1>7. \A u : (\E i \in DOMAIN a : u = a[i]) \/ (\E i \in DOMAIN b : u = b[i]) => u \in Ledger(r)
  BY DEF Ledger
<1> HIDE DEF a, b, c
<1>5. d = a \o b
  OBVIOUS
<1> HIDE DEF d
<1>9. /\ d \in Seq(Utxo)
      /\ \A i \in DOMAIN d : (\E j \in DOMAIN a : d[i] = a[j]) \/ (\E j \in DOMAIN b : d[i] = b[j])
      /\ \A j \in DOMAIN a : \E i \in DOMAIN d : d[i] = a[j]
  <2>1. IsJoin(d, a, b, Utxo)
    BY <1>1, <1>5, Joined, Zenon
  <2> QED BY <2>1, Zenon DEF IsJoin
<1>6. \A i \in DOMAIN d : d[i] \in Ledger(r)
  BY <1>7, <1>9
<1>8. Ids(a) \subseteq Ids(d)
  BY <1>9 DEF Ids
<1> QED BY <1>1, <1>4, <1>6, <1>8, <1>9 DEF a, b, c, d

SeenValue(resolved, ins) == SumValues([i \in DOMAIN ins |-> ValueOf(resolved, ins[i])])

\* The balance check finds the values of the selected UTXOs, whichever list it
\* finds an input in first.
LEMMA BalanceSeesSelection ==
  ASSUME NEW r \in Requests, NEW ids \in SUBSET Ids(r.pre \o r.available),
         NEW s, s = Chosen(r.pre \o r.available, ids),
         NEW ins, ins = Ascending(ids),
         NEW resolved, resolved = r.collateral_utxo \o r.pre \o s
  PROVE  SeenValue(resolved, ins) = Total(s)
<1> DEFINE us == r.pre \o r.available
           c == r.collateral_utxo
           p == r.pre
           cp == c \o p
<1>1. /\ us \in Seq(Utxo) /\ c \in Seq(Utxo) /\ p \in Seq(Utxo)
      /\ \A i \in DOMAIN us : us[i] \in Ledger(r)
      /\ \A u, v \in Ledger(r) : u.id = v.id => u = v
  BY LedgerProperties
<1>2. IsChosen(s, us, ids) /\ IsAscending(ins, ids)
  BY <1>1, ChosenProperties
<1>3. /\ s \in Seq(Utxo) /\ DOMAIN s = DOMAIN ins
      /\ \A i \in DOMAIN s : s[i].id = ins[i] /\ s[i] \in Ledger(r)
  BY <1>1, <1>2 DEF IsChosen
<1>4. /\ \A i \in DOMAIN c : c[i] \in Ledger(r)
      /\ \A i \in DOMAIN p : p[i] \in Ledger(r)
  BY DEF Ledger
<1>5. resolved = cp \o s
  OBVIOUS
<1> HIDE DEF us, c, p
<1>6. cp = c \o p
  OBVIOUS
<1> HIDE DEF cp
<1>7. /\ cp \in Seq(Utxo)
      /\ \A i \in DOMAIN cp : (\E j \in DOMAIN c : cp[i] = c[j]) \/ (\E j \in DOMAIN p : cp[i] = p[j])
  <2>1. IsJoin(cp, c, p, Utxo)
    BY <1>1, <1>6, Joined, Zenon
  <2> QED BY <2>1, Zenon DEF IsJoin
<1>8. /\ DOMAIN resolved \in SUBSET Nat
      /\ \A i \in DOMAIN resolved :
           (\E j \in DOMAIN cp : resolved[i] = cp[j]) \/ (\E j \in DOMAIN s : resolved[i] = s[j])
      /\ \A j \in DOMAIN s : \E i \in DOMAIN resolved : resolved[i] = s[j]
  <2>1. IsJoin(resolved, cp, s, Utxo)
    BY <1>3, <1>5, <1>7, Joined, Zenon
  <2> QED BY <2>1, Zenon DEF IsJoin
<1>9. \A i \in DOMAIN resolved : resolved[i] \in Ledger(r)
  <2>1. \A i \in DOMAIN cp : cp[i] \in Ledger(r)
    BY <1>4, <1>7
  <2> TAKE i \in DOMAIN resolved
  <2>2. CASE \E j \in DOMAIN cp : resolved[i] = cp[j]
    BY <2>1, <2>2
  <2>3. CASE \E j \in DOMAIN s : resolved[i] = s[j]
    BY <1>3, <2>3
  <2> QED BY <1>8, <2>2, <2>3, Zenon
<1>11. ASSUME NEW i \in DOMAIN s PROVE ValueOf(resolved, ins[i]) = s[i].val
  <2> DEFINE J == {j \in DOMAIN resolved : resolved[j].id = ins[i]}
  <2>1. J # {} /\ J \in SUBSET Nat
    <3>1. PICK j \in DOMAIN resolved : resolved[j] = s[i]
      BY <1>8
    <3>2. j \in J
      BY <1>3, <3>1
    <3>3. J \in SUBSET (DOMAIN resolved)
      OBVIOUS
    <3> HIDE DEF J
    <3> QED BY <1>8, <3>2, <3>3
  <2>2. ValueOf(resolved, ins[i]) = resolved[Min(J)].val
    BY Zenon DEF ValueOf
  <2>3. Min(J) \in J
    <3> HIDE DEF J
    <3> QED BY <2>1, MinIsLeast
  <2>4. resolved[Min(J)] \in Ledger(r) /\ resolved[Min(J)].id = s[i].id
    BY <1>3, <1>9, <2>3
  <2>5. resolved[Min(J)] = s[i]
    <3> HIDE DEF J
    <3> QED BY <1>1, <1>3, <2>4
  <2> QED BY <2>2, <2>5
<1>12. [i \in DOMAIN ins |-> ValueOf(resolved, ins[i])] = [i \in DOMAIN s |-> s[i].val]
  BY <1>3, <1>11
<1> QED BY <1>12, Zenon DEF Total, SeenValue

-----------------------------------------------------------------------------
(* The inductive invariant.                                                *)

\* The body is that of the round: its fee, the outputs of the caller, and in the
\* end the change of this round.
Round ==
  /\ body.fee = fee
  /\ pc = "collateral" => body = EmptyBody(req.outputs, fee)
  /\ pc \in {"select", "inputs", "change"} => body.outputs = req.outputs
  /\ pc \in {"resolve", "evaluate", "fee", "done"} => body.outputs = req.outputs \o change

\* A redeemer stays what it is; only the index of a spending one changes.
Kept ==
  \A r \in DOMAIN req.redeemers :
    /\ redeemers[r].tag = req.redeemers[r].tag
    /\ redeemers[r].input = req.redeemers[r].input
    /\ redeemers[r].deferred = req.redeemers[r].deferred
    /\ redeemers[r].tag = "mint" => redeemers[r].index = req.redeemers[r].index

CollateralSound(b) ==
  /\ Total(Chosen(req.collateral_utxo, {b.collateral[i] : i \in DOMAIN b.collateral}))
       = value_add(SumValues(b.collateral_return), WithCoin(ZeroValue, b.total_collateral))
  /\ \A i \in DOMAIN b.collateral_return :
       b.collateral_return[i][Ada] >= compute_min_ada_required(b.collateral_return[i])
  /\ b.total_collateral * 100 >= b.fee * CollateralPercentage

Backed == pc \notin {"collateral", "failed"} /\ NeedsCollateral => CollateralSound(body)

RoundTarget == value_subtract(SumValues(req.outputs), implicit_value(req, fee))

\* What the selector answered, from the selection on.
SelectionOf(ids) ==
  /\ selection = Chosen(Candidates, ids)
  /\ Ids(req.pre) \subseteq ids

Picked ==
  pc \in {"inputs", "change", "resolve", "evaluate", "fee", "done"} =>
    /\ \E ids \in SUBSET Ids(Candidates) : SelectionOf(ids)
    /\ req.honest => LocallyBalanced(selection, change, RoundTarget) /\ ChangeCompliant(change)

\* The inputs are in the body, and the spending redeemers point at theirs.
PointsAtInput(r) ==
  /\ redeemers[r].index + 1 \in DOMAIN body.inputs
  /\ body.inputs[redeemers[r].index + 1] = redeemers[r].input

Placed ==
  pc \in {"change", "resolve", "evaluate", "fee", "done"} =>
    /\ body.inputs = SelectedIds
    /\ \A r \in DOMAIN req.redeemers : redeemers[r].tag = "spend" => PointsAtInput(r)

\* The deferred redeemers that have been resolved saw the layout of the round.
Resolved ==
  /\ next # 0
  /\ pc = "resolve" => \A i \in DOMAIN DeferredRedeemers :
                         i < next => redeemers[DeferredRedeemers[i]].data = Layout
  /\ pc \in {"evaluate", "fee", "done"} =>
       \A r \in DOMAIN req.redeemers : redeemers[r].deferred => redeemers[r].data = Layout

Evaluated ==
  pc \in {"fee", "done"} => \A r \in DOMAIN req.redeemers : redeemers[r].ex_units = script_cost(r)

Ended ==
  pc = "done" =>
    /\ computed_fee <= fee
    /\ is_transaction_balanced(req, Draft, req.collateral_utxo \o req.pre \o selection)

IInv ==
  /\ TypeOK /\ Round /\ Kept /\ Backed /\ Picked /\ Placed /\ Resolved /\ Evaluated /\ Ended
  /\ HonestSelectorBalances

Body == [inputs : Seq(Nat), outputs : Seq(Bundle), fee : Nat, collateral : Seq(Nat),
         collateral_return : Seq(Bundle), total_collateral : Nat]

LEMMA EmptyBodyType ==
  ASSUME NEW r \in Requests, NEW f \in Nat
  PROVE  EmptyBody(r.outputs, f) \in Body /\ r.outputs \in Seq(Bundle)
<1>1. r.outputs \in Seq(Bundle)
  BY ContentsAssumption
<1>2. <<>> \in Seq(Nat) /\ <<>> \in Seq(Bundle)
  OBVIOUS
<1> QED BY <1>1, <1>2 DEF EmptyBody, Body

\* The redeemers of a request.
LEMMA RequestRedeemers ==
  ASSUME NEW r \in Requests
  PROVE  /\ \E n \in Nat : DOMAIN r.redeemers = 1 .. n
         /\ \A i \in DOMAIN r.redeemers :
              /\ r.redeemers[i].tag \in {"spend", "mint"} /\ r.redeemers[i].input \in Nat
              /\ r.redeemers[i].index \in Nat /\ r.redeemers[i].deferred \in BOOLEAN
              /\ r.redeemers[i].tag = "spend" => r.redeemers[i].input \in Ids(r.pre)
         /\ \A i, j \in DOMAIN r.redeemers :
              /\ r.redeemers[i].tag = r.redeemers[j].tag
              /\ IF r.redeemers[i].tag = "spend" THEN r.redeemers[i].input = r.redeemers[j].input
                 ELSE r.redeemers[i].index = r.redeemers[j].index
              => i = j
<1> DEFINE R == [tag : {"spend", "mint"}, input : Nat, index : Nat, deferred : BOOLEAN]
           rs == r.redeemers
<1>1. rs \in Seq(R)
  BY RequestsAssumption
<1>2. DOMAIN rs = 1 .. Len(rs) /\ Len(rs) \in Nat
  BY <1>1
<1>3. \A i \in DOMAIN rs : rs[i] \in R
  <2> HIDE DEF R
  <2> QED BY <1>1, <1>2, ElementOfSeq
<1>4. \A i \in DOMAIN rs : rs[i].tag = "spend" => rs[i].input \in Ids(r.pre)
  BY RequestsAssumption
<1>5. \A i, j \in DOMAIN rs :
        /\ rs[i].tag = rs[j].tag
        /\ IF rs[i].tag = "spend" THEN rs[i].input = rs[j].input ELSE rs[i].index = rs[j].index
        => i = j
  BY RequestsAssumption
<1>6. \A i \in DOMAIN rs : /\ rs[i].tag \in {"spend", "mint"} /\ rs[i].input \in Nat
                            /\ rs[i].index \in Nat /\ rs[i].deferred \in BOOLEAN
  BY <1>3
<1> QED BY <1>2, <1>4, <1>5, <1>6

LEMMA InitIInv == Init => IInv
<1> SUFFICES ASSUME Init PROVE IInv
  OBVIOUS
<1>1. /\ req \in Requests /\ pc = "collateral" /\ error = "none" /\ fee = req.fee
      /\ body = EmptyBody(req.outputs, req.fee) /\ selection = <<>> /\ change = <<>> /\ next = 1
  BY DEF Init
<1>2. req.fee \in Nat /\ req.outputs \in Seq(Bundle)
  BY <1>1, ContentsAssumption
<1>3. body \in Body /\ body.fee = fee
  BY <1>1, <1>2, EmptyBodyType DEF EmptyBody
<1>4. \A r \in DOMAIN req.redeemers :
        redeemers[r] = [tag |-> req.redeemers[r].tag, input |-> req.redeemers[r].input,
                    index |-> req.redeemers[r].index, deferred |-> req.redeemers[r].deferred,
                    data |-> NoData, size |-> 1, ex_units |-> 0]
  BY DEF Init
<1>5. \A r \in DOMAIN req.redeemers :
        /\ req.redeemers[r].tag \in {"spend", "mint"} /\ req.redeemers[r].input \in Nat
        /\ req.redeemers[r].index \in Nat /\ req.redeemers[r].deferred \in BOOLEAN
  BY <1>1, RequestRedeemers
<1>6. \A r \in DOMAIN req.redeemers : redeemers[r] \in Redeemer
  <2> SUFFICES ASSUME NEW r \in DOMAIN req.redeemers PROVE redeemers[r] \in Redeemer
    OBVIOUS
  <2> DEFINE q == req.redeemers[r]
  <2>1. q.tag \in {"spend", "mint"} /\ q.input \in Nat /\ q.index \in Nat /\ q.deferred \in BOOLEAN
    BY <1>5
  <2>2. redeemers[r] = [tag |-> q.tag, input |-> q.input, index |-> q.index, deferred |-> q.deferred,
                        data |-> NoData, size |-> 1, ex_units |-> 0]
    BY <1>4
  <2> HIDE DEF q
  <2> QED BY <2>1, <2>2 DEF Redeemer
<1>7. redeemers \in [DOMAIN req.redeemers -> Redeemer]
  <2>1. redeemers = [r \in DOMAIN req.redeemers |-> redeemers[r]]
    BY DEF Init
  <2> QED BY <1>6, <2>1
<1>8. Kept
  <2> SUFFICES ASSUME NEW r \in DOMAIN req.redeemers
               PROVE  /\ redeemers[r].tag = req.redeemers[r].tag
                      /\ redeemers[r].input = req.redeemers[r].input
                      /\ redeemers[r].deferred = req.redeemers[r].deferred
                      /\ redeemers[r].index = req.redeemers[r].index
    BY DEF Kept
  <2> DEFINE q == req.redeemers[r]
  <2>1. redeemers[r] = [tag |-> q.tag, input |-> q.input, index |-> q.index, deferred |-> q.deferred,
                        data |-> NoData, size |-> 1, ex_units |-> 0]
    BY <1>4
  <2>2. /\ redeemers[r].tag = q.tag /\ redeemers[r].input = q.input
        /\ redeemers[r].deferred = q.deferred /\ redeemers[r].index = q.index
    <3> HIDE DEF q
    <3> QED BY <2>1
  <2> QED BY <2>2
<1>9. TypeOK
  BY <1>1, <1>2, <1>3, <1>7 DEF TypeOK, Body
<1> QED BY <1>1, <1>3, <1>8, <1>9 DEF IInv, Round, Backed, Picked, Placed, Resolved, Evaluated, Ended,
                                      HonestSelectorBalances

-----------------------------------------------------------------------------
(* Every step keeps the invariant.                                         *)

LEMMA TotalIsBundle ==
  ASSUME NEW us \in Seq(Utxo)
  PROVE  Total(us) \in Bundle
<1> DEFINE vs == [i \in DOMAIN us |-> us[i].val]
<1>1. DOMAIN us = 1 .. Len(us) /\ Len(us) \in Nat /\ \A i \in DOMAIN us : us[i] \in Utxo
  BY ElementOfSeq
<1>2. \A i \in DOMAIN us : us[i].val \in Bundle
  BY <1>1 DEF Utxo
<1>3. vs \in Seq(Bundle)
  <2> HIDE DEF Bundle
  <2> QED BY <1>1, <1>2
<1> HIDE DEF vs
<1> QED BY <1>3, SumOfBundles DEF Total, vs

\* A call that gives up leaves nothing to keep but the types and the fee.
LEMMA GivingUp ==
  ASSUME IInv, pc' = "failed", UNCHANGED <<req, fee, redeemers, selection, change>>,
         body' \in Body, body'.fee = body.fee, next' \in Nat, next' # 0,
         error' \in {"collateral", "selection", "min_ada", "deferred", "no_evaluator",
                     "evaluation", "unbalanced"},
         req.honest => error' \notin {"unbalanced", "min_ada"}
  PROVE  IInv'
<1>1. TypeOK'
  BY DEF IInv, TypeOK, Body
<1>2. Kept'
  BY DEF IInv, Kept
<1>3. Round'
  BY DEF IInv, Round
<1>4. Resolved'
  BY DEF Resolved
<1>5. HonestSelectorBalances'
  BY DEF HonestSelectorBalances
<1> QED BY <1>1, <1>2, <1>3, <1>4, <1>5 DEF IInv, Backed, Picked, Placed, Evaluated, Ended

LEMMA SkippedCollateral ==
  ASSUME IInv, SkipCollateral
  PROVE  IInv'
<1>1. pc = "collateral" /\ pc' = "select" /\ ~NeedsCollateral
      /\ UNCHANGED <<req, error, fee, body, redeemers, selection, change, next>>
  BY DEF SkipCollateral
<1>2. TypeOK' /\ Kept' /\ HonestSelectorBalances'
  BY <1>1 DEF IInv, TypeOK, Kept, HonestSelectorBalances
<1>3. Round'
  BY <1>1 DEF IInv, Round, EmptyBody
<1>4. Backed'
  BY <1>1 DEF Backed, NeedsCollateral
<1>5. Resolved'
  BY <1>1 DEF IInv, Resolved
<1> QED BY <1>1, <1>2, <1>3, <1>4, <1>5 DEF IInv, Picked, Placed, Evaluated, Ended

LEMMA CollateralAmount ==
  ASSUME NEW f \in Nat
  PROVE  /\ calculate_collateral_amount(f) \in Nat
         /\ calculate_collateral_amount(f) * 100 >= f * CollateralPercentage
<1>1. CollateralPercentage \in Nat /\ DefaultCollateral \in Nat
  BY CostsAssumption
<1>2. CASE f = 0 \/ CollateralPercentage = 0
  <2>1. f * CollateralPercentage = 0
    BY <1>1, <1>2
  <2> QED BY <1>1, <1>2, <2>1 DEF calculate_collateral_amount
<1>3. CASE ~(f = 0 \/ CollateralPercentage = 0)
  <2> DEFINE x == f * CollateralPercentage
  <2>1. x \in Nat
    BY <1>1
  <2>2. calculate_collateral_amount(f) = (x + 99) \div 100
    BY <1>3 DEF calculate_collateral_amount
  <2> HIDE DEF x
  <2>3. (x + 99) \div 100 \in Nat /\ ((x + 99) \div 100) * 100 >= x
    BY <2>1
  <2> QED BY <2>2, <2>3 DEF x
<1> QED BY <1>2, <1>3

\* What an answer of the collateral selector leaves over the amount.
LEMMA CollateralRest ==
  ASSUME NEW v \in Bundle, NEW n \in Nat, NEW rest,
         rest = value_subtract(v, WithCoin(ZeroValue, n)), rest[Ada] >= 0
  PROVE  /\ rest \in Bundle
         /\ v = value_add(rest, WithCoin(ZeroValue, n))
<1> DEFINE w == WithCoin(ZeroValue, n)
<1>1. w \in [Tokens -> Nat] /\ w[Ada] = n /\ \A t \in Tokens : t # Ada => w[t] = 0
  BY TokensAreNat DEF WithCoin, ZeroValue
<1>2. rest = [t \in Tokens |-> v[t] - w[t]]
  BY DEF value_subtract
<1> HIDE DEF w
<1>3. \A t \in Tokens : v[t] \in Nat
  BY DEF Bundle
<1>4. ASSUME NEW t \in Tokens PROVE rest[t] \in Nat /\ v[t] = rest[t] + w[t]
  <2>1. rest[t] = v[t] - w[t] /\ v[t] \in Nat /\ w[t] \in Nat
    BY <1>1, <1>2, <1>3
  <2>2. CASE t = Ada
    BY <2>1, <2>2
  <2>3. CASE t # Ada
    BY <1>1, <2>1, <2>3
  <2> QED BY <2>2, <2>3
<1>5. rest \in Bundle
  BY <1>2, <1>4 DEF Bundle
<1>6. v = [t \in Tokens |-> rest[t] + w[t]]
  BY <1>4 DEF Bundle
<1> QED BY <1>5, <1>6 DEF value_add, w

-----------------------------------------------------------------------------
(* Collateral.                                                             *)

\* The fields of a body.
IsBody(b, inputs, outputs, f, collateral, collateral_return, total_collateral) ==
  /\ b.inputs = inputs /\ b.outputs = outputs /\ b.fee = f /\ b.collateral = collateral
  /\ b.collateral_return = collateral_return /\ b.total_collateral = total_collateral
  /\ inputs \in Seq(Nat) /\ outputs \in Seq(Bundle) /\ f \in Nat /\ collateral \in Seq(Nat)
       /\ collateral_return \in Seq(Bundle) /\ total_collateral \in Nat => b \in Body

LEMMA BodyFields ==
  ASSUME NEW i, NEW o, NEW f, NEW c, NEW u, NEW t
  PROVE  IsBody([inputs |-> i, outputs |-> o, fee |-> f, collateral |-> c, collateral_return |-> u,
                 total_collateral |-> t], i, o, f, c, u, t)
  BY DEF IsBody, Body

CollateralIn(b, r, f, amount) ==
  /\ b \in Body /\ b.fee = f /\ b.outputs = r.outputs /\ b.total_collateral = amount
  /\ Total(Chosen(r.collateral_utxo, {b.collateral[i] : i \in DOMAIN b.collateral}))
       = value_add(SumValues(b.collateral_return), WithCoin(ZeroValue, amount))
  /\ \A i \in DOMAIN b.collateral_return :
       b.collateral_return[i][Ada] >= compute_min_ada_required(b.collateral_return[i])

CollateralBody(b, us, amount, rest) ==
  [b EXCEPT !.collateral = [i \in DOMAIN us |-> us[i].id],
            !.total_collateral = amount,
            !.collateral_return = IF rest = ZeroValue THEN @ ELSE <<rest>>]

\* The collateral answer, laid out in the body of a new round.
LEMMA CollateralLaidOut ==
  ASSUME NEW r \in Requests, NEW f \in Nat, NEW ids \in SUBSET Ids(r.collateral_utxo),
         NEW us, us = Chosen(r.collateral_utxo, ids), NEW amount \in Nat,
         NEW rest, rest = value_subtract(Total(us), WithCoin(ZeroValue, amount)),
         rest[Ada] >= 0, rest = ZeroValue \/ rest[Ada] >= compute_min_ada_required(rest),
         NEW b, b = CollateralBody(EmptyBody(r.outputs, f), us, amount, rest)
  PROVE  CollateralIn(b, r, f, amount)
<1> DEFINE ins == [i \in DOMAIN us |-> us[i].id]
           ret == IF rest = ZeroValue THEN <<>> ELSE <<rest>>
<1>1. r.collateral_utxo \in Seq(Utxo)
  BY LedgerProperties
<1>2. IsChosen(us, r.collateral_utxo, ids)
  BY <1>1, ChosenProperties
<1>3. us \in Seq(Utxo) /\ Ids(us) = ids
  BY <1>2 DEF IsChosen
<1>4. Total(us) \in Bundle
  BY <1>3, TotalIsBundle
<1>5. rest \in Bundle /\ Total(us) = value_add(rest, WithCoin(ZeroValue, amount))
  BY <1>4, CollateralRest
<1>6. ins \in Seq(Nat)
  <2>1. DOMAIN us = 1 .. Len(us) /\ Len(us) \in Nat /\ \A i \in DOMAIN us : us[i] \in Utxo
    BY <1>3, ElementOfSeq
  <2>2. \A i \in DOMAIN us : us[i].id \in Nat
    BY <2>1 DEF Utxo
  <2> QED BY <2>1, <2>2
<1>7. {ins[i] : i \in DOMAIN ins} = ids
  BY <1>3 DEF Ids
<1>8. ret \in Seq(Bundle)
  <2> HIDE DEF Bundle
  <2> QED BY <1>5
<1>9. SumValues(ret) = rest
  <2>1. rest \in Value
    BY <1>5, ValueArithmetic
  <2> QED BY <2>1, SumEmpty, SumSingle
<1>10. \A i \in DOMAIN ret : ret[i][Ada] >= compute_min_ada_required(ret[i])
  <2>1. CASE rest = ZeroValue
    BY <2>1
  <2>2. CASE rest # ZeroValue
    <3>1. DOMAIN ret = {1} /\ ret[1] = rest
      BY <2>2
    <3> QED BY <2>2, <3>1
  <2> QED BY <2>1, <2>2
<1> HIDE DEF ins, ret
<1>11. b = [inputs |-> <<>>, outputs |-> r.outputs, fee |-> f, collateral |-> ins,
            collateral_return |-> ret, total_collateral |-> amount]
  BY DEF EmptyBody, CollateralBody, ins, ret
<1>12. r.outputs \in Seq(Bundle) /\ <<>> \in Seq(Nat)
  BY EmptyBodyType
<1>14. IsBody(b, <<>>, r.outputs, f, ins, ret, amount)
  BY <1>11, BodyFields, Zenon
<1>16. b \in Body
  BY <1>6, <1>8, <1>12, <1>14, Zenon DEF IsBody
<1>13. /\ b.fee = f /\ b.outputs = r.outputs /\ b.total_collateral = amount
       /\ b.collateral = ins /\ b.collateral_return = ret
  BY <1>14, Zenon DEF IsBody
<1>15. Total(Chosen(r.collateral_utxo, {b.collateral[i] : i \in DOMAIN b.collateral}))
         = value_add(SumValues(b.collateral_return), WithCoin(ZeroValue, amount))
  BY <1>5, <1>7, <1>9, <1>13
<1> QED BY <1>10, <1>13, <1>15, <1>16, Zenon DEF CollateralIn

LEMMA TakenCollateral ==
  ASSUME IInv, SetCollateral
  PROVE  IInv'
<1> DEFINE amount == calculate_collateral_amount(body.fee)
<1>1. /\ pc = "collateral" /\ NeedsCollateral
      /\ UNCHANGED <<req, fee, redeemers, selection, change, next>>
  BY DEF SetCollateral
<1>2. /\ req \in Requests /\ fee \in Nat /\ next \in Nat /\ next # 0 /\ body.fee = fee
      /\ body = EmptyBody(req.outputs, fee)
  BY <1>1 DEF IInv, TypeOK, Round, Resolved
<1>3. amount \in Nat /\ amount * 100 >= fee * CollateralPercentage
  BY <1>2, CollateralAmount
<1>4. CASE Fail("collateral") /\ UNCHANGED body
  <2>1. pc' = "failed" /\ error' = "collateral" /\ body' = body
    BY <1>4 DEF Fail
  <2>2. body \in Body
    BY DEF IInv, TypeOK, Body
  <2> QED BY <1>1, <1>2, <2>1, <2>2, GivingUp
<1>5. ASSUME NEW us \in CollateralAnswers(amount),
             LET rest == value_subtract(Total(us), WithCoin(ZeroValue, amount))
             IN /\ body' = [body EXCEPT !.collateral = [i \in DOMAIN us |-> us[i].id],
                                        !.total_collateral = amount,
                                        !.collateral_return = IF rest = ZeroValue THEN @ ELSE <<rest>>]
                /\ pc' = "select"
                /\ UNCHANGED error
      PROVE  IInv'
  <2> DEFINE rest == value_subtract(Total(us), WithCoin(ZeroValue, amount))
  <2>1. PICK ids \in SUBSET Ids(req.collateral_utxo) : us = Chosen(req.collateral_utxo, ids)
    BY DEF CollateralAnswers
  <2>2. rest[Ada] >= 0 /\ (rest = ZeroValue \/ rest[Ada] >= compute_min_ada_required(rest))
    BY DEF CollateralAnswers
  <2>3. body' = CollateralBody(EmptyBody(req.outputs, fee), us, amount, rest)
    BY <1>2, <1>5, Zenon DEF CollateralBody
  <2>4. pc' = "select" /\ error' = error
    BY <1>5
  <2> HIDE DEF rest, amount
  <2>5. rest = value_subtract(Total(us), WithCoin(ZeroValue, amount))
    BY DEF rest
  <2>6. /\ body' \in Body /\ body'.fee = fee /\ body'.outputs = req.outputs
        /\ body'.total_collateral = amount
        /\ Total(Chosen(req.collateral_utxo, {body'.collateral[i] : i \in DOMAIN body'.collateral}))
              = value_add(SumValues(body'.collateral_return), WithCoin(ZeroValue, amount))
        /\ \A i \in DOMAIN body'.collateral_return :
              body'.collateral_return[i][Ada] >= compute_min_ada_required(body'.collateral_return[i])
    <3>1. CollateralIn(body', req, fee, amount)
      BY <1>2, <1>3, <2>1, <2>2, <2>3, <2>5, CollateralLaidOut, Zenon
    <3> QED BY <3>1, Zenon DEF CollateralIn
  <2>7. CollateralSound(body)'
    BY <1>1, <1>3, <2>6 DEF CollateralSound
  <2>8. TypeOK' /\ Kept' /\ HonestSelectorBalances'
    BY <1>1, <2>4, <2>6 DEF IInv, TypeOK, Kept, HonestSelectorBalances, Body
  <2>9. Round' /\ Resolved'
    BY <1>1, <1>2, <2>4, <2>6 DEF Round, Resolved
  <2> QED BY <2>4, <2>7, <2>8, <2>9 DEF IInv, Backed, Picked, Placed, Evaluated, Ended
<1> QED BY <1>4, <1>5 DEF SetCollateral

-----------------------------------------------------------------------------
(* Selection.                                                              *)

LEMMA ShortChange ==
  ASSUME NEW rest, NEW ch \in ChangeOutputs(rest) \cup WrongChange(rest),
         \A i \in DOMAIN ch : ch[i] \in Bundle
  PROVE  ch \in Seq(Bundle)
<1>1. \/ ch = <<>>
      \/ \E x : ch = <<x>>
      \/ \E x, y : ch = <<x, y>>
  BY Zenon DEF ChangeOutputs, WrongChange
<1>2. CASE ch = <<>>
  BY <1>2
<1>3. CASE \E x : ch = <<x>>
  <2>1. PICK x : ch = <<x>>
    BY <1>3
  <2>2. DOMAIN ch = {1} /\ ch[1] = x
    BY <2>1
  <2>3. x \in Bundle
    BY <2>2
  <2> HIDE DEF Bundle
  <2> QED BY <2>1, <2>3
<1>4. CASE \E x, y : ch = <<x, y>>
  <2>1. PICK x, y : ch = <<x, y>>
    BY <1>4
  <2>2. 1 \in DOMAIN ch /\ 2 \in DOMAIN ch /\ ch[1] = x /\ ch[2] = y
    BY <2>1
  <2>3. x \in Bundle /\ y \in Bundle
    BY <2>2
  <2> HIDE DEF Bundle
  <2> QED BY <2>1, <2>3
<1> QED BY <1>1, <1>2, <1>3, <1>4

LEMMA Selected ==
  ASSUME IInv, SelectCoins
  PROVE  IInv'
<1>1. /\ pc = "select" /\ pc' = "inputs"
      /\ UNCHANGED <<req, error, fee, body, redeemers, next>>
  BY DEF SelectCoins
<1>2. PICK ids \in SUBSET Ids(Candidates) :
        LET sel  == Chosen(Candidates, ids)
            rest == value_subtract(Total(sel), Target)
        IN \E ch \in ChangeOutputs(rest) \cup (IF req.honest THEN {} ELSE WrongChange(rest)) :
             /\ IF req.honest THEN HonestAnswer(sel, ch) ELSE WrongAnswer(sel, ch)
             /\ \A i \in DOMAIN ch : ch[i] \in Bundle
             /\ selection' = sel
             /\ change' = ch
  BY DEF SelectCoins
<1> DEFINE sel == Chosen(Candidates, ids)
           rest == value_subtract(Total(sel), Target)
<1>3. /\ change' \in ChangeOutputs(rest) \cup WrongChange(rest)
      /\ IF req.honest THEN HonestAnswer(sel, change') ELSE WrongAnswer(sel, change')
      /\ \A i \in DOMAIN change' : change'[i] \in Bundle
      /\ selection' = sel
  BY <1>2
<1>4. req \in Requests /\ fee \in Nat /\ body.outputs = req.outputs
  BY <1>1 DEF IInv, TypeOK, Round
<1>5. Candidates \in Seq(Utxo)
  BY <1>4, LedgerProperties DEF Candidates
<1>6. sel \in Seq(Utxo) /\ Ids(sel) = ids
  BY <1>5, ChosenProperties DEF IsChosen
<1> HIDE DEF rest
<1>7. change' \in Seq(Bundle)
  BY <1>3, ShortChange
<1>8. Ids(req.pre) \subseteq ids
  BY <1>3, <1>6 DEF HonestAnswer, WrongAnswer
<1>9. Target = RoundTarget
  BY <1>4 DEF Target, RoundTarget
<1>10. req.honest => LocallyBalanced(sel, change', RoundTarget) /\ ChangeCompliant(change')
  BY <1>3, <1>9 DEF HonestAnswer
<1>11. Candidates' = Candidates /\ RoundTarget' = RoundTarget
  BY <1>1 DEF Candidates, RoundTarget
<1> HIDE DEF sel
<1>12. selection' \in Seq(Utxo)
  BY <1>3, <1>6
<1>13. TypeOK' /\ Kept' /\ HonestSelectorBalances'
  BY <1>1, <1>7, <1>12 DEF IInv, TypeOK, Kept, HonestSelectorBalances
<1>14. Round' /\ Resolved'
  BY <1>1 DEF IInv, Round, Resolved
<1>15. Backed'
  BY <1>1 DEF IInv, Backed, NeedsCollateral, CollateralSound
<1>16. Picked'
  <2>1. SelectionOf(ids)'
    BY <1>1, <1>3, <1>8, <1>11 DEF SelectionOf, sel
  <2>2. (req.honest => LocallyBalanced(selection, change, RoundTarget) /\ ChangeCompliant(change))'
    BY <1>1, <1>3, <1>10, <1>11
  <2> QED BY <1>11, <2>1, <2>2 DEF Picked
<1> QED BY <1>1, <1>13, <1>14, <1>15, <1>16 DEF IInv, Placed, Evaluated, Ended

LEMMA NotSelected ==
  ASSUME IInv, SelectorFails
  PROVE  IInv'
<1>1. /\ pc' = "failed" /\ error' = "selection"
      /\ UNCHANGED <<req, fee, body, redeemers, selection, change, next>>
  BY DEF SelectorFails, Fail
<1>2. body \in Body /\ next \in Nat /\ next # 0
  BY DEF IInv, TypeOK, Body, Resolved
<1> QED BY <1>1, <1>2, GivingUp

-----------------------------------------------------------------------------
(* Inputs and the redeemers that point at them.                            *)

\* Two redeemers that differ in what balancing sets.
SameItem(p, q) == p.tag = q.tag /\ p.input = q.input /\ p.deferred = q.deferred

Reindexed(p, q, n) == p \in Redeemer /\ SameItem(p, q) /\ p.index = n
Charged(p, q, n) ==
  /\ p \in Redeemer /\ SameItem(p, q) /\ p.index = q.index /\ p.ex_units = n
  /\ p.data = q.data /\ p.size = q.size
Filled(p, q, d) == p \in Redeemer /\ SameItem(p, q) /\ p.index = q.index /\ p.data = d

LEMMA RedeemerUpdates ==
  ASSUME NEW q \in Redeemer, NEW n \in Nat,
         NEW d \in {NoData} \cup (Seq(Nat) \X Seq(Bundle) \X Nat)
  PROVE  /\ Reindexed([q EXCEPT !.index = n], q, n)
         /\ Charged([q EXCEPT !.ex_units = n], q, n)
         /\ Filled([q EXCEPT !.data = d, !.size = n], q, d)
<1> DEFINE D == {NoData} \cup (Seq(Nat) \X Seq(Bundle) \X Nat)
<1>1. /\ q = [tag |-> q.tag, input |-> q.input, index |-> q.index, deferred |-> q.deferred,
              data |-> q.data, size |-> q.size, ex_units |-> q.ex_units]
      /\ q.tag \in {"spend", "mint"} /\ q.input \in Nat /\ q.index \in Nat /\ q.deferred \in BOOLEAN
      /\ q.data \in D /\ q.size \in Nat /\ q.ex_units \in Nat
  <2> HIDE DEF D
  <2>1. Redeemer = [tag : {"spend", "mint"}, input : Nat, index : Nat, deferred : BOOLEAN,
                    data : D, size : Nat, ex_units : Nat]
    BY DEF Redeemer, D
  <2> QED BY <2>1
<1>2. Redeemer = [tag : {"spend", "mint"}, input : Nat, index : Nat, deferred : BOOLEAN,
                  data : D, size : Nat, ex_units : Nat]
  BY DEF Redeemer
<1> HIDE DEF D
<1>3. d \in D
  BY DEF D
<1>4. Reindexed([q EXCEPT !.index = n], q, n)
  BY <1>1, <1>2 DEF SameItem, Reindexed
<1>5. Charged([q EXCEPT !.ex_units = n], q, n)
  BY <1>1, <1>2 DEF SameItem, Charged
<1>6. Filled([q EXCEPT !.data = d, !.size = n], q, d)
  BY <1>1, <1>2, <1>3 DEF SameItem, Filled
<1> QED BY <1>4, <1>5, <1>6

\* What the aligned redeemer of an item is.
AlignedWith(q, p, s) ==
  /\ q \in Redeemer /\ SameItem(q, p)
  /\ p.tag = "mint" => q.index = p.index
  /\ p.tag = "spend" => q.index + 1 \in DOMAIN s /\ s[q.index + 1] = p.input

LEMMA AlignedProperties ==
  ASSUME TypeOK, Kept, NEW s \in Seq(Nat),
         \A r \in DOMAIN req.redeemers :
           redeemers[r].tag = "spend" => \E i \in DOMAIN s : s[i] = redeemers[r].input,
         NEW r \in DOMAIN req.redeemers
  PROVE  AlignedWith(Aligned(s, 1)[r], redeemers[r], s)
<1> DEFINE p == redeemers[r]
           q == Aligned(s, 1)[r]
           Has(i) == r \in MapGet(s[i])
           at == CHOOSE i \in DOMAIN s : Has(i)
<1>1. req \in Requests /\ redeemers \in [DOMAIN req.redeemers -> Redeemer] /\ p \in Redeemer
  BY DEF TypeOK
<1>2. p.tag \in {"spend", "mint"} /\ NoData \in {NoData} \cup (Seq(Nat) \X Seq(Bundle) \X Nat)
  BY <1>1 DEF Redeemer
<1>3. q = IF \E i \in DOMAIN s : Has(i) THEN [p EXCEPT !.index = at - 1] ELSE p
  BY <1>1 DEF Aligned
<1>4. ASSUME NEW i \in DOMAIN s, Has(i) PROVE p.tag = "spend" /\ p.input = s[i]
  BY <1>4 DEF MapGet
<1>5. ASSUME NEW i \in DOMAIN s, p.tag = "spend", p.input = s[i] PROVE Has(i)
  <2>1. ASSUME NEW k \in DOMAIN redeemers, redeemers[k].tag = "spend", redeemers[k].input = s[i]
        PROVE  k = r
    <3>1. /\ req.redeemers[k].tag = req.redeemers[r].tag /\ req.redeemers[r].tag = "spend"
          /\ req.redeemers[k].input = req.redeemers[r].input /\ k \in DOMAIN req.redeemers
      BY <1>1, <1>5, <2>1 DEF Kept
    <3> QED BY <1>1, <3>1, RequestRedeemers
  <2>2. r <= r
    <3>1. PICK n \in Nat : DOMAIN req.redeemers = 1 .. n
      BY <1>1, RequestRedeemers
    <3> QED BY <3>1
  <2>3. \A k \in DOMAIN redeemers :
          redeemers[k].tag = "spend" /\ redeemers[k].input = s[i] => r <= k
    BY <2>1, <2>2
  <2>4. r \in DOMAIN redeemers
    BY <1>1
  <2> QED BY <1>5, <2>3, <2>4 DEF MapGet
<1> HIDE DEF q, Has, p, at
<1>6. CASE p.tag = "mint"
  <2>1. q = p
    BY <1>3, <1>4, <1>6
  <2> QED BY <1>1, <1>6, <2>1, Zenon DEF AlignedWith, SameItem, p, q
<1>7. CASE p.tag = "spend"
  <2>1. \E i \in DOMAIN s : Has(i)
    BY <1>5, <1>7 DEF p
  <2>2. at \in DOMAIN s /\ Has(at)
    BY <2>1 DEF at
  <2>3. at \in Nat \ {0} /\ p.input = s[at]
    BY <1>4, <2>2
  <2> DEFINE n == at - 1
  <2>4. n \in Nat /\ n + 1 = at
    BY <2>3
  <2>5. q = [p EXCEPT !.index = n]
    BY <1>3, <2>1
  <2> HIDE DEF n
  <2>6. q \in Redeemer /\ SameItem(q, p) /\ q.index = n
    <3>1. Reindexed(q, p, n)
      BY <1>1, <1>2, <2>4, <2>5, RedeemerUpdates, Zenon
    <3> QED BY <3>1, Zenon DEF Reindexed
  <2>7. q.index + 1 \in DOMAIN s /\ s[q.index + 1] = p.input
    BY <2>2, <2>3, <2>4, <2>6
  <2>8. p.tag # "mint"
    BY <1>7
  <2> QED BY <2>6, <2>7, <2>8, Zenon DEF AlignedWith, p, q
<1> QED BY <1>2, <1>6, <1>7 DEF p

\* The inputs of the body once they are placed: one for each selected UTXO.
LEMMA SelectedIdsProperties ==
  ASSUME req \in Requests, NEW ids \in SUBSET Ids(Candidates), SelectionOf(ids)
  PROVE  /\ SelectedIds = Ascending(ids) /\ SelectedIds \in Seq(Nat)
         /\ {SelectedIds[i] : i \in DOMAIN SelectedIds} = ids
<1>1. Candidates \in Seq(Utxo)
  BY LedgerProperties DEF Candidates
<1>2. IsChosen(selection, Candidates, ids) /\ IsAscending(Ascending(ids), ids)
  BY <1>1, ChosenProperties DEF SelectionOf
<1>3. SelectedIds = Ascending(ids)
  BY <1>2 DEF IsChosen, SelectedIds
<1>4. Ids(Candidates) \in SUBSET Nat
  BY <1>1, ListIds
<1>5. SelectedIds \in Seq(ids) /\ {SelectedIds[i] : i \in DOMAIN SelectedIds} = ids
  BY <1>2, <1>3 DEF IsAscending
<1>6. Seq(ids) \subseteq Seq(Nat)
  BY <1>4
<1> QED BY <1>3, <1>5, <1>6

LEMMA InputsPlaced ==
  ASSUME IInv, SetTransactionInputs
  PROVE  IInv'
<1> DEFINE s == SelectedIds
           D == DOMAIN req.redeemers
<1>1. /\ pc = "inputs" /\ pc' = "change"
      /\ body' = [body EXCEPT !.inputs = s] /\ redeemers' = Aligned(s, 1)
      /\ UNCHANGED <<req, error, fee, selection, change, next>>
  BY DEF SetTransactionInputs, PlaceInputs
<1>2. req \in Requests /\ body \in Body /\ redeemers \in [D -> Redeemer] /\ Kept /\ TypeOK
  BY DEF IInv, TypeOK, Body
<1>3. PICK ids \in SUBSET Ids(Candidates) : SelectionOf(ids)
  BY <1>1 DEF IInv, Picked
<1>4. s \in Seq(Nat) /\ {s[i] : i \in DOMAIN s} = ids
  BY <1>2, <1>3, SelectedIdsProperties
<1>5. \A r \in D : redeemers[r].tag = "spend" => \E i \in DOMAIN s : s[i] = redeemers[r].input
  <2> SUFFICES ASSUME NEW r \in D, redeemers[r].tag = "spend" PROVE redeemers[r].input \in ids
    BY <1>4
  <2>1. req.redeemers[r].tag = "spend" /\ redeemers[r].input = req.redeemers[r].input
    BY <1>2 DEF Kept
  <2>2. req.redeemers[r].input \in Ids(req.pre)
    BY <1>2, <2>1, RequestRedeemers
  <2> QED BY <1>3, <2>1, <2>2 DEF SelectionOf
<1> HIDE DEF s
<1>6. \A r \in D : AlignedWith(redeemers'[r], redeemers[r], s)
  BY <1>1, <1>2, <1>4, <1>5, AlignedProperties
<1>7. redeemers' \in [D -> Redeemer]
  <2>1. redeemers' = [r \in D |-> redeemers'[r]]
    BY <1>1, <1>2 DEF Aligned
  <2>2. \A r \in D : redeemers'[r] \in Redeemer
    BY <1>6 DEF AlignedWith
  <2> QED BY <2>1, <2>2
<1>8. /\ body' \in Body /\ body'.fee = body.fee /\ body'.outputs = body.outputs /\ body'.inputs = s
      /\ body'.collateral = body.collateral /\ body'.collateral_return = body.collateral_return
      /\ body'.total_collateral = body.total_collateral
  BY <1>1, <1>2, <1>4 DEF Body
<1>9. Kept'
  <2> SUFFICES ASSUME NEW r \in D
               PROVE  /\ redeemers'[r].tag = req.redeemers[r].tag
                      /\ redeemers'[r].input = req.redeemers[r].input
                      /\ redeemers'[r].deferred = req.redeemers[r].deferred
                      /\ redeemers'[r].tag = "mint" => redeemers'[r].index = req.redeemers[r].index
    BY <1>1 DEF Kept
  <2> QED BY <1>2, <1>6 DEF Kept, AlignedWith, SameItem
<1>10. Placed'
  <2>1. SelectedIds' = s
    BY <1>1 DEF SelectedIds, s
  <2>2. ASSUME NEW r \in D, redeemers'[r].tag = "spend" PROVE PointsAtInput(r)'
    <3>1. /\ redeemers[r].tag = "spend" /\ redeemers'[r].input = redeemers[r].input
          /\ redeemers'[r].index + 1 \in DOMAIN s /\ s[redeemers'[r].index + 1] = redeemers[r].input
      BY <1>6, <2>2 DEF AlignedWith, SameItem
    <3> QED BY <1>8, <3>1 DEF PointsAtInput
  <2> QED BY <1>1, <1>8, <2>1, <2>2 DEF Placed
<1>11. TypeOK' /\ HonestSelectorBalances' /\ Resolved'
  BY <1>1, <1>7, <1>8 DEF IInv, TypeOK, HonestSelectorBalances, Resolved, Body
<1>12. Round'
  BY <1>1, <1>8 DEF IInv, Round
<1>13. Backed'
  <2>1. NeedsCollateral' => NeedsCollateral
    BY <1>1, <1>2, <1>7 DEF NeedsCollateral
  <2>2. CollateralSound(body) => CollateralSound(body)'
    BY <1>1, <1>8 DEF CollateralSound
  <2> QED BY <1>1, <2>1, <2>2 DEF IInv, Backed
<1>14. Picked'
  BY <1>1 DEF IInv, Picked, SelectionOf, Candidates, RoundTarget
<1> QED BY <1>1, <1>9, <1>10, <1>11, <1>12, <1>13, <1>14 DEF IInv, Evaluated, Ended

-----------------------------------------------------------------------------
(* Change and the deferred redeemers.                                      *)

LEMMA DeferredAreListed ==
  ASSUME TypeOK
  PROVE  IsAscending(DeferredRedeemers, {r \in DOMAIN req.redeemers : redeemers[r].deferred})
<1> DEFINE D == DOMAIN req.redeemers
           S == {r \in D : redeemers[r].deferred}
<1>1. req \in Requests /\ DOMAIN redeemers = D
  BY DEF TypeOK
<1>2. PICK n \in Nat : D = 1 .. n
  BY <1>1, RequestRedeemers
<1>3. IsFiniteSet(D) /\ D \in SUBSET Nat
  BY <1>2, FS_Interval
<1>4. IsFiniteSet(S) /\ S \in SUBSET Nat
  <2>1. S \in SUBSET D
    OBVIOUS
  <2> HIDE DEF S, D
  <2> QED BY <1>3, <2>1, FS_Subset
<1>5. DeferredRedeemers = Ascending(S)
  BY <1>1 DEF DeferredRedeemers
<1> HIDE DEF S
<1>6. IsAscending(Ascending(S), S)
  BY <1>4, AscendingProperties
<1> QED BY <1>5, <1>6 DEF S

LEMMA ChangeAdded ==
  ASSUME IInv, AddChangeOutputs
  PROVE  IInv'
<1> DEFINE poor == {i \in DOMAIN change : change[i][Ada] < compute_min_ada_required(change[i])}
           good == IF poor = {} THEN Len(change) ELSE Min(poor) - 1
<1>1. /\ pc = "change" /\ next' = 1
      /\ body' = [body EXCEPT !.outputs = @ \o SubSeq(change, 1, good)]
      /\ IF poor = {} THEN pc' = "resolve" /\ UNCHANGED error ELSE Fail("min_ada")
      /\ UNCHANGED <<req, fee, redeemers, selection, change>>
  BY DEF AddChangeOutputs
<1>2. /\ req \in Requests /\ body \in Body /\ change \in Seq(Bundle) /\ body.outputs = req.outputs
      /\ body.outputs \in Seq(Bundle) /\ TypeOK
  BY <1>1 DEF IInv, TypeOK, Body, Round
<1>3. req.honest => poor = {}
  <2> SUFFICES ASSUME req.honest, NEW i \in DOMAIN change
               PROVE  ~(change[i][Ada] < compute_min_ada_required(change[i]))
    OBVIOUS
  <2>1. change[i][Ada] >= compute_min_ada_required(change[i])
    BY <1>1 DEF IInv, Picked, ChangeCompliant
  <2>2. change[i] \in Bundle
    BY <1>2, ElementOfSeq
  <2>3. change[i][Ada] \in Nat /\ compute_min_ada_required(change[i]) \in Nat
    BY <2>2, MinAdaIsNat, TokensAreNat DEF Bundle
  <2> QED BY <2>1, <2>3
<1>4. CASE poor = {}
  <2>1. pc' = "resolve" /\ error' = error
    BY <1>1, <1>4
  <2>2. SubSeq(change, 1, good) = change
    <3>1. good = Len(change)
      BY <1>4
    <3> HIDE DEF Bundle, good
    <3> QED BY <1>2, <3>1
  <2> HIDE DEF poor, good
  <2>3. body' = [body EXCEPT !.outputs = body.outputs \o change]
    BY <1>1, <2>2
  <2>4. body.outputs \o change \in Seq(Bundle)
    BY <1>2, ConcatProperties
  <2> DEFINE o == body.outputs \o change
  <2>5. o = req.outputs \o change /\ o \in Seq(Bundle) /\ body' = [body EXCEPT !.outputs = o]
    BY <1>2, <2>3, <2>4
  <2> HIDE DEF o
  <2>6. /\ body' \in Body /\ body'.fee = body.fee /\ body'.outputs = o /\ body'.inputs = body.inputs
        /\ body'.collateral = body.collateral /\ body'.collateral_return = body.collateral_return
        /\ body'.total_collateral = body.total_collateral
    BY <1>2, <2>5 DEF Body
  <2>7. TypeOK' /\ Kept' /\ HonestSelectorBalances'
    BY <1>1, <2>1, <2>6 DEF IInv, TypeOK, Kept, HonestSelectorBalances, Body
  <2>8. Round'
    BY <1>1, <2>1, <2>5, <2>6 DEF IInv, Round
  <2>9. Backed'
    <3>1. CollateralSound(body) => CollateralSound(body)'
      BY <1>1, <2>6 DEF CollateralSound
    <3> QED BY <1>1, <2>1, <3>1 DEF IInv, Backed, NeedsCollateral
  <2>10. Picked' /\ Placed'
    BY <1>1, <2>1, <2>6 DEF IInv, Picked, SelectionOf, Candidates, RoundTarget, Placed, SelectedIds,
                            PointsAtInput
  <2>11. Resolved'
    <3>1. DOMAIN DeferredRedeemers' \in SUBSET (Nat \ {0})
      <4>1. IsAscending(DeferredRedeemers, {r \in DOMAIN req.redeemers : redeemers[r].deferred})
        BY <1>2, DeferredAreListed
      <4>2. DeferredRedeemers' = DeferredRedeemers
        BY <1>1 DEF DeferredRedeemers
      <4> QED BY <4>1, <4>2 DEF IsAscending
    <3> QED BY <1>1, <2>1, <3>1 DEF Resolved
  <2> QED BY <2>1, <2>7, <2>8, <2>9, <2>10, <2>11 DEF IInv, Evaluated, Ended
<1>5. CASE poor # {}
  <2>1. pc' = "failed" /\ error' = "min_ada" /\ ~req.honest
    BY <1>1, <1>3, <1>5 DEF Fail
  <2>2. SubSeq(change, 1, good) \in Seq(Bundle)
    <3>1. DOMAIN change = 1 .. Len(change) /\ Len(change) \in Nat
      BY <1>2
    <3>2. Min(poor) \in poor
      <4>1. poor \in SUBSET Nat
        BY <3>1
      <4> HIDE DEF poor
      <4> QED BY <1>5, <4>1, MinIsLeast
    <3>3. good \in 0 .. Len(change) /\ good \in Nat
      BY <1>5, <3>1, <3>2
    <3> HIDE DEF Bundle, good
    <3> QED BY <1>2, <3>1, <3>3
  <2> HIDE DEF poor, good
  <2> DEFINE o == body.outputs \o SubSeq(change, 1, good)
  <2>3. o \in Seq(Bundle) /\ body' = [body EXCEPT !.outputs = o]
    BY <1>1, <1>2, <2>2, ConcatProperties
  <2> HIDE DEF o
  <2>4. body' \in Body /\ body'.fee = body.fee
    BY <1>2, <2>3 DEF Body
  <2>5. 1 \in Nat /\ 1 # 0
    OBVIOUS
  <2> QED BY <1>1, <2>1, <2>4, <2>5, GivingUp
<1> QED BY <1>4, <1>5

\* The steps of the scripts leave the layout and the items of the redeemers alone.
LEMMA LayoutStays ==
  ASSUME IInv, pc \in {"resolve", "evaluate"}, pc' \in {"resolve", "evaluate", "fee"},
         UNCHANGED <<req, error, fee, body, selection, change>>, next' \in Nat,
         redeemers' \in [DOMAIN req.redeemers -> Redeemer],
         \A r \in DOMAIN req.redeemers :
           SameItem(redeemers'[r], redeemers[r]) /\ redeemers'[r].index = redeemers[r].index
  PROVE  /\ TypeOK' /\ Round' /\ Kept' /\ Backed' /\ Picked' /\ Placed' /\ Ended'
         /\ HonestSelectorBalances'
<1>1. TypeOK' /\ HonestSelectorBalances' /\ Round' /\ Ended'
  BY DEF IInv, TypeOK, HonestSelectorBalances, Round, Ended
<1>2. Kept'
  <2> SUFFICES ASSUME NEW r \in DOMAIN req.redeemers
               PROVE  /\ redeemers'[r].tag = req.redeemers[r].tag
                      /\ redeemers'[r].input = req.redeemers[r].input
                      /\ redeemers'[r].deferred = req.redeemers[r].deferred
                      /\ redeemers'[r].tag = "mint" => redeemers'[r].index = req.redeemers[r].index
    BY DEF Kept
  <2> QED BY DEF IInv, Kept, SameItem
<1>3. Backed'
  <2>1. NeedsCollateral' => NeedsCollateral
    <3>1. redeemers \in [DOMAIN req.redeemers -> Redeemer]
      BY DEF IInv, TypeOK
    <3> QED BY <3>1 DEF NeedsCollateral
  <2>2. CollateralSound(body) => CollateralSound(body)'
    BY DEF CollateralSound
  <2> QED BY <2>1, <2>2 DEF IInv, Backed
<1>4. Picked'
  BY DEF IInv, Picked, SelectionOf, Candidates, RoundTarget
<1>5. Placed'
  BY DEF IInv, Placed, SelectedIds, PointsAtInput, SameItem
<1> QED BY <1>1, <1>2, <1>3, <1>4, <1>5

LEMMA DeferredResolved ==
  ASSUME IInv, ResolveDeferred
  PROVE  IInv'
<1> DEFINE D == DOMAIN req.redeemers
           S == {r \in D : redeemers[r].deferred}
           list == DeferredRedeemers
           d == list[next]
<1>1. /\ pc = "resolve" /\ next \in DOMAIN list
      /\ UNCHANGED <<req, fee, body, selection, change>>
  BY DEF ResolveDeferred
<1>2. /\ req \in Requests /\ body \in Body /\ redeemers \in [D -> Redeemer] /\ next \in Nat /\ next # 0
      /\ \A i \in DOMAIN list : i < next => redeemers[list[i]].data = Layout
      /\ TypeOK
  BY <1>1 DEF IInv, TypeOK, Body, Resolved
<1>3. IsAscending(list, S)
  BY <1>2, DeferredAreListed
<1>4. \A i \in DOMAIN list : list[i] \in D /\ i \in Nat
  BY <1>3 DEF IsAscending
<1> HIDE DEF list
<1>5. CASE Fail("deferred") /\ UNCHANGED <<redeemers, next>>
  <2>1. /\ pc' = "failed" /\ error' = "deferred" /\ UNCHANGED <<req, fee, redeemers, selection, change>>
        /\ body' = body /\ next' = next
    BY <1>1, <1>5 DEF Fail
  <2> QED BY <1>2, <2>1, GivingUp
<1>6. CASE /\ redeemers' = [redeemers EXCEPT ![DeferredRedeemers[next]].data = Layout,
                                             ![DeferredRedeemers[next]].size = Len(body.inputs)]
           /\ next' = next + 1
           /\ UNCHANGED <<pc, error>>
  <2> DEFINE n == Len(body.inputs)
  <2>1. d \in D
    BY <1>1, <1>4
  <2>2. n \in Nat /\ Layout \in {NoData} \cup (Seq(Nat) \X Seq(Bundle) \X Nat)
    <3>1. body.inputs \in Seq(Nat) /\ body.outputs \in Seq(Bundle) /\ body.fee \in Nat
      BY <1>2 DEF Body
    <3> HIDE DEF Bundle
    <3> QED BY <3>1 DEF Layout
  <2>3. redeemers' = [redeemers EXCEPT ![d] = [redeemers[d] EXCEPT !.data = Layout, !.size = n]]
    BY <1>2, <1>6, <2>1 DEF list
  <2> HIDE DEF d, n
  <2>4. redeemers[d] \in Redeemer
    BY <1>2, <2>1
  <2>5. Filled([redeemers[d] EXCEPT !.data = Layout, !.size = n], redeemers[d], Layout)
    BY <2>2, <2>4, RedeemerUpdates, Zenon
  <2> DEFINE q == [redeemers[d] EXCEPT !.data = Layout, !.size = n]
  <2> HIDE DEF q
  <2>6. q \in Redeemer /\ SameItem(q, redeemers[d]) /\ q.index = redeemers[d].index /\ q.data = Layout
    BY <2>5, Zenon DEF Filled, q
  <2>7. redeemers' = [redeemers EXCEPT ![d] = q]
    BY <2>3 DEF q
  <2>8. redeemers' \in [D -> Redeemer] /\ redeemers'[d] = q /\ \A r \in D : r # d => redeemers'[r] = redeemers[r]
    BY <1>2, <2>1, <2>6, <2>7
  <2>9. \A r \in D : SameItem(redeemers'[r], redeemers[r]) /\ redeemers'[r].index = redeemers[r].index
    BY <2>6, <2>8 DEF SameItem
  <2>10. pc' = "resolve" /\ error' = error /\ next' \in Nat /\ next' # 0 /\ next' = next + 1
    BY <1>1, <1>2, <1>6
  <2>11. /\ TypeOK' /\ Round' /\ Kept' /\ Backed' /\ Picked' /\ Placed' /\ Ended'
         /\ HonestSelectorBalances'
    BY <1>1, <2>8, <2>9, <2>10, LayoutStays
  <2>12. DeferredRedeemers' = list
    <3>1. DOMAIN redeemers = D /\ DOMAIN redeemers' = D
      BY <1>2, <2>8
    <3>2. \A r \in D : redeemers'[r].deferred = redeemers[r].deferred
      BY <2>9 DEF SameItem
    <3>3. {r \in DOMAIN redeemers' : redeemers'[r].deferred} = {r \in DOMAIN redeemers : redeemers[r].deferred}
      BY <3>1, <3>2
    <3> QED BY <3>3 DEF DeferredRedeemers, list
  <2>13. \A i \in DOMAIN list : i < next + 1 => redeemers'[list[i]].data = Layout
    <3> SUFFICES ASSUME NEW i \in DOMAIN list, i < next + 1 PROVE redeemers'[list[i]].data = Layout
      OBVIOUS
    <3>1. CASE list[i] = d
      BY <2>6, <2>8, <3>1
    <3>2. CASE list[i] # d
      <4>1. i # next
        BY <3>2 DEF d
      <4>2. i < next
        BY <1>2, <1>4, <4>1
      <4> QED BY <1>2, <1>4, <2>8, <3>2, <4>2
    <3> QED BY <3>1, <3>2
  <2>14. Layout' = Layout
    BY <1>1 DEF Layout
  <2>15. Resolved'
    BY <2>10, <2>12, <2>13, <2>14 DEF Resolved
  <2> QED BY <2>10, <2>11, <2>15 DEF IInv, Evaluated
<1> QED BY <1>5, <1>6 DEF ResolveDeferred

LEMMA DeferredDone ==
  ASSUME IInv, AllResolved
  PROVE  IInv'
<1> DEFINE D == DOMAIN req.redeemers
           list == DeferredRedeemers
<1>1. /\ pc = "resolve" /\ next \notin DOMAIN list
      /\ UNCHANGED <<req, fee, body, redeemers, selection, change, next>>
  BY DEF AllResolved
<1>2. /\ req \in Requests /\ body \in Body /\ redeemers \in [D -> Redeemer] /\ next \in Nat /\ next # 0
      /\ \A i \in DOMAIN list : i < next => redeemers[list[i]].data = Layout
      /\ TypeOK
  BY <1>1 DEF IInv, TypeOK, Body, Resolved
<1>3. \A r \in D : redeemers[r].deferred => redeemers[r].data = Layout
  <2>1. IsAscending(list, {r \in D : redeemers[r].deferred})
    BY <1>2, DeferredAreListed
  <2> HIDE DEF list
  <2>2. \A i \in DOMAIN list : i < next
    BY <1>1, <1>2, <2>1 DEF IsAscending
  <2>3. \A r \in D : redeemers[r].deferred => \E i \in DOMAIN list : list[i] = r
    BY <2>1 DEF IsAscending
  <2> QED BY <1>2, <2>2, <2>3
<1>4. CASE pc' = "failed" /\ error' = "no_evaluator"
  BY <1>1, <1>2, <1>4, GivingUp
<1>5. CASE /\ pc' \in {"evaluate", "fee"} /\ UNCHANGED error
           /\ pc' = "fee" => redeemers = <<>>
  <2>1. \A r \in D : SameItem(redeemers'[r], redeemers[r]) /\ redeemers'[r].index = redeemers[r].index
    BY <1>1 DEF SameItem
  <2>2. redeemers' \in [D -> Redeemer] /\ next' \in Nat
    BY <1>1, <1>2
  <2>3. /\ TypeOK' /\ Round' /\ Kept' /\ Backed' /\ Picked' /\ Placed' /\ Ended'
        /\ HonestSelectorBalances'
    BY <1>1, <1>5, <2>1, <2>2, LayoutStays
  <2>4. Resolved'
    <3>1. Layout' = Layout
      BY <1>1 DEF Layout
    <3> QED BY <1>1, <1>2, <1>3, <1>5, <3>1 DEF Resolved
  <2>5. Evaluated'
    <3>1. pc' = "fee" => D = {}
      BY <1>2, <1>5
    <3> QED BY <1>1, <1>5, <3>1 DEF Evaluated
  <2> QED BY <2>3, <2>4, <2>5 DEF IInv
<1> QED BY <1>4, <1>5 DEF AllResolved, Fail

-----------------------------------------------------------------------------
(* Evaluation and the fee.                                                 *)

\* No two redeemers answer to the same tag and index once the inputs are placed.
LEMMA PlacesDiffer ==
  ASSUME IInv, pc = "evaluate", NEW q \in DOMAIN req.redeemers, NEW r \in DOMAIN req.redeemers,
         redeemers[q].tag = redeemers[r].tag, redeemers[q].index = redeemers[r].index
  PROVE  q = r
<1>1. req \in Requests /\ Kept
  BY DEF IInv, TypeOK
<1>2. /\ redeemers[q].tag = req.redeemers[q].tag /\ redeemers[r].tag = req.redeemers[r].tag
      /\ redeemers[q].input = req.redeemers[q].input /\ redeemers[r].input = req.redeemers[r].input
      /\ redeemers[q].tag = "mint" => redeemers[q].index = req.redeemers[q].index
      /\ redeemers[r].tag = "mint" => redeemers[r].index = req.redeemers[r].index
  BY <1>1 DEF Kept
<1>3. req.redeemers[r].tag \in {"spend", "mint"}
  BY <1>1, RequestRedeemers
<1>4. CASE req.redeemers[r].tag = "mint"
  <2>1. req.redeemers[q].tag = "mint" /\ req.redeemers[q].index = req.redeemers[r].index
    BY <1>2, <1>4
  <2> QED BY <1>1, <1>4, <2>1, RequestRedeemers
<1>5. CASE req.redeemers[r].tag = "spend"
  <2>1. PointsAtInput(q) /\ PointsAtInput(r)
    BY <1>2, <1>5 DEF IInv, Placed
  <2>2. redeemers[q].input = redeemers[r].input
    BY <2>1 DEF PointsAtInput
  <2>3. req.redeemers[q].tag = "spend" /\ req.redeemers[q].input = req.redeemers[r].input
    BY <1>2, <1>5, <2>2
  <2> QED BY <1>1, <1>5, <2>3, RequestRedeemers
<1> QED BY <1>3, <1>4, <1>5

LEMMA ScriptsEvaluated ==
  ASSUME IInv, Evaluate
  PROVE  IInv'
<1> DEFINE D == DOMAIN req.redeemers
           first(r) == Min({q \in DOMAIN redeemers : redeemers[q].tag = redeemers[r].tag
                                                   /\ redeemers[q].index = redeemers[r].index})
           set(q)   == {r \in DOMAIN redeemers : first(r) = q}
           charged == [q \in DOMAIN redeemers |->
                         IF set(q) = {} THEN redeemers[q]
                         ELSE [redeemers[q] EXCEPT !.ex_units = script_cost(Max(set(q)))]]
<1>1. pc = "evaluate" /\ UNCHANGED <<req, fee, body, selection, change, next>>
  BY DEF Evaluate
<1>2. /\ req \in Requests /\ body \in Body /\ redeemers \in [D -> Redeemer] /\ next \in Nat /\ next # 0
      /\ DOMAIN redeemers = D
  BY DEF IInv, TypeOK, Body, Resolved
<1>3. PICK n \in Nat : D = 1 .. n
  BY <1>2, RequestRedeemers
<1>4. (redeemers' = charged /\ pc' = "fee" /\ UNCHANGED error) \/ (Fail("evaluation") /\ UNCHANGED redeemers)
  BY DEF Evaluate
<1>5. CASE Fail("evaluation") /\ UNCHANGED redeemers
  <2>1. pc' = "failed" /\ error' = "evaluation" /\ body' = body /\ next' = next
        /\ UNCHANGED <<req, fee, redeemers, selection, change>>
    BY <1>1, <1>5 DEF Fail
  <2> QED BY <1>2, <2>1, GivingUp
<1>6. CASE redeemers' = charged /\ pc' = "fee" /\ UNCHANGED error
  <2>1. ASSUME NEW r \in D PROVE first(r) = r
    <3> DEFINE Q == {q \in DOMAIN redeemers : redeemers[q].tag = redeemers[r].tag
                                            /\ redeemers[q].index = redeemers[r].index}
    <3>1. \A q \in Q : q = r
      BY <1>1, <1>2, PlacesDiffer
    <3>2. r \in Q
      BY <1>2
    <3>3. Q \in SUBSET Nat /\ Q # {}
      BY <1>2, <1>3, <3>2
    <3> HIDE DEF Q
    <3>4. Min(Q) \in Q
      BY <3>3, MinIsLeast
    <3>5. Min(Q) = r
      BY <3>1, <3>4
    <3> QED BY <3>5 DEF Q
  <2> HIDE DEF first
  <2>2. ASSUME NEW r \in D PROVE set(r) = {r}
    BY <1>2, <2>1
  <2> HIDE DEF set
  <2>3. ASSUME NEW r \in D PROVE Max(set(r)) = r
    <3>1. {r} \in SUBSET (0 .. n) /\ {r} # {}
      BY <1>3
    <3>2. Max({r}) \in {r}
      BY <3>1, MaxIsGreatest
    <3> QED BY <2>2, <3>2
  <2>4. ASSUME NEW r \in D PROVE script_cost(r) \in Nat
    <3>1. Len(body.inputs) \in Nat /\ Len(body.outputs) \in Nat
      <4>1. body.inputs \in Seq(Nat) /\ body.outputs \in Seq(Bundle)
        BY <1>2 DEF Body
      <4> HIDE DEF Bundle
      <4> QED BY <4>1
    <3>2. redeemers[r].size \in Nat
      BY <1>2 DEF Redeemer
    <3>3. \A x, y, z \in Nat : x + y + z \in Nat
      OBVIOUS
    <3> QED BY <3>1, <3>2, <3>3, Zenon DEF script_cost
  <2>5. ASSUME NEW r \in D
        PROVE  Charged(redeemers'[r], redeemers[r], script_cost(r))
    <3>1. redeemers'[r] = [redeemers[r] EXCEPT !.ex_units = script_cost(r)]
      <4>1. set(r) # {} /\ Max(set(r)) = r
        BY <2>2, <2>3
      <4>2. redeemers'[r] = IF set(r) = {} THEN redeemers[r]
                            ELSE [redeemers[r] EXCEPT !.ex_units = script_cost(Max(set(r)))]
        BY <1>2, <1>6
      <4> QED BY <4>1, <4>2
    <3>2. redeemers[r] \in Redeemer /\ NoData \in {NoData} \cup (Seq(Nat) \X Seq(Bundle) \X Nat)
      BY <1>2
    <3> QED BY <2>4, <3>1, <3>2, RedeemerUpdates, Zenon
  <2>6. redeemers' \in [D -> Redeemer]
    <3>1. redeemers' = [r \in D |-> redeemers'[r]]
      BY <1>2, <1>6
    <3>2. \A r \in D : redeemers'[r] \in Redeemer
      BY <2>5 DEF Charged
    <3> HIDE DEF charged
    <3> QED BY <3>1, <3>2
  <2> HIDE DEF charged
  <2>7. \A r \in D : SameItem(redeemers'[r], redeemers[r]) /\ redeemers'[r].index = redeemers[r].index
    BY <2>5 DEF Charged
  <2>8. pc' = "fee" /\ error' = error /\ next' \in Nat
    BY <1>1, <1>2, <1>6
  <2>9. /\ TypeOK' /\ Round' /\ Kept' /\ Backed' /\ Picked' /\ Placed' /\ Ended'
        /\ HonestSelectorBalances'
    BY <1>1, <2>6, <2>7, <2>8, LayoutStays
  <2>10. Resolved'
    <3>1. \A r \in D : redeemers[r].deferred => redeemers[r].data = Layout
      BY <1>1 DEF IInv, Resolved
    <3>2. Layout' = Layout
      BY <1>1 DEF Layout
    <3>3. \A r \in D : redeemers'[r].deferred => redeemers'[r].data = Layout
      BY <2>5, <3>1 DEF Charged, SameItem
    <3> QED BY <1>1, <1>2, <2>8, <3>2, <3>3 DEF Resolved
  <2>11. Evaluated'
    <3>1. ASSUME NEW r \in D PROVE redeemers'[r].ex_units = script_cost(r)'
      <4>1. redeemers'[r].ex_units = script_cost(r) /\ redeemers'[r].size = redeemers[r].size
        BY <2>5 DEF Charged
      <4> QED BY <1>1, <4>1 DEF script_cost
    <3> QED BY <1>1, <2>8, <3>1 DEF Evaluated
  <2> QED BY <2>9, <2>10, <2>11 DEF IInv
<1> QED BY <1>4, <1>5, <1>6

LEMMA DraftIsTransaction ==
  ASSUME TypeOK
  PROVE  TransactionLike(Draft) /\ computed_fee \in Nat
<1>1. req \in Requests /\ body \in Body /\ redeemers \in [DOMAIN req.redeemers -> Redeemer]
  BY DEF TypeOK, Body
<1>2. /\ body.inputs \in Seq(Nat) /\ body.outputs \in Seq(Bundle) /\ body.fee \in Nat
      /\ body.collateral \in Seq(Nat) /\ body.collateral_return \in Seq(Bundle)
  BY <1>1 DEF Body
<1>3. \E n \in Nat : redeemers \in [1 .. n -> Redeemer]
  BY <1>1, RequestRedeemers
<1>4. /\ Draft.inputs = body.inputs /\ Draft.outputs = body.outputs /\ Draft.fee = body.fee
      /\ Draft.collateral = body.collateral /\ Draft.collateral_return = body.collateral_return
      /\ Draft.redeemers = redeemers
  BY DEF Draft
<1>5. TransactionLike(Draft)
  BY <1>2, <1>3, <1>4 DEF TransactionLike
<1> QED BY <1>1, <1>5, FeeIsNat DEF computed_fee

LEMMA FeeRaised ==
  ASSUME IInv, RaiseFee
  PROVE  IInv'
<1>1. /\ fee' = computed_fee /\ body' = EmptyBody(req.outputs, computed_fee)
      /\ selection' = <<>> /\ change' = <<>> /\ pc' = "collateral"
      /\ UNCHANGED <<req, error, redeemers, next>>
  BY DEF RaiseFee, Retry
<1>2. req \in Requests /\ TypeOK
  BY DEF IInv, TypeOK
<1>3. computed_fee \in Nat
  BY <1>2, DraftIsTransaction
<1> HIDE DEF computed_fee
<1>4. body' \in Body /\ body'.fee = computed_fee
  BY <1>1, <1>2, <1>3, EmptyBodyType DEF EmptyBody
<1>5. <<>> \in Seq(Utxo) /\ <<>> \in Seq(Bundle)
  OBVIOUS
<1>6. TypeOK'
  BY <1>1, <1>2, <1>3, <1>4, <1>5 DEF TypeOK, Body
<1>7. Kept' /\ HonestSelectorBalances' /\ Resolved'
  BY <1>1 DEF IInv, Kept, HonestSelectorBalances, Resolved
<1>8. Round'
  BY <1>1, <1>4 DEF Round
<1> QED BY <1>1, <1>6, <1>7, <1>8 DEF IInv, Backed, Picked, Placed, Evaluated, Ended

-----------------------------------------------------------------------------
(* The balance check and the step as a whole.                              *)

\* What the balance check compares.
BalanceOf(held, outs, own) ==
  value_subtract(value_subtract(outs, held), own) = ZeroValue

LEMMA BalanceMeaning ==
  ASSUME NEW held \in Value, NEW outs \in Value, NEW own \in Value
  PROVE  /\ BalanceOf(held, outs, own) => value_add(held, own) = outs
         /\ \A base, more \in Value :
              /\ outs = value_add(base, more)
              /\ held = value_add(value_subtract(base, own), more)
              => BalanceOf(held, outs, own)
<1>1. ASSUME BalanceOf(held, outs, own) PROVE value_add(held, own) = outs
  <2>1. \A t \in Tokens : (outs[t] - held[t]) - own[t] = 0
    <3>1. ASSUME NEW t \in Tokens
          PROVE  /\ value_subtract(value_subtract(outs, held), own)[t] = (outs[t] - held[t]) - own[t]
                 /\ ZeroValue[t] = 0
      BY DEF value_subtract, ZeroValue
    <3> QED BY <1>1, <3>1 DEF BalanceOf
  <2>2. \A t \in Tokens : held[t] + own[t] = outs[t]
    BY <2>1 DEF Value
  <2> QED BY <2>2 DEF value_add, Value
<1>2. ASSUME NEW base \in Value, NEW more \in Value, outs = value_add(base, more),
             held = value_add(value_subtract(base, own), more)
      PROVE  BalanceOf(held, outs, own)
  <2>1. ASSUME NEW t \in Tokens
        PROVE  value_subtract(value_subtract(outs, held), own)[t] = 0
    <3>1. base[t] \in Int /\ more[t] \in Int /\ own[t] \in Int
      BY DEF Value
    <3>2. outs[t] = base[t] + more[t] /\ held[t] = (base[t] - own[t]) + more[t]
      BY <1>2 DEF value_add, value_subtract
    <3>3. value_subtract(value_subtract(outs, held), own)[t] = (outs[t] - held[t]) - own[t]
      BY DEF value_subtract
    <3> QED BY <3>1, <3>2, <3>3
  <2>2. value_subtract(value_subtract(outs, held), own)
          = [t \in Tokens |-> value_subtract(value_subtract(outs, held), own)[t]]
    BY DEF value_subtract
  <2> QED BY <2>1, <2>2, Zenon DEF BalanceOf, ZeroValue
<1> QED BY <1>1, <1>2

\* The balance check of a body whose inputs are the selection.
LEMMA BalanceOfRound ==
  ASSUME IInv, pc \in {"fee", "done"}
  PROVE  /\ Total(selection) \in Value /\ SumValues(body.outputs) \in Value
         /\ implicit_value(req, fee) \in Value
         /\ Total(Chosen(Candidates, {body.inputs[i] : i \in DOMAIN body.inputs})) = Total(selection)
         /\ is_transaction_balanced(req, Draft, req.collateral_utxo \o req.pre \o selection)
              <=> BalanceOf(Total(selection), SumValues(body.outputs), implicit_value(req, fee))
<1> DEFINE resolved == req.collateral_utxo \o req.pre \o selection
           seen == [i \in DOMAIN body.inputs |-> ValueOf(resolved, body.inputs[i])]
<1>1. /\ req \in Requests /\ fee \in Nat /\ body.fee = fee /\ body \in Body /\ selection \in Seq(Utxo)
      /\ body.inputs = SelectedIds
  BY DEF IInv, TypeOK, Body, Round, Placed
<1>2. PICK ids \in SUBSET Ids(Candidates) : SelectionOf(ids)
  BY DEF IInv, Picked
<1>3. body.inputs = Ascending(ids) /\ {body.inputs[i] : i \in DOMAIN body.inputs} = ids
  BY <1>1, <1>2, SelectedIdsProperties
<1>4. selection = Chosen(Candidates, ids)
  BY <1>2 DEF SelectionOf
<1>5. SumValues(seen) = Total(selection)
  <2>1. selection = Chosen(req.pre \o req.available, ids) /\ ids \in SUBSET Ids(req.pre \o req.available)
    BY <1>2, <1>4 DEF Candidates
  <2> DEFINE ins == body.inputs
             sel == selection
  <2>3. ins = Ascending(ids) /\ sel = Chosen(req.pre \o req.available, ids)
        /\ resolved = req.collateral_utxo \o req.pre \o sel
    BY <1>3, <2>1
  <2> HIDE DEF resolved, ins, sel
  <2>4. SeenValue(resolved, ins) = Total(sel)
    BY <1>1, <2>1, <2>3, BalanceSeesSelection, Zenon
  <2> QED BY <2>4, Zenon DEF ins, sel, SeenValue
<1>6. Total(selection) \in Value
  BY <1>1, TotalIsBundle, ValueArithmetic
<1>7. SumValues(body.outputs) \in Value
  <2>1. body.outputs \in Seq(Bundle)
    BY <1>1 DEF Body
  <2> QED BY <2>1, SumOfBundles, ValueArithmetic
<1>8. implicit_value(req, fee) \in Value
  BY <1>1, ImplicitValueType
<1>9. Total(Chosen(Candidates, {body.inputs[i] : i \in DOMAIN body.inputs})) = Total(selection)
  BY <1>3, <1>4
<1>10. Draft.inputs = body.inputs /\ Draft.outputs = body.outputs /\ Draft.fee = fee
  BY <1>1 DEF Draft
<1>11. is_transaction_balanced(req, Draft, resolved)
         <=> BalanceOf(SumValues(seen), SumValues(body.outputs), implicit_value(req, fee))
  BY <1>10, Zenon DEF is_transaction_balanced, BalanceOf
<1> HIDE DEF seen
<1> QED BY <1>5, <1>6, <1>7, <1>8, <1>9, <1>11, Zenon

\* What a selector within its contract answered makes the balance check succeed.
LEMMA HonestIsBalanced ==
  ASSUME IInv, pc = "fee", req.honest
  PROVE  is_transaction_balanced(req, Draft, req.collateral_utxo \o req.pre \o selection)
<1> DEFINE base == SumValues(req.outputs)
           more == SumValues(change)
           own  == implicit_value(req, fee)
<1>1. req \in Requests /\ change \in Seq(Bundle) /\ body.outputs = req.outputs \o change
  BY DEF IInv, TypeOK, Round
<1>2. req.outputs \in Seq(Bundle)
  BY <1>1, ContentsAssumption
<1>3. base \in Value /\ more \in Value
  BY <1>1, <1>2, SumOfBundles, ValueArithmetic
<1>4. SumValues(body.outputs) = value_add(base, more)
  <2>1. Seq(Bundle) \subseteq Seq(Value)
    BY SeqMonotonic, ValueArithmetic
  <2> QED BY <1>1, <1>2, <2>1, SumConcat
<1>5. Total(selection) = value_add(value_subtract(base, own), more)
  BY DEF IInv, Picked, LocallyBalanced, RoundTarget
<1> HIDE DEF base, more
<1>6. /\ Total(selection) \in Value /\ SumValues(body.outputs) \in Value /\ own \in Value
      /\ is_transaction_balanced(req, Draft, req.collateral_utxo \o req.pre \o selection)
           <=> BalanceOf(Total(selection), SumValues(body.outputs), own)
  BY BalanceOfRound
<1> HIDE DEF own
<1>7. BalanceOf(Total(selection), SumValues(body.outputs), own)
  BY <1>3, <1>4, <1>5, <1>6, BalanceMeaning
<1> QED BY <1>6, <1>7

LEMMA BalanceChecked ==
  ASSUME IInv, CheckBalance
  PROVE  IInv'
<1> DEFINE ok == is_transaction_balanced(req, Draft, req.collateral_utxo \o req.pre \o selection)
<1>1. /\ pc = "fee" /\ computed_fee <= fee
      /\ UNCHANGED <<req, fee, body, redeemers, selection, change, next>>
      /\ IF ok THEN pc' = "done" /\ UNCHANGED error ELSE Fail("unbalanced")
  BY DEF CheckBalance
<1>2. CASE ~ok
  <2>1. ~req.honest
    BY <1>1, <1>2, HonestIsBalanced
  <2>2. body \in Body /\ next \in Nat /\ next # 0
    BY DEF IInv, TypeOK, Body, Resolved
  <2>3. pc' = "failed" /\ error' = "unbalanced" /\ body' = body /\ next' = next
    BY <1>1, <1>2 DEF Fail
  <2> QED BY <1>1, <2>1, <2>2, <2>3, GivingUp
<1>3. CASE ok
  <2>1. pc' = "done" /\ error' = error
    BY <1>1, <1>3
  <2>2. TypeOK' /\ Kept' /\ HonestSelectorBalances'
    BY <1>1, <2>1 DEF IInv, TypeOK, Kept, HonestSelectorBalances
  <2>3. Round'
    BY <1>1, <2>1 DEF IInv, Round
  <2>4. Backed'
    BY <1>1, <2>1 DEF IInv, Backed, NeedsCollateral, CollateralSound
  <2>5. Picked'
    BY <1>1, <2>1 DEF IInv, Picked, SelectionOf, Candidates, RoundTarget
  <2>6. Placed'
    BY <1>1, <2>1 DEF IInv, Placed, PointsAtInput, SelectedIds
  <2>7. Resolved'
    BY <1>1, <2>1 DEF IInv, Resolved, Layout
  <2>8. Evaluated'
    BY <1>1, <2>1 DEF IInv, Evaluated, script_cost
  <2>9. Ended'
    <3>1. Draft' = Draft /\ computed_fee' = computed_fee
      BY <1>1 DEF Draft, computed_fee
    <3> QED BY <1>1, <1>3, <2>1, <3>1 DEF Ended
  <2> QED BY <2>2, <2>3, <2>4, <2>5, <2>6, <2>7, <2>8, <2>9 DEF IInv
<1> QED BY <1>2, <1>3

LEMMA StutteringKeeps ==
  ASSUME IInv, UNCHANGED vars
  PROVE  IInv'
<1>1. UNCHANGED <<req, pc, error, fee, body, redeemers, selection, change, next>>
  BY DEF vars
<1>2. TypeOK' /\ Round' /\ Kept' /\ HonestSelectorBalances'
  BY <1>1 DEF IInv, TypeOK, Round, Kept, HonestSelectorBalances
<1>3. Backed'
  BY <1>1 DEF IInv, Backed, NeedsCollateral, CollateralSound
<1>4. Picked' /\ Placed'
  BY <1>1 DEF IInv, Picked, SelectionOf, Candidates, RoundTarget, Placed, PointsAtInput, SelectedIds
<1>5. Resolved' /\ Evaluated'
  BY <1>1 DEF IInv, Resolved, DeferredRedeemers, Layout, Evaluated, script_cost
<1>6. Ended'
  <2>1. Draft' = Draft /\ computed_fee' = computed_fee
    BY <1>1 DEF Draft, computed_fee
  <2> QED BY <1>1, <2>1 DEF IInv, Ended
<1> QED BY <1>2, <1>3, <1>4, <1>5, <1>6 DEF IInv

LEMMA AlwaysIInv == Spec => []IInv
<1>1. IInv /\ [Next]_vars => IInv'
  <2> SUFFICES ASSUME IInv, [Next]_vars PROVE IInv'
    OBVIOUS
  <2>1. CASE SkipCollateral
    BY <2>1, SkippedCollateral
  <2>2. CASE SetCollateral
    BY <2>2, TakenCollateral
  <2>3. CASE SelectorFails
    BY <2>3, NotSelected
  <2>4. CASE SelectCoins
    BY <2>4, Selected
  <2>5. CASE SetTransactionInputs
    BY <2>5, InputsPlaced
  <2>6. CASE AddChangeOutputs
    BY <2>6, ChangeAdded
  <2>7. CASE ResolveDeferred
    BY <2>7, DeferredResolved
  <2>8. CASE AllResolved
    BY <2>8, DeferredDone
  <2>9. CASE Evaluate
    BY <2>9, ScriptsEvaluated
  <2>10. CASE RaiseFee
    BY <2>10, FeeRaised
  <2>11. CASE CheckBalance
    BY <2>11, BalanceChecked
  <2>12. CASE UNCHANGED vars
    BY <2>12, StutteringKeeps
  <2> QED BY <2>1, <2>2, <2>3, <2>4, <2>5, <2>6, <2>7, <2>8, <2>9, <2>10, <2>11, <2>12
          DEF Next, Step, Terminated
<1> QED BY <1>1, InitIInv, PTL DEF Spec

-----------------------------------------------------------------------------
(* The theorems.                                                           *)

\* The call reports success for a body whose fee pays for the body as it is: its
\* collateral, its execution units and the witnesses of all who will sign it.
THEOREM TheFeeCovers == Spec => []FeeCovers
<1>1. IInv => FeeCovers
  <2> SUFFICES ASSUME IInv, pc = "done" PROVE body.fee >= required_fee(req, Draft)
    BY DEF FeeCovers
  <2>1. computed_fee <= fee /\ body.fee = fee /\ fee \in Nat /\ TypeOK
    BY DEF IInv, Ended, Round, TypeOK
  <2>2. computed_fee \in Nat
    BY <2>1, DraftIsTransaction
  <2>3. computed_fee = required_fee(req, Draft)
    BY DEF computed_fee
  <2> HIDE DEF computed_fee
  <2>4. body.fee >= computed_fee
    BY <2>1, <2>2
  <2> QED BY <2>3, <2>4
<1> QED BY <1>1, AlwaysIInv, PTL

\* What cardano_balance_transaction hands back is made of its last round: the
\* outputs of the caller and the change of that round, and collateral that adds up
\* and is enough for the final fee.
THEOREM OnlyTheLastRound == Spec => []OnlyLastRound
<1>1. IInv => OnlyLastRound
  <2> SUFFICES ASSUME IInv PROVE TypeOK /\ CollateralFits /\ NoLeftoverChange
    BY DEF OnlyLastRound
  <2>1. TypeOK
    BY DEF IInv
  <2>2. NoLeftoverChange
    BY DEF IInv, Round, NoLeftoverChange
  <2>3. pc = "done" /\ NeedsCollateral => CollateralSound(body)
    BY DEF IInv, Backed
  <2>4. CollateralFits
    BY <2>3, Zenon DEF CollateralFits, CollateralSound
  <2> QED BY <2>1, <2>2, <2>4
<1> QED BY <1>1, AlwaysIInv, PTL

\* A transaction that is handed back preserves value, also if the selector, which
\* chooses among the UTXOs it was given and keeps the pre-selected ones, got the
\* change wrong; and a selector that keeps its contract is never refused.
THEOREM BalancedOrElseRefused == Spec => []BalancedOrRefused
<1>1. IInv => BalancedOrRefused
  <2> SUFFICES ASSUME IInv PROVE ValuePreserved /\ HonestSelectorBalances
    BY DEF BalancedOrRefused
  <2>1. HonestSelectorBalances
    BY DEF IInv
  <2>2. ASSUME pc = "done"
        PROVE  value_add(Total(Chosen(Candidates, {body.inputs[i] : i \in DOMAIN body.inputs})),
                         implicit_value(req, body.fee)) = SumValues(body.outputs)
    <3> DEFINE held == Total(selection)
               outs == SumValues(body.outputs)
               own == implicit_value(req, fee)
    <3>1. /\ held \in Value /\ outs \in Value /\ own \in Value
          /\ Total(Chosen(Candidates, {body.inputs[i] : i \in DOMAIN body.inputs})) = held
          /\ is_transaction_balanced(req, Draft, req.collateral_utxo \o req.pre \o selection)
               <=> BalanceOf(held, outs, own)
      BY <2>2, BalanceOfRound
    <3>2. body.fee = fee /\ is_transaction_balanced(req, Draft, req.collateral_utxo \o req.pre \o selection)
      BY <2>2 DEF IInv, Round, Ended
    <3> HIDE DEF held, outs, own
    <3>3. value_add(held, own) = outs
      BY <3>1, <3>2, BalanceMeaning
    <3> QED BY <3>1, <3>2, <3>3, Zenon DEF own, outs
  <2> QED BY <2>1, <2>2, Zenon DEF ValuePreserved
<1> QED BY <1>1, AlwaysIInv, PTL

\* The redeemers of the transaction that is handed back point at their inputs, hold
\* what the callbacks made of its final layout and the units its scripts took.
THEOREM TheRedeemersFit == Spec => []RedeemersFitLayout
<1>1. IInv => RedeemersFitLayout
  <2> SUFFICES ASSUME IInv, pc = "done"
               PROVE  /\ \A r \in DOMAIN redeemers : redeemers[r].tag = "spend" => PointsAtInput(r)
                      /\ \A r \in DOMAIN redeemers :
                           /\ redeemers[r].deferred => redeemers[r].data = Layout
                           /\ redeemers[r].ex_units = script_cost(r)
    BY Zenon DEF RedeemersFitLayout, RedeemersPointAtInputs, ScriptsSawFinalLayout, PointsAtInput
  <2>1. DOMAIN redeemers = DOMAIN req.redeemers
    BY DEF IInv, TypeOK
  <2> QED BY <2>1 DEF IInv, Placed, Resolved, Evaluated
<1> QED BY <1>1, AlwaysIInv, PTL
=============================================================================
