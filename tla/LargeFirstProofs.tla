--------------------------- MODULE LargeFirstProofs ---------------------------
(***************************************************************************)
(* Theorems about the large-first selector, for every set of requests, any *)
(* number of assets and UTXO lists of any length.                          *)
(***************************************************************************)
EXTENDS LargeFirst, ValueTheorems

-----------------------------------------------------------------------------
(* Lists of UTXOs.                                                         *)

IdsOf(us)  == {us[i].id : i \in DOMAIN us}
ValsOf(us) == [i \in DOMAIN us |-> us[i].val]

\* The UTXOs of a request.
Ledger(r) == {r.pre[i] : i \in DOMAIN r.pre} \cup {r.available[i] : i \in DOMAIN r.available}

LEMMA LedgerProperties ==
  ASSUME NEW r \in Requests
  PROVE  /\ Ledger(r) \in SUBSET UtxoRecord
         /\ r.pre \in Seq(Ledger(r)) /\ r.available \in Seq(Ledger(r))
         /\ \A u \in Ledger(r) : u.val[Ada] > 0
         /\ \A u, v \in Ledger(r) : u.id = v.id => u = v
<1>1. /\ r.pre \in Seq(UtxoRecord) /\ r.available \in Seq(UtxoRecord)
      /\ Distinct(r.pre) /\ Distinct(r.available)
      /\ \A i \in DOMAIN r.pre, j \in DOMAIN r.available :
           r.pre[i].id = r.available[j].id => r.pre[i] = r.available[j]
  BY RequestsAssumption
<1>2. Ledger(r) \in SUBSET UtxoRecord
  <2>1. /\ \A i \in DOMAIN r.pre : r.pre[i] \in UtxoRecord
        /\ \A i \in DOMAIN r.available : r.available[i] \in UtxoRecord
    BY <1>1
  <2> QED BY <2>1 DEF Ledger
<1>3. ASSUME NEW us \in Seq(UtxoRecord), \A i \in DOMAIN us : us[i] \in Ledger(r)
      PROVE  us \in Seq(Ledger(r))
  <2>1. Len(us) \in Nat /\ us \in [1 .. Len(us) -> Ledger(r)]
    BY <1>3
  <2> QED BY <2>1, IsASeq
<1>4. r.pre \in Seq(Ledger(r)) /\ r.available \in Seq(Ledger(r))
  <2>1. /\ \A i \in DOMAIN r.pre : r.pre[i] \in Ledger(r)
        /\ \A i \in DOMAIN r.available : r.available[i] \in Ledger(r)
    BY DEF Ledger
  <2> QED BY <1>1, <1>3, <2>1
<1>5. \A u \in Ledger(r) : u.val[Ada] > 0
  BY RequestsAssumption DEF Ledger
<1>6. \A u, v \in Ledger(r) : u.id = v.id => u = v
  BY <1>1 DEF Ledger, Distinct
<1> QED BY <1>2, <1>4, <1>5, <1>6

\* A list made of two.
LEMMA ConcatLists ==
  ASSUME NEW S, NEW a \in Seq(S), NEW b \in Seq(S)
  PROVE  /\ a \o b \in Seq(S)
         /\ IdsOf(a \o b) = IdsOf(a) \cup IdsOf(b)
         /\ Distinct(a \o b) <=> Distinct(a) /\ Distinct(b) /\ IdsOf(a) \cap IdsOf(b) = {}
<1> DEFINE m == Len(a)
           n == Len(b)
           c == a \o b
<1>1. /\ m \in Nat /\ n \in Nat /\ c \in Seq(S) /\ Len(c) = m + n
      /\ DOMAIN a = 1 .. m /\ DOMAIN b = 1 .. n /\ DOMAIN c = 1 .. m + n
  BY LenProperties, ConcatProperties
<1>2. \A i \in 1 .. m : i \in 1 .. m + n /\ c[i] = a[i]
  BY <1>1, ConcatProperties
<1>3. \A i \in 1 .. n : m + i \in 1 .. m + n /\ c[m + i] = b[i]
  <2> TAKE i \in 1 .. n
  <2>1. m + i \in 1 .. m + n /\ ~(m + i <= m) /\ (m + i) - m = i
    BY <1>1
  <2> QED BY <2>1, ConcatProperties
<1>4. \A k \in 1 .. m + n : k \in 1 .. m \/ \E i \in 1 .. n : k = m + i
  <2> TAKE k \in 1 .. m + n
  <2>1. CASE k <= m
    BY <1>1, <2>1
  <2>2. CASE ~(k <= m)
    <3>1. k - m \in 1 .. n /\ k = m + (k - m)
      BY <1>1, <2>2
    <3> QED BY <3>1
  <2> QED BY <2>1, <2>2
<1> HIDE DEF m, n, c
<1>5. IdsOf(c) = IdsOf(a) \cup IdsOf(b)
  <2>1. ASSUME NEW k \in 1 .. m + n PROVE c[k].id \in IdsOf(a) \cup IdsOf(b)
    <3>1. CASE k \in 1 .. m
      BY <1>1, <1>2, <3>1 DEF IdsOf
    <3>2. ASSUME NEW i \in 1 .. n, k = m + i PROVE c[k].id \in IdsOf(b)
      BY <1>1, <1>3, <3>2 DEF IdsOf
    <3> QED BY <1>4, <3>1, <3>2
  <2>2. IdsOf(a) \subseteq IdsOf(c)
    BY <1>1, <1>2 DEF IdsOf
  <2>3. IdsOf(b) \subseteq IdsOf(c)
    BY <1>1, <1>3 DEF IdsOf
  <2>4. IdsOf(c) \subseteq IdsOf(a) \cup IdsOf(b)
    BY <1>1, <2>1 DEF IdsOf
  <2> QED BY <2>2, <2>3, <2>4
<1>6. ASSUME Distinct(c) PROVE Distinct(a) /\ Distinct(b) /\ IdsOf(a) \cap IdsOf(b) = {}
  <2>1. Distinct(a)
    BY <1>1, <1>2, <1>6 DEF Distinct
  <2>2. Distinct(b)
    <3>1. ASSUME NEW i \in 1 .. n, NEW j \in 1 .. n, b[i].id = b[j].id PROVE i = j
      <4>1. m + i = m + j
        BY <1>1, <1>3, <1>6, <3>1 DEF Distinct
      <4> QED BY <1>1, <4>1
    <3> QED BY <1>1, <3>1 DEF Distinct
  <2>3. ASSUME NEW i \in 1 .. m, NEW j \in 1 .. n, a[i].id = b[j].id PROVE FALSE
    <3>1. c[i].id = c[m + j].id /\ i \in DOMAIN c /\ m + j \in DOMAIN c
      BY <1>1, <1>2, <1>3, <2>3
    <3>2. i = m + j
      BY <1>6, <3>1 DEF Distinct
    <3> QED BY <1>1, <3>2
  <2> QED BY <1>1, <2>1, <2>2, <2>3 DEF IdsOf
<1>7. ASSUME Distinct(a), Distinct(b), IdsOf(a) \cap IdsOf(b) = {} PROVE Distinct(c)
  <2> SUFFICES ASSUME NEW i \in 1 .. m + n, NEW j \in 1 .. m + n, c[i].id = c[j].id PROVE i = j
    BY <1>1 DEF Distinct
  <2>1. ASSUME NEW k \in 1 .. m, NEW l \in 1 .. n PROVE a[k].id # b[l].id
    BY <1>1, <1>7 DEF IdsOf
  <2>2. CASE i \in 1 .. m /\ j \in 1 .. m
    BY <1>1, <1>2, <1>7, <2>2 DEF Distinct
  <2>3. CASE i \in 1 .. m /\ \E k \in 1 .. n : j = m + k
    BY <1>2, <1>3, <2>1, <2>3
  <2>4. CASE j \in 1 .. m /\ \E k \in 1 .. n : i = m + k
    BY <1>2, <1>3, <2>1, <2>4
  <2>5. ASSUME NEW k \in 1 .. n, i = m + k, NEW l \in 1 .. n, j = m + l PROVE i = j
    BY <1>1, <1>3, <1>7, <2>5 DEF Distinct
  <2> QED BY <1>4, <2>2, <2>3, <2>4, <2>5
<1> QED BY <1>1, <1>5, <1>6, <1>7 DEF c

LEMMA SingleList ==
  ASSUME NEW S, NEW u \in S
  PROVE  <<u>> \in Seq(S) /\ IdsOf(<<u>>) = {u.id} /\ Distinct(<<u>>)
<1>1. <<u>> \in Seq(S) /\ DOMAIN <<u>> = {1} /\ <<u>>[1] = u
  OBVIOUS
<1> QED BY <1>1 DEF IdsOf, Distinct

\* A list has as many UTXOs as it has ids.
LEMMA ListLength ==
  ASSUME NEW S, NEW us \in Seq(S), Distinct(us)
  PROVE  Cardinality(IdsOf(us)) = Len(us) /\ Len(us) \in Nat
<1> DEFINE f == [i \in 1 .. Len(us) |-> us[i].id]
<1>1. Len(us) \in Nat /\ DOMAIN us = 1 .. Len(us)
  OBVIOUS
<1>2. f \in Bijection(1 .. Len(us), IdsOf(us))
  <2>1. f \in [1 .. Len(us) -> IdsOf(us)]
    BY <1>1 DEF IdsOf
  <2>2. \A i, j \in 1 .. Len(us) : f[i] = f[j] => i = j
    BY <1>1 DEF Distinct
  <2>3. \A x \in IdsOf(us) : \E i \in 1 .. Len(us) : f[i] = x
    BY <1>1 DEF IdsOf
  <2> HIDE DEF f
  <2> QED BY <2>1, <2>2, <2>3 DEF Bijection, Injection, Surjection, IsInjective
<1>3. IsFiniteSet(1 .. Len(us)) /\ Cardinality(1 .. Len(us)) = Len(us)
  BY <1>1, FS_Interval
<1> HIDE DEF f
<1>4. Cardinality(IdsOf(us)) = Cardinality(1 .. Len(us))
  <2> DEFINE D == 1 .. Len(us)
  <2>1. f \in Bijection(D, IdsOf(us)) /\ IsFiniteSet(D)
    BY <1>2, <1>3
  <2> HIDE DEF D
  <2>2. Cardinality(IdsOf(us)) = Cardinality(D)
    BY <2>1, FS_Bijection DEF ExistsBijection
  <2> QED BY <2>2 DEF D
<1> QED BY <1>1, <1>3, <1>4

-----------------------------------------------------------------------------
(* What the lists are worth.                                               *)

LEMMA WorthType ==
  ASSUME NEW S \in SUBSET UtxoRecord, NEW us \in Seq(S)
  PROVE  ValsOf(us) \in Seq(Bundle) /\ ValsOf(us) \in Seq(Value)
         /\ Len(ValsOf(us)) = Len(us) /\ SumOf(us) = SumValues(ValsOf(us)) /\ SumOf(us) \in Bundle
         /\ SumOf(us) \in Value
<1>1. Len(us) \in Nat /\ DOMAIN us = 1 .. Len(us) /\ \A i \in 1 .. Len(us) : us[i].val \in Bundle
  BY DEF UtxoRecord
<1>2. ValsOf(us) \in [1 .. Len(us) -> Bundle]
  BY <1>1 DEF ValsOf
<1>3. ValsOf(us) \in Seq(Bundle) /\ Len(ValsOf(us)) = Len(us)
  BY <1>1, <1>2
<1>4. ValsOf(us) \in Seq(Value)
  BY <1>3, ValueArithmetic, SeqMonotonic
<1>5. SumOf(us) = SumValues(ValsOf(us))
  BY Zenon DEF SumOf, ValsOf
<1>6. SumOf(us) \in Bundle
  BY <1>3, <1>5, SumOfBundles
<1>7. SumOf(us) \in Value
  BY <1>6, ValueArithmetic
<1> QED BY <1>3, <1>4, <1>5, <1>6, <1>7

LEMMA WorthOfConcat ==
  ASSUME NEW S \in SUBSET UtxoRecord, NEW a \in Seq(S), NEW b \in Seq(S)
  PROVE  SumOf(a \o b) = value_add(SumOf(a), SumOf(b))
<1> DEFINE c == a \o b
<1>1. /\ Len(a) \in Nat /\ Len(b) \in Nat /\ c \in Seq(S) /\ Len(c) = Len(a) + Len(b)
      /\ \A i \in 1 .. Len(a) + Len(b) : c[i] = IF i <= Len(a) THEN a[i] ELSE b[i - Len(a)]
  BY LenProperties, ConcatProperties
<1> HIDE DEF c
<1>2. /\ ValsOf(a) \in Seq(Value) /\ ValsOf(b) \in Seq(Value) /\ ValsOf(c) \in Seq(Value)
      /\ Len(ValsOf(a)) = Len(a) /\ Len(ValsOf(b)) = Len(b) /\ Len(ValsOf(c)) = Len(c)
      /\ SumOf(a) = SumValues(ValsOf(a)) /\ SumOf(b) = SumValues(ValsOf(b))
      /\ SumOf(c) = SumValues(ValsOf(c))
  BY <1>1, WorthType
<1>3. ValsOf(c) = ValsOf(a) \o ValsOf(b)
  <2> DEFINE va == ValsOf(a)
             vb == ValsOf(b)
             vc == ValsOf(c)
             vd == va \o vb
  <2>1. /\ vd \in Seq(Value) /\ Len(vd) = Len(a) + Len(b)
        /\ \A i \in 1 .. Len(a) + Len(b) : vd[i] = IF i <= Len(a) THEN va[i] ELSE vb[i - Len(a)]
    <3>1. va \in Seq(Value) /\ vb \in Seq(Value) /\ Len(va) = Len(a) /\ Len(vb) = Len(b)
      BY <1>2
    <3> HIDE DEF va, vb
    <3>2. /\ vd \in Seq(Value) /\ Len(vd) = Len(va) + Len(vb)
          /\ \A i \in 1 .. Len(va) + Len(vb) : vd[i] = IF i <= Len(va) THEN va[i] ELSE vb[i - Len(va)]
      BY <3>1, ConcatProperties
    <3> QED BY <3>1, <3>2
  <2>2. /\ \A i \in 1 .. Len(a) : va[i] = a[i].val
        /\ \A i \in 1 .. Len(b) : vb[i] = b[i].val
        /\ \A i \in 1 .. Len(c) : vc[i] = c[i].val
    BY <1>1 DEF ValsOf
  <2> HIDE DEF va, vb, vc, vd
  <2>3. ASSUME NEW i \in 1 .. Len(a) + Len(b) PROVE vc[i] = vd[i]
    <3>1. vc[i] = c[i].val
      BY <1>1, <2>2
    <3>2. CASE i <= Len(a)
      <4>1. i \in 1 .. Len(a)
        BY <1>1, <3>2
      <4> QED BY <1>1, <2>1, <2>2, <3>1, <3>2, <4>1
    <3>3. CASE ~(i <= Len(a))
      <4>1. i - Len(a) \in 1 .. Len(b)
        BY <1>1, <3>3
      <4> QED BY <1>1, <2>1, <2>2, <3>1, <3>3, <4>1
    <3> QED BY <3>2, <3>3
  <2>4. vc \in Seq(Value) /\ Len(vc) = Len(a) + Len(b)
    BY <1>1, <1>2 DEF vc
  <2>5. vc = vd
    BY <2>1, <2>3, <2>4, SeqEqual
  <2> QED BY <2>5 DEF vc, vd, va, vb
<1>4. SumValues(ValsOf(a) \o ValsOf(b)) = value_add(SumValues(ValsOf(a)), SumValues(ValsOf(b)))
  BY <1>2, SumConcat
<1> QED BY <1>2, <1>3, <1>4, Zenon DEF c

LEMMA WorthOfOne ==
  ASSUME NEW u \in UtxoRecord
  PROVE  SumOf(<<u>>) = u.val
<1>1. ValsOf(<<u>>) = <<u.val>>
  BY DEF ValsOf
<1>2. SumOf(<<u>>) = SumValues(ValsOf(<<u>>))
  BY Zenon DEF SumOf, ValsOf
<1>3. u.val \in Value
  BY ValueArithmetic DEF UtxoRecord
<1> QED BY <1>1, <1>2, <1>3, SumSingle

LEMMA WorthOfNone == SumOf(<<>>) = ZeroValue
<1>1. ValsOf(<<>>) = <<>>
  BY DEF ValsOf
<1>2. SumOf(<<>>) = SumValues(ValsOf(<<>>))
  BY Zenon DEF SumOf, ValsOf
<1> QED BY <1>1, <1>2, SumEmpty

-----------------------------------------------------------------------------
(* Sorting a list and taking from it.                                      *)

\* Place i of a list comes before place j when the list is sorted by token t.
Before(us, t, i, j) ==
  us[i].val[t] > us[j].val[t] \/ (us[i].val[t] = us[j].val[t] /\ i < j)

PlacesOrder(us, t) == {p \in (DOMAIN us) \X (DOMAIN us) : Before(us, t, p[1], p[2])}

LEMMA PlacesAreOrdered ==
  ASSUME NEW S \in SUBSET UtxoRecord, NEW us \in Seq(S), NEW t \in Tokens
  PROVE  IsOrder(DOMAIN us, PlacesOrder(us, t))
<1> DEFINE D == DOMAIN us
           R == PlacesOrder(us, t)
<1>1. \A i \in D : i \in Nat /\ us[i].val[t] \in Nat
  <2>1. DOMAIN us = 1 .. Len(us) /\ \A i \in DOMAIN us : us[i] \in UtxoRecord
    OBVIOUS
  <2> QED BY <2>1 DEF UtxoRecord, Bundle
<1>2. \A i, j \in D : <<i, j>> \in R <=> Before(us, t, i, j)
  BY DEF PlacesOrder
<1> HIDE DEF D, R
<1> DEFINE q == [i \in D |-> us[i].val[t]]
<1>0. /\ \A i \in D : q[i] \in Nat /\ i \in Nat
      /\ \A i, j \in D : <<i, j>> \in R <=> q[i] > q[j] \/ (q[i] = q[j] /\ i < j)
  BY <1>1, <1>2 DEF Before
<1> HIDE DEF q
<1>3. \A i, j \in D : i = j \/ <<i, j>> \in R \/ <<j, i>> \in R
  <2> TAKE i, j \in D
  <2>1. q[i] \in Nat /\ q[j] \in Nat /\ i \in Nat /\ j \in Nat
    BY <1>0
  <2>2. q[i] > q[j] \/ q[j] > q[i] \/ (q[i] = q[j] /\ (i < j \/ j < i \/ i = j))
    BY <2>1
  <2> QED BY <1>0, <2>2
<1>4. \A i \in D : <<i, i>> \notin R
  BY <1>0
<1>5. \A i, j, k \in D : <<i, j>> \in R /\ <<j, k>> \in R => <<i, k>> \in R
  BY <1>0
<1>6. IsOrder(D, R)
  BY <1>3, <1>4, <1>5 DEF IsOrder
<1> QED BY <1>6 DEF D, R

\* Sorting moves every UTXO to a place of its own.
LEMMA SortMoves ==
  ASSUME NEW S \in SUBSET UtxoRecord, NEW us \in Seq(S), NEW t \in Tokens
  PROVE  \E f \in [1 .. Len(us) -> 1 .. Len(us)] :
           /\ compare_utxos_sort(us, t) = [i \in 1 .. Len(us) |-> us[f[i]]]
           /\ \A x \in 1 .. Len(us) : \E i \in 1 .. Len(us) : f[i] = x
           /\ \A i, j \in 1 .. Len(us) : f[i] = f[j] => i = j
           /\ \A i, j \in 1 .. Len(us) : i < j => us[f[i]].val[t] >= us[f[j]].val[t]
<1> DEFINE n == Len(us)
           R == PlacesOrder(us, t)
           f == InOrder(1 .. n, R)
<1>1. n \in Nat /\ DOMAIN us = 1 .. n /\ IsFiniteSet(1 .. n) /\ Cardinality(1 .. n) = n
  <2>1. n \in Nat /\ DOMAIN us = 1 .. n
    OBVIOUS
  <2> HIDE DEF n
  <2> QED BY <2>1, FS_Interval
<1>2. IsOrder(1 .. n, R)
  BY <1>1, PlacesAreOrdered
<1>3. compare_utxos_sort(us, t) = <<>> \o [i \in 1 .. n |-> us[f[i]]]
  BY <1>1, Zenon DEF compare_utxos_sort, PlacesOrder, Before
<1> HIDE DEF R
<1>4. /\ f \in [1 .. n -> 1 .. n]
      /\ \A x \in 1 .. n : \E i \in 1 .. n : f[i] = x
      /\ \A i, j \in 1 .. n : f[i] = f[j] => i = j
      /\ \A i, j \in 1 .. n : i < j => <<f[i], f[j]>> \in R
  <2> DEFINE D == 1 .. n
  <2>1. IsFiniteSet(D) /\ IsOrder(D, R) /\ Cardinality(D) = n
    BY <1>1, <1>2
  <2>2. f = InOrder(D, R)
    OBVIOUS
  <2> HIDE DEF D, f, n
  <2>3. /\ f \in [1 .. n -> D]
        /\ \A x \in D : \E i \in 1 .. n : f[i] = x
        /\ \A i, j \in 1 .. n : f[i] = f[j] => i = j
        /\ \A i, j \in 1 .. n : i < j => <<f[i], f[j]>> \in R
    BY <2>1, <2>2, InOrderProperties
  <2> QED BY <2>3 DEF D
<1> HIDE DEF f
<1>5. [i \in 1 .. n |-> us[f[i]]] \in Seq(S)
  <2>1. \A i \in 1 .. n : us[f[i]] \in S
    BY <1>1, <1>4, ElementOfSeq
  <2> QED BY <1>1, <2>1
<1>6. compare_utxos_sort(us, t) = [i \in 1 .. n |-> us[f[i]]]
  BY <1>3, <1>5, ConcatEmptySeq
<1>7. \A i, j \in 1 .. n : i < j => us[f[i]].val[t] >= us[f[j]].val[t]
  <2> SUFFICES ASSUME NEW i \in 1 .. n, NEW j \in 1 .. n, i < j
               PROVE  us[f[i]].val[t] >= us[f[j]].val[t]
    OBVIOUS
  <2>1. <<f[i], f[j]>> \in R /\ f[i] \in 1 .. n /\ f[j] \in 1 .. n
    BY <1>4
  <2>2. Before(us, t, f[i], f[j])
    BY <2>1 DEF R, PlacesOrder
  <2>3. us[f[i]].val[t] \in Nat /\ us[f[j]].val[t] \in Nat
    <3>1. us[f[i]] \in UtxoRecord /\ us[f[j]] \in UtxoRecord
      BY <1>1, <2>1, ElementOfSeq
    <3> QED BY <3>1 DEF UtxoRecord, Bundle
  <2> QED BY <2>2, <2>3 DEF Before
<1> QED BY <1>4, <1>6, <1>7

\* A sorted list has the same UTXOs, the most of the token first; those that
\* hold any come before the others.
LEMMA SortProperties ==
  ASSUME NEW S \in SUBSET UtxoRecord, NEW us \in Seq(S), NEW t \in Tokens
  PROVE  LET sorted  == compare_utxos_sort(us, t)
             holding == Cardinality({i \in DOMAIN us : us[i].val[t] > 0})
         IN  /\ sorted \in Seq(S) /\ Len(sorted) = Len(us)
             /\ IdsOf(sorted) = IdsOf(us)
             /\ Distinct(us) => Distinct(sorted)
             /\ \A i, j \in 1 .. Len(us) : i < j => sorted[i].val[t] >= sorted[j].val[t]
             /\ holding \in 0 .. Len(us)
             /\ \A i \in 1 .. Len(us) : i > holding => sorted[i].val[t] = 0
<1> DEFINE n == Len(us)
           sorted == compare_utxos_sort(us, t)
<1>1. PICK f \in [1 .. n -> 1 .. n] :
        /\ sorted = [i \in 1 .. n |-> us[f[i]]]
        /\ \A x \in 1 .. n : \E i \in 1 .. n : f[i] = x
        /\ \A i, j \in 1 .. n : f[i] = f[j] => i = j
        /\ \A i, j \in 1 .. n : i < j => us[f[i]].val[t] >= us[f[j]].val[t]
  BY SortMoves
<1>2. n \in Nat /\ DOMAIN us = 1 .. n /\ \A i \in 1 .. n : us[i] \in S /\ us[i].val[t] \in Nat
  <2>1. n \in Nat /\ DOMAIN us = 1 .. n /\ \A i \in 1 .. n : us[i] \in S
    BY ElementOfSeq
  <2> QED BY <2>1 DEF UtxoRecord, Bundle
<1> HIDE DEF n, sorted
<1>3. sorted \in Seq(S) /\ Len(sorted) = n /\ DOMAIN sorted = 1 .. n /\ \A i \in 1 .. n : sorted[i] = us[f[i]]
  <2>1. \A i \in 1 .. n : us[f[i]] \in S
    BY <1>1, <1>2
  <2> QED BY <1>1, <1>2, <2>1
<1>4. IdsOf(sorted) = IdsOf(us)
  <2>1. IdsOf(sorted) \subseteq IdsOf(us)
    BY <1>1, <1>2, <1>3 DEF IdsOf
  <2>2. ASSUME NEW x \in 1 .. n PROVE us[x].id \in IdsOf(sorted)
    <3>1. PICK i \in 1 .. n : f[i] = x
      BY <1>1
    <3> QED BY <1>3, <3>1 DEF IdsOf
  <2> QED BY <1>2, <2>1, <2>2 DEF IdsOf
<1>5. Distinct(us) => Distinct(sorted)
  BY <1>1, <1>2, <1>3 DEF Distinct
<1>6. \A i, j \in 1 .. n : i < j => sorted[i].val[t] >= sorted[j].val[t]
  BY <1>1, <1>3
<1> DEFINE P == {i \in DOMAIN us : us[i].val[t] > 0}
           Q == {i \in 1 .. n : sorted[i].val[t] > 0}
           h == Cardinality(P)
           g == [i \in Q |-> f[i]]
<1>7. IsFiniteSet(1 .. n) /\ Cardinality(1 .. n) = n
  BY <1>2, FS_Interval
<1>8. IsFiniteSet(P) /\ h <= n /\ h \in Nat /\ IsFiniteSet(Q)
  <2>1. P \in SUBSET (1 .. n) /\ Q \in SUBSET (1 .. n)
    BY <1>2
  <2> HIDE DEF P, Q
  <2>2. IsFiniteSet(P) /\ Cardinality(P) <= Cardinality(1 .. n) /\ IsFiniteSet(Q)
    BY <1>7, <2>1, FS_Subset
  <2> QED BY <1>7, <2>2, FS_CardinalityType
<1>9. Cardinality(Q) = h
  <2>1. g \in [Q -> P]
    BY <1>1, <1>2, <1>3
  <2>2. \A i, j \in Q : g[i] = g[j] => i = j
    BY <1>1
  <2>3. \A x \in P : \E i \in Q : g[i] = x
    <3> TAKE x \in P
    <3>1. PICK i \in 1 .. n : f[i] = x
      BY <1>1, <1>2
    <3>2. i \in Q
      BY <1>3, <3>1
    <3> QED BY <3>1, <3>2
  <2> HIDE DEF P, Q, g
  <2>4. g \in Bijection(Q, P)
    BY <2>1, <2>2, <2>3 DEF Bijection, Injection, Surjection, IsInjective
  <2>5. Cardinality(P) = Cardinality(Q)
    BY <1>8, <2>4, FS_Bijection DEF ExistsBijection
  <2> QED BY <2>5
<1>10. ASSUME NEW i \in 1 .. n, i > h PROVE sorted[i].val[t] = 0
  <2> SUFFICES ASSUME sorted[i].val[t] # 0 PROVE FALSE
    OBVIOUS
  <2>1. \A k \in 1 .. n : sorted[k].val[t] \in Nat
    BY <1>1, <1>2, <1>3
  <2>2. 1 .. i \in SUBSET Q
    <3>1. ASSUME NEW k \in 1 .. i PROVE k \in Q
      <4>1. k \in 1 .. n /\ (k < i \/ k = i)
        BY <1>2
      <4>2. sorted[k].val[t] \in Nat /\ sorted[i].val[t] \in Nat /\ sorted[k].val[t] >= sorted[i].val[t]
        BY <1>6, <2>1, <4>1
      <4>3. sorted[k].val[t] > 0
        BY <4>2
      <4> QED BY <4>1, <4>3
    <3> QED BY <3>1
  <2>3. Cardinality(1 .. i) = i /\ i \in Nat
    BY <1>2, FS_Interval
  <2> HIDE DEF P, Q
  <2>4. Cardinality(1 .. i) <= Cardinality(Q)
    BY <1>8, <2>2, FS_Subset
  <2> HIDE DEF h
  <2> QED BY <1>8, <1>9, <1>10, <2>3, <2>4
<1> HIDE DEF P, Q, g
<1>11. h \in 0 .. n
  BY <1>2, <1>8
<1> QED BY <1>2, <1>3, <1>4, <1>5, <1>6, <1>10, <1>11 DEF n, P, sorted

\* The first k of a list and the others.
FirstOf(us, k) == SubSeq(us, 1, k)
RestOf(us, k)  == SubSeq(us, k + 1, Len(us))

LEMMA Cut ==
  ASSUME NEW S, NEW us \in Seq(S), NEW k \in 0 .. Len(us)
  PROVE  /\ FirstOf(us, k) \in Seq(S) /\ RestOf(us, k) \in Seq(S)
         /\ FirstOf(us, k) \o RestOf(us, k) = us
         /\ Len(FirstOf(us, k)) = k /\ Len(RestOf(us, k)) = Len(us) - k
         /\ \A i \in 1 .. k : FirstOf(us, k)[i] = us[i]
         /\ \A i \in 1 .. Len(us) - k : RestOf(us, k)[i] = us[k + i]
<1> DEFINE n == Len(us)
<1>1. n \in Nat /\ \A i \in 1 .. n : us[i] \in S
  BY ElementOfSeq
<1>2. k \in Nat /\ k <= n /\ k \in Int /\ k + 1 \in Int /\ n \in Int
  BY <1>1
<1>3. /\ FirstOf(us, k) \in Seq(S)
      /\ Len(FirstOf(us, k)) = IF 1 <= k THEN k - 1 + 1 ELSE 0
      /\ \A i \in 1 .. k - 1 + 1 : FirstOf(us, k)[i] = us[1 + i - 1]
  <2>1. \A i \in 1 .. k : us[i] \in S
    BY <1>1, <1>2
  <2> QED BY <1>2, <2>1, SubSeqProperties DEF FirstOf
<1>4. /\ RestOf(us, k) \in Seq(S)
      /\ Len(RestOf(us, k)) = IF k + 1 <= n THEN n - (k + 1) + 1 ELSE 0
      /\ \A i \in 1 .. n - (k + 1) + 1 : RestOf(us, k)[i] = us[(k + 1) + i - 1]
  <2>1. \A i \in k + 1 .. n : us[i] \in S
    BY <1>1, <1>2
  <2> HIDE DEF n
  <2>2. RestOf(us, k) = SubSeq(us, k + 1, n)
    BY Zenon DEF RestOf, n
  <2> DEFINE m == k + 1
  <2>3. m \in Int /\ \A i \in m .. n : us[i] \in S
    BY <1>2, <2>1
  <2> HIDE DEF m
  <2>4. /\ SubSeq(us, m, n) \in Seq(S)
        /\ Len(SubSeq(us, m, n)) = IF m <= n THEN n - m + 1 ELSE 0
        /\ \A i \in 1 .. n - m + 1 : SubSeq(us, m, n)[i] = us[m + i - 1]
    BY <1>2, <2>3, SubSeqProperties
  <2> QED BY <2>2, <2>4 DEF m
<1>5. FirstOf(us, k) \o RestOf(us, k) = us
  <2>1. 1 \in 1 .. n + 1 /\ k \in 1 - 1 .. n /\ n \in k .. n
    BY <1>2
  <2>2. SubSeq(us, 1, k) \o SubSeq(us, k + 1, n) = SubSeq(us, 1, n)
    BY <2>1, ConcatAdjacentSubSeq
  <2>3. SubSeq(us, 1, n) = us
    BY SubSeqFull
  <2> QED BY <2>2, <2>3, Zenon DEF FirstOf, RestOf
<1>6. Len(FirstOf(us, k)) = k /\ \A i \in 1 .. k : FirstOf(us, k)[i] = us[i]
  <2>1. k - 1 + 1 = k /\ (1 <= k \/ k = 0) /\ \A i \in 1 .. k : 1 + i - 1 = i
    BY <1>2
  <2> QED BY <1>3, <2>1
<1>7. Len(RestOf(us, k)) = n - k /\ \A i \in 1 .. n - k : RestOf(us, k)[i] = us[k + i]
  <2>1. /\ n - (k + 1) + 1 = n - k /\ (k + 1 <= n \/ n - k = 0)
        /\ \A i \in 1 .. n - k : (k + 1) + i - 1 = k + i
    BY <1>2
  <2> QED BY <1>4, <2>1
<1> QED BY <1>3, <1>4, <1>5, <1>6, <1>7

\* Removing a UTXO from a list that has every UTXO at most once.
LEMMA RemoveProperties ==
  ASSUME NEW S, NEW us \in Seq(S), Distinct(us), NEW u \in S,
         \A v \in S : v.id = u.id => v = u
  PROVE  /\ RemoveFirst(us, u) \in Seq(S)
         /\ Distinct(RemoveFirst(us, u))
         /\ IdsOf(RemoveFirst(us, u)) = IdsOf(us) \ {u.id}
<1> DEFINE n == Len(us)
<1>1. n \in Nat /\ DOMAIN us = 1 .. n /\ \A i \in 1 .. n : us[i] \in S
  BY ElementOfSeq
<1>2. CASE \E i \in 1 .. n : us[i] = u
  <2> DEFINE I == {i \in 1 .. n : us[i] = u}
             k == Min(I)
  <2>1. RemoveFirst(us, u) = RemoveAt(us, k)
    BY <1>2, Zenon DEF RemoveFirst, SelectInSeq
  <2>2. k \in 1 .. n /\ us[k] = u
    <3>1. I \in SUBSET Nat /\ I # {}
      BY <1>1, <1>2
    <3> HIDE DEF I
    <3>2. k \in I
      BY <3>1, MinIsLeast
    <3> QED BY <3>2 DEF I
  <2> HIDE DEF k
  <2>3. k - 1 \in 0 .. n /\ k \in 0 .. n /\ (k - 1) + 1 = k
    BY <1>1, <2>2
  <2> DEFINE a == FirstOf(us, k - 1)
             b == RestOf(us, k)
  <2>4. RemoveFirst(us, u) = a \o b
    BY <2>1, Zenon DEF RemoveAt, FirstOf, RestOf
  <2>5. a \in Seq(S) /\ b \in Seq(S) /\ <<u>> \in Seq(S) /\ a \o <<u>> \in Seq(S)
    BY <2>3, Cut, SingleList, ConcatProperties
  <2>6. us = (a \o <<u>>) \o b
    <3>1. FirstOf(us, k) = a \o <<u>>
      <4>1. 1 \in 1 .. n /\ k \in 1 .. n
        BY <2>2
      <4>2. SubSeq(us, 1, k) = SubSeq(us, 1, k - 1) \o <<us[k]>>
        BY <4>1, SubSeqRecursiveSecond
      <4> QED BY <2>2, <4>2, Zenon DEF FirstOf
    <3>2. FirstOf(us, k) \o RestOf(us, k) = us
      BY <2>3, Cut
    <3> QED BY <3>1, <3>2, Zenon
  <2> HIDE DEF a, b
  <2> DEFINE c == <<u>>
             d == a \o c
  <2>0. c \in Seq(S) /\ IdsOf(c) = {u.id} /\ d \in Seq(S) /\ us = d \o b
    BY <2>5, <2>6, SingleList, Zenon
  <2> HIDE DEF c
  <2>1a. /\ IdsOf(d) = IdsOf(a) \cup IdsOf(c)
         /\ Distinct(d) <=> Distinct(a) /\ Distinct(c) /\ IdsOf(a) \cap IdsOf(c) = {}
    BY <2>0, <2>5, ConcatLists
  <2> HIDE DEF d
  <2>1b. /\ IdsOf(d \o b) = IdsOf(d) \cup IdsOf(b)
         /\ Distinct(d \o b) <=> Distinct(d) /\ Distinct(b) /\ IdsOf(d) \cap IdsOf(b) = {}
    BY <2>0, <2>5, ConcatLists
  <2>7. /\ Distinct(d) /\ Distinct(b) /\ IdsOf(d) \cap IdsOf(b) = {}
        /\ IdsOf(us) = IdsOf(d) \cup IdsOf(b)
    BY <2>0, <2>1b, Zenon
  <2>8. /\ Distinct(a) /\ IdsOf(d) = IdsOf(a) \cup {u.id} /\ u.id \notin IdsOf(a)
    BY <2>0, <2>1a, <2>7
  <2>9. /\ a \o b \in Seq(S) /\ Distinct(a \o b) /\ IdsOf(a \o b) = IdsOf(a) \cup IdsOf(b)
    BY <2>5, <2>7, <2>8, ConcatLists
  <2> QED BY <2>4, <2>7, <2>8, <2>9
<1>3. CASE ~\E i \in 1 .. n : us[i] = u
  <2>1. RemoveFirst(us, u) = us
    BY <1>3, Zenon DEF RemoveFirst
  <2>2. u.id \notin IdsOf(us)
    BY <1>1, <1>3 DEF IdsOf
  <2> QED BY <2>1, <2>2
<1> QED BY <1>2, <1>3

\* Two lists that share no UTXO and have none twice.
Lists(sel, rem, S) ==
  /\ sel \in Seq(S) /\ rem \in Seq(S)
  /\ Distinct(sel) /\ Distinct(rem)
  /\ IdsOf(sel) \cap IdsOf(rem) = {}

\* Moving the first UTXOs of the sorted list keeps them so.
\* a has gone from the list rem, of which b is left, to the list sel.
FrontMoved(sel, rem, S, a, b) ==
  /\ a \in Seq(S) /\ Lists(sel \o a, b, S) /\ IdsOf(sel) \subseteq IdsOf(sel \o a)
  /\ IdsOf(sel \o a) \cup IdsOf(b) = IdsOf(sel) \cup IdsOf(rem)
  /\ SumOf(sel \o a) = value_add(SumOf(sel), SumOf(a))

LEMMA MoveFront ==
  ASSUME NEW S \in SUBSET UtxoRecord, NEW sel, NEW rem, Lists(sel, rem, S), NEW t \in Tokens,
         NEW sorted, sorted = compare_utxos_sort(rem, t), NEW k \in 0 .. Len(rem)
  PROVE  FrontMoved(sel, rem, S, FirstOf(sorted, k), RestOf(sorted, k))
<1> DEFINE a == FirstOf(sorted, k)
           b == RestOf(sorted, k)
           c == sel \o a
<1>1. /\ sel \in Seq(S) /\ rem \in Seq(S) /\ Distinct(sel) /\ Distinct(rem)
      /\ IdsOf(sel) \cap IdsOf(rem) = {}
  BY DEF Lists
<1>2. /\ sorted \in Seq(S) /\ Len(sorted) = Len(rem)
      /\ IdsOf(sorted) = IdsOf(rem) /\ Distinct(sorted)
  BY <1>1, SortProperties
<1>3. a \in Seq(S) /\ b \in Seq(S) /\ sorted = a \o b
  BY <1>2, Cut
<1> HIDE DEF a, b
<1>4. /\ IdsOf(a \o b) = IdsOf(a) \cup IdsOf(b)
      /\ Distinct(a \o b) <=> Distinct(a) /\ Distinct(b) /\ IdsOf(a) \cap IdsOf(b) = {}
  BY <1>3, ConcatLists
<1>5. /\ Distinct(a) /\ Distinct(b) /\ IdsOf(a) \cap IdsOf(b) = {}
      /\ IdsOf(rem) = IdsOf(a) \cup IdsOf(b)
  BY <1>2, <1>3, <1>4, Zenon
<1>6. /\ c \in Seq(S) /\ IdsOf(c) = IdsOf(sel) \cup IdsOf(a)
      /\ Distinct(c) <=> Distinct(sel) /\ Distinct(a) /\ IdsOf(sel) \cap IdsOf(a) = {}
  BY <1>1, <1>3, ConcatLists
<1>7. SumOf(c) = value_add(SumOf(sel), SumOf(a))
  BY <1>1, <1>3, WorthOfConcat
<1> HIDE DEF c
<1>8. Distinct(c) /\ IdsOf(c) \cap IdsOf(b) = {} /\ IdsOf(c) \cup IdsOf(b) = IdsOf(sel) \cup IdsOf(rem)
  BY <1>1, <1>5, <1>6
<1>9. Lists(c, b, S) /\ IdsOf(sel) \subseteq IdsOf(c)
  BY <1>3, <1>5, <1>6, <1>8 DEF Lists
<1>10. FrontMoved(sel, rem, S, a, b)
  BY <1>3, <1>7, <1>8, <1>9, Zenon DEF FrontMoved, c
<1> QED BY <1>10 DEF a, b

Holding(rem, t) == Cardinality({i \in DOMAIN rem : rem[i].val[t] > 0})
Got(t, rem, acc, k) == acc[t] + SumOf(FirstOf(compare_utxos_sort(rem, t), k))[t]
Taken(t, required, rem, acc) ==
  Min({k \in 0 .. Holding(rem, t) : k = Holding(rem, t) \/ Got(t, rem, acc, k) >= required})

LEMMA SelectIs ==
  ASSUME NEW t, NEW required, NEW rem, NEW sel, NEW acc
  PROVE  select_utxos(t, required, rem, sel, acc) =
           LET sorted == compare_utxos_sort(rem, t)
               k      == Taken(t, required, rem, acc)
           IN  IF acc[t] >= required
               THEN [ok |-> TRUE, rem |-> rem, sel |-> sel, acc |-> acc]
               ELSE [ok  |-> Got(t, rem, acc, k) >= required,
                     rem |-> RestOf(sorted, k),
                     sel |-> sel \o FirstOf(sorted, k),
                     acc |-> value_add(acc, SumOf(FirstOf(sorted, k)))]
  BY Zenon DEF select_utxos, Taken, Got, Holding, FirstOf, RestOf

\* What a selection for one token does to the lists and to the sums.
SelectResult(s, S, sel, rem, t, required, acc) ==
  /\ Lists(s.sel, s.rem, S) /\ s.acc \in Bundle /\ s.ok \in BOOLEAN
  /\ IdsOf(sel) \subseteq IdsOf(s.sel)
  /\ IdsOf(s.sel) \cup IdsOf(s.rem) = IdsOf(sel) \cup IdsOf(rem)
  /\ acc = SumOf(sel) => s.acc = SumOf(s.sel)
  /\ \A x \in Tokens : SumOf(s.sel)[x] >= SumOf(sel)[x]
  /\ acc[t] >= required => s.ok /\ s.sel = sel /\ s.rem = rem /\ s.acc = acc
  /\ s.ok => s.acc[t] >= required
  /\ ~s.ok => s.acc[t] < required /\ \A i \in 1 .. Len(s.rem) : s.rem[i].val[t] = 0

LEMMA SelectProperties ==
  ASSUME NEW S \in SUBSET UtxoRecord, NEW sel, NEW rem, Lists(sel, rem, S),
         NEW t \in Tokens, NEW required \in Int, NEW acc \in Bundle,
         NEW s, s = select_utxos(t, required, rem, sel, acc)
  PROVE  SelectResult(s, S, sel, rem, t, required, acc)
<1> DEFINE sorted == compare_utxos_sort(rem, t)
           h == Holding(rem, t)
           k == Taken(t, required, rem, acc)
           a == FirstOf(sorted, k)
           b == RestOf(sorted, k)
           got == Got(t, rem, acc, k)
<1>1. sel \in Seq(S) /\ rem \in Seq(S)
  BY DEF Lists
<1>2. SumOf(sel) \in Bundle
  BY <1>1, WorthType
<1>3. CASE acc[t] >= required
  <2>1. s = [ok |-> TRUE, rem |-> rem, sel |-> sel, acc |-> acc]
    BY <1>3, SelectIs, Zenon
  <2>2. s.ok = TRUE /\ s.rem = rem /\ s.sel = sel /\ s.acc = acc
    BY <2>1
  <2>3. \A x \in Tokens : SumOf(sel)[x] >= SumOf(sel)[x]
    BY <1>2 DEF Bundle
  <2> QED BY <1>3, <2>2, <2>3 DEF SelectResult
<1>4. CASE ~(acc[t] >= required)
  <2>1. s = [ok |-> got >= required, rem |-> b, sel |-> sel \o a, acc |-> value_add(acc, SumOf(a))]
    BY <1>4, SelectIs, Zenon
  <2>2. s.ok = (got >= required) /\ s.rem = b /\ s.sel = sel \o a /\ s.acc = value_add(acc, SumOf(a))
    BY <2>1
  <2>3. /\ h \in 0 .. Len(rem) /\ Len(rem) \in Nat /\ Len(sorted) = Len(rem) /\ sorted \in Seq(S)
        /\ \A i \in 1 .. Len(rem) : i > h => sorted[i].val[t] = 0
    BY <1>1, SortProperties DEF Holding
  <2> HIDE DEF h, sorted
  <2>4. k \in 0 .. h /\ (k = h \/ got >= required)
    <3> DEFINE K == {j \in 0 .. h : j = h \/ Got(t, rem, acc, j) >= required}
    <3>1. K \in SUBSET Nat /\ h \in K
      BY <2>3
    <3>2. k = Min(K)
      BY Zenon DEF Taken, h
    <3> HIDE DEF K, k
    <3>3. k \in K
      BY <3>1, <3>2, MinIsLeast
    <3> QED BY <3>3 DEF K
  <2> HIDE DEF k
  <2>5. k \in 0 .. Len(rem)
    BY <2>3, <2>4
  <2>6. /\ a \in Seq(S) /\ Lists(sel \o a, b, S) /\ IdsOf(sel) \subseteq IdsOf(sel \o a)
        /\ IdsOf(sel \o a) \cup IdsOf(b) = IdsOf(sel) \cup IdsOf(rem)
        /\ SumOf(sel \o a) = value_add(SumOf(sel), SumOf(a))
    <3>1. FrontMoved(sel, rem, S, a, b)
      BY <2>5, MoveFront, Zenon DEF sorted
    <3> HIDE DEF a, b
    <3> QED BY <3>1, Zenon DEF FrontMoved
  <2>7. SumOf(a) \in Bundle
    BY <2>6, WorthType
  <2>8. value_add(acc, SumOf(a)) \in Bundle
    BY <2>7, ValueArithmetic
  <2>9. \A x \in Tokens : SumOf(sel \o a)[x] >= SumOf(sel)[x]
    BY <1>2, <2>6, <2>7 DEF value_add, Bundle
  <2>10. got = value_add(acc, SumOf(a))[t]
    BY DEF Got, value_add, sorted
  <2>11. ASSUME ~(got >= required)
         PROVE  value_add(acc, SumOf(a))[t] < required /\ \A i \in 1 .. Len(b) : b[i].val[t] = 0
    <3>1. value_add(acc, SumOf(a))[t] \in Nat
      BY <2>8 DEF Bundle
    <3>2. k = h
      BY <2>4, <2>11
    <3>3. Len(b) = Len(rem) - k /\ \A i \in 1 .. Len(rem) - k : b[i] = sorted[k + i]
      BY <2>3, <2>5, Cut
    <3>4. ASSUME NEW i \in 1 .. Len(b) PROVE b[i].val[t] = 0
      <4>1. k + i \in 1 .. Len(rem) /\ k + i > h /\ i \in 1 .. Len(rem) - k
        BY <2>3, <2>5, <3>2, <3>3
      <4> QED BY <2>3, <3>3, <4>1
    <3> QED BY <2>10, <2>11, <3>1, <3>4
  <2> HIDE DEF a, b, got
  <2>12. Lists(s.sel, s.rem, S) /\ s.acc \in Bundle /\ s.ok \in BOOLEAN
    BY <2>2, <2>6, <2>8
  <2>13. /\ IdsOf(sel) \subseteq IdsOf(s.sel)
         /\ IdsOf(s.sel) \cup IdsOf(s.rem) = IdsOf(sel) \cup IdsOf(rem)
         /\ acc = SumOf(sel) => s.acc = SumOf(s.sel)
         /\ \A x \in Tokens : SumOf(s.sel)[x] >= SumOf(sel)[x]
    BY <2>2, <2>6, <2>9
  <2>14. s.ok => s.acc[t] >= required
    BY <2>2, <2>10
  <2>15. ~s.ok => s.acc[t] < required /\ \A i \in 1 .. Len(s.rem) : s.rem[i].val[t] = 0
    BY <2>2, <2>11
  <2> QED BY <1>4, <2>12, <2>13, <2>14, <2>15 DEF SelectResult
<1> QED BY <1>3, <1>4

-----------------------------------------------------------------------------
(* The change outputs.                                                     *)

\* What the change outputs share of a value they are built from.
PartOf(v, as) == WithCoin(AssetSlice(v, as), compute_min_ada_required(AssetSlice(v, as)))

LEMMA PartProperties ==
  ASSUME NEW v \in Bundle, NEW as \in SUBSET AssetsOf(v)
  PROVE  /\ PartOf(v, as) \in Bundle
         /\ AssetsOf(PartOf(v, as)) = as
         /\ PartOf(v, as)[Ada] = compute_min_ada_required(PartOf(v, as))
         /\ \A a \in Assets : PartOf(v, as)[a] = IF a \in as THEN v[a] ELSE 0
<1> DEFINE w == AssetSlice(v, as)
           c == compute_min_ada_required(w)
           p == PartOf(v, as)
<1>1. w \in Bundle /\ \A t \in Tokens : w[t] = IF t \in as THEN v[t] ELSE 0
  BY DEF AssetSlice, Bundle
<1> HIDE DEF w
<1>2. AssetsOf(w) = as
  <2>1. \A a \in as : a \in Assets /\ a \in Tokens /\ v[a] # 0
    BY TokensAreNat DEF AssetsOf
  <2>2. \A a \in Assets : a \in Tokens
    BY TokensAreNat
  <2> QED BY <1>1, <2>1, <2>2 DEF AssetsOf
<1>3. IsFiniteSet(as) /\ Cardinality(as) \in Nat
  <2>1. IsFiniteSet(Assets)
    BY ValuesAssumption, FS_Interval DEF Assets
  <2>2. as \in SUBSET Assets
    BY DEF AssetsOf
  <2> QED BY <2>1, <2>2, FS_Subset, FS_CardinalityType
<1>4. c = MinAdaBase + MinAdaPerAsset * Cardinality(as) /\ c \in Nat
  <2>1. c = MinAdaBase + MinAdaPerAsset * Cardinality(as)
    BY <1>2 DEF compute_min_ada_required
  <2> DEFINE k == Cardinality(as)
  <2>2. k \in Nat /\ MinAdaBase \in Nat /\ MinAdaPerAsset \in Nat
    BY <1>3, ValuesAssumption
  <2> HIDE DEF k
  <2>3. MinAdaPerAsset * k \in Nat
    BY <2>2
  <2>4. MinAdaBase + MinAdaPerAsset * k \in Nat
    BY <2>2, <2>3
  <2> QED BY <2>1, <2>4 DEF k
<1> HIDE DEF c
<1>5. p = [w EXCEPT ![Ada] = c]
  BY Zenon DEF PartOf, WithCoin, w, c
<1> HIDE DEF p
<1>6. p \in Bundle /\ p[Ada] = c /\ \A a \in Assets : p[a] = w[a]
  BY <1>1, <1>4, <1>5, TokensAreNat DEF Bundle
<1>7. AssetsOf(p) = as
  BY <1>2, <1>6 DEF AssetsOf
<1>8. p[Ada] = compute_min_ada_required(p)
  BY <1>4, <1>6, <1>7 DEF compute_min_ada_required
<1>9. \A a \in Assets : p[a] = IF a \in as THEN v[a] ELSE 0
  BY <1>1, <1>6, TokensAreNat
<1> QED BY <1>6, <1>7, <1>8, <1>9 DEF p

\* The least outputs hold all the assets, each fits and is min-ADA compliant.
LEMMA LeastProperties ==
  ASSUME NEW v \in Bundle
  PROVE  LET least == LeastOutputs(v)
         IN  /\ least \in Seq(Bundle) /\ least # <<>>
             /\ \A a \in Assets : SumValues(least)[a] = v[a]
             /\ \A i \in 1 .. Len(least) : /\ least[i][Ada] = compute_min_ada_required(least[i])
                                           /\ ~value_is_oversized(AssetsOf(least[i]))
             /\ TotalMinAda(v) \in Nat
<1> DEFINE as == AssetsOf(v)
           parts == split_value_assets(as)
           n == Len(parts)
           least == LeastOutputs(v)
<1>1. as \in SUBSET Assets /\ as \in SUBSET Nat /\ IsFiniteSet(as)
  <2>1. IsFiniteSet(Assets)
    BY ValuesAssumption, FS_Interval DEF Assets
  <2>2. as \in SUBSET Assets
    BY DEF AssetsOf
  <2>3. Assets \in SUBSET Nat
    BY TokensAreNat
  <2> QED BY <2>1, <2>2, <2>3, FS_Subset
<1> HIDE DEF as
<1>2. IsSplit(parts, as)
  BY <1>1, SplitIsSplit
<1> HIDE DEF parts
<1>3. n \in Nat /\ n # 0 /\ DOMAIN parts = 1 .. n /\ \A i \in 1 .. n : parts[i] \in SUBSET as
  <2>1. parts \in Seq(SUBSET as) /\ parts # <<>>
    BY <1>2 DEF IsSplit
  <2>2. n \in Nat /\ DOMAIN parts = 1 .. n
    BY <2>1, LenProperties
  <2>3. n # 0
    BY <2>1, EmptySeq
  <2>4. \A i \in 1 .. n : parts[i] \in SUBSET as
    BY <2>1, ElementOfSeq
  <2> QED BY <2>2, <2>3, <2>4
<1>4. least = [i \in 1 .. n |-> PartOf(v, parts[i])]
  <2> DEFINE pt == [i \in DOMAIN parts |-> AssetSlice(v, parts[i])]
  <2>1. least = [i \in DOMAIN parts |-> WithCoin(pt[i], compute_min_ada_required(pt[i]))]
    BY Zenon DEF LeastOutputs, parts, as
  <2>2. \A i \in DOMAIN parts : WithCoin(pt[i], compute_min_ada_required(pt[i])) = PartOf(v, parts[i])
    BY Zenon DEF PartOf
  <2> HIDE DEF pt
  <2> QED BY <1>3, <2>1, <2>2
<1> HIDE DEF least
<1>5. ASSUME NEW i \in 1 .. n
      PROVE  /\ least[i] \in Bundle /\ AssetsOf(least[i]) = parts[i]
             /\ least[i][Ada] = compute_min_ada_required(least[i])
             /\ \A a \in Assets : least[i][a] = IF a \in parts[i] THEN v[a] ELSE 0
  <2>1. least[i] = PartOf(v, parts[i]) /\ parts[i] \in SUBSET AssetsOf(v)
    BY <1>3, <1>4 DEF as
  <2> QED BY <2>1, PartProperties
<1>6. least \in [1 .. n -> Bundle] /\ DOMAIN least = 1 .. n
  BY <1>4, <1>5
<1>7. least \in Seq(Bundle) /\ Len(least) = n /\ least \in Seq(Value) /\ least # <<>>
  <2>1. least \in Seq(Bundle) /\ Len(least) = n
    BY <1>3, <1>6
  <2>2. least \in Seq(Value)
    BY <2>1, SeqMonotonic, ValueArithmetic
  <2>3. least # <<>>
    BY <1>3, <2>1
  <2> QED BY <2>1, <2>2, <2>3
<1>8. ASSUME NEW a \in Assets PROVE SumValues(least)[a] = v[a]
  <2>1. a \in Tokens
    BY TokensAreNat
  <2>2. CASE a \in as
    <3>1. PICK j \in 1 .. n : a \in parts[j]
      BY <1>2, <2>2 DEF IsSplit
    <3>2. \A i \in 1 .. n : i # j => a \notin parts[i]
      BY <1>2, <3>1 DEF IsSplit
    <3>3. least[j][a] = v[a] /\ \A i \in 1 .. n : i # j => least[i][a] = 0
      BY <1>5, <3>1, <3>2
    <3> QED BY <1>7, <2>1, <3>3, SumOfOne
  <2>3. CASE a \notin as
    <3>1. v[a] = 0
      BY <2>3 DEF as, AssetsOf
    <3>2. \A i \in 1 .. n : least[i][a] = 0
      BY <1>3, <1>5, <2>3
    <3> QED BY <1>7, <2>1, <3>1, <3>2, SumOfNone
  <2> QED BY <2>2, <2>3
<1>9. \A i \in 1 .. n : ~value_is_oversized(AssetsOf(least[i]))
  BY <1>2, <1>5 DEF IsSplit
<1>10. TotalMinAda(v) \in Nat
  <2>1. SumValues(least) \in Bundle
    BY <1>7, SumOfBundles
  <2> QED BY <2>1, TokensAreNat DEF Bundle, TotalMinAda, least
<1> QED BY <1>5, <1>7, <1>8, <1>9, <1>10 DEF least

IsEmission(ch, least, v) ==
  ch = [least EXCEPT ![Len(least)] = WithCoin(@, @[Ada] + (v[Ada] - TotalMinAda(v)))]

AreOutputsOf(ch, v) ==
  /\ ch \in Seq(Bundle)
  /\ SumValues(ch) = v
  /\ \A i \in 1 .. Len(ch) : /\ ch[i][Ada] >= compute_min_ada_required(ch[i])
                             /\ ~value_is_oversized(AssetsOf(ch[i]))

\* The change the last action writes: it is worth the change value, and every
\* output of it fits and is min-ADA compliant.
LEMMA EmitProperties ==
  ASSUME NEW v \in Bundle, v[Ada] >= TotalMinAda(v), NEW least, least = LeastOutputs(v),
         NEW ch, IsEmission(ch, least, v)
  PROVE  AreOutputsOf(ch, v)
<1> DEFINE n == Len(least)
           total == TotalMinAda(v)
           last == least[n]
           w == WithCoin(last, last[Ada] + (v[Ada] - total))
<1>1. /\ least \in Seq(Bundle) /\ least # <<>>
      /\ \A a \in Assets : SumValues(least)[a] = v[a]
      /\ \A i \in 1 .. n : /\ least[i][Ada] = compute_min_ada_required(least[i])
                           /\ ~value_is_oversized(AssetsOf(least[i]))
      /\ total \in Nat
  BY LeastProperties
<1>2. total = SumValues(least)[Ada]
  BY DEF TotalMinAda
<1>3. n \in Nat /\ n \in 1 .. n /\ last \in Bundle /\ v[Ada] \in Nat
  <2>1. n \in Nat /\ n # 0
    BY <1>1, EmptySeq
  <2>2. last \in Bundle
    BY <1>1, <2>1, ElementOfSeq
  <2> QED BY <2>1, <2>2, TokensAreNat DEF Bundle
<1> HIDE DEF total
<1>4. /\ w \in Bundle /\ w[Ada] = last[Ada] + (v[Ada] - total)
      /\ \A a \in Assets : w[a] = last[a]
  <2>1. last[Ada] \in Nat /\ v[Ada] - total \in Nat
    BY <1>1, <1>3, TokensAreNat DEF Bundle, total
  <2>2. last[Ada] + (v[Ada] - total) \in Nat
    BY <2>1
  <2> HIDE DEF last
  <2> QED BY <1>3, <2>2, TokensAreNat DEF WithCoin, Bundle
<1>5. ch = [least EXCEPT ![n] = w]
  BY Zenon DEF IsEmission, total
<1> HIDE DEF w, n
<1>6. ch \in Seq(Bundle) /\ Len(ch) = n /\ \A i \in 1 .. n : ch[i] = IF i = n THEN w ELSE least[i]
  <2>1. least \in Seq(Bundle) /\ Len(least) = n /\ DOMAIN least = 1 .. n
    BY <1>1 DEF n
  <2>2. \A i \in 1 .. n : ch[i] = IF i = n THEN w ELSE least[i]
    BY <1>3, <1>5, <2>1
  <2>3. DOMAIN ch = 1 .. n
    BY <1>5, <2>1
  <2>4. \A i \in 1 .. n : ch[i] \in Bundle
    BY <1>4, <2>1, <2>2, ElementOfSeq
  <2>5. ch \in [1 .. n -> Bundle]
    BY <1>5, <2>3, <2>4
  <2> QED BY <1>3, <2>2, <2>5
<1>7. ASSUME NEW t \in Tokens PROVE SumValues(ch)[t] = v[t]
  <2>1. least \in Seq(Value) /\ w \in Value
    BY <1>1, <1>4, SeqMonotonic, ValueArithmetic
  <2>2. SumValues([least EXCEPT ![n] = w])[t] = SumValues(least)[t] - last[t] + w[t]
    BY <1>1, <2>1, SumReplaceLast DEF n
  <2>3. SumValues(ch)[t] = SumValues(least)[t] - last[t] + w[t]
    BY <1>5, <2>2
  <2>4. last[t] \in Nat /\ SumValues(least)[t] \in Int
    BY <1>3, <2>1, SumType DEF Bundle, Value
  <2> HIDE DEF last
  <2>5. CASE t = Ada
    <3>1. SumValues(ch)[t] = total - last[Ada] + (last[Ada] + (v[Ada] - total))
      BY <1>2, <1>4, <2>3, <2>5
    <3> QED BY <1>1, <1>3, <2>4, <2>5, <3>1
  <2>6. CASE t \in Assets
    <3>1. SumValues(ch)[t] = v[t] - last[t] + last[t] /\ v[t] \in Nat
      BY <1>1, <1>4, <2>3, <2>6 DEF Bundle
    <3> QED BY <2>4, <3>1
  <2>7. t = Ada \/ t \in Assets
    BY ValuesAssumption DEF Tokens, Ada, Assets
  <2> QED BY <2>5, <2>6, <2>7
<1>8. SumValues(ch) = v
  <2>1. SumValues(ch) \in Bundle
    BY <1>6, SumOfBundles
  <2> DEFINE z == SumValues(ch)
  <2>2. z \in [Tokens -> Nat] /\ v \in [Tokens -> Nat] /\ \A t \in Tokens : z[t] = v[t]
    BY <1>7, <2>1 DEF Bundle
  <2> HIDE DEF z
  <2>3. z = v
    BY <2>2
  <2> QED BY <2>3 DEF z
<1>9. ASSUME NEW i \in 1 .. n
      PROVE  ch[i][Ada] >= compute_min_ada_required(ch[i]) /\ ~value_is_oversized(AssetsOf(ch[i]))
  <2>0. least[i] \in Bundle
    BY <1>1, ElementOfSeq DEF n
  <2>1. AssetsOf(ch[i]) = AssetsOf(least[i])
    <3>1. \A a \in Assets : ch[i][a] = least[i][a]
      BY <1>4, <1>6
    <3> QED BY <3>1 DEF AssetsOf
  <2>2. compute_min_ada_required(ch[i]) = least[i][Ada] /\ ~value_is_oversized(AssetsOf(least[i]))
    BY <1>1, <2>1 DEF compute_min_ada_required, n
  <2>3. ch[i][Ada] >= least[i][Ada]
    <3>1. least[i][Ada] \in Nat /\ v[Ada] - total \in Nat
      <4>1. least[i][Ada] \in Nat /\ v[Ada] \in Nat
        BY <2>0, TokensAreNat DEF Bundle
      <4> QED BY <1>1, <1>3, <4>1 DEF total
    <3> QED BY <1>4, <1>6, <3>1
  <2> QED BY <2>1, <2>2, <2>3
<1> QED BY <1>6, <1>8, <1>9 DEF AreOutputsOf

-----------------------------------------------------------------------------
(* The tokens of the target.                                               *)

AskedFor == req.target[Ada] > 0 \/ AssetsOf(req.target) # {}

LEMMA NothingAskedFor ==
  ASSUME req.target \in Value, ~AskedFor
  PROVE  \A t \in Tokens : req.target[t] <= 0
<1>1. \A t \in Tokens : t = Ada \/ t \in Assets
  BY ValuesAssumption DEF Tokens, Ada, Assets
<1>2. \A t \in Tokens : req.target[t] \in Int
  BY DEF Value
<1> QED BY <1>1, <1>2, TokensAreNat DEF AskedFor, AssetsOf

LEMMA TargetTokensProperties ==
  ASSUME req.target \in Value
  PROVE  \E n \in Nat :
           /\ TargetTokens \in [1 .. n -> Tokens]
           /\ \A t \in Tokens : req.target[t] # 0 => \E i \in 1 .. n : TargetTokens[i] = t
<1> DEFINE T == TokensOf(req.target)
           R == {p \in Tokens \X Tokens : p[2] # Ada /\ (p[1] = Ada \/ p[1] < p[2])}
<1>1. T \in SUBSET Tokens /\ IsFiniteSet(T)
  <2>1. IsFiniteSet(Tokens)
    BY ValuesAssumption, FS_Interval DEF Tokens
  <2>2. T \in SUBSET Tokens
    BY DEF TokensOf
  <2> QED BY <2>1, <2>2, FS_Subset
<1>2. \A x, y \in Tokens : <<x, y>> \in R <=> y # Ada /\ (x = Ada \/ x < y)
  OBVIOUS
<1>3. TargetTokens = InOrder(T, R)
  BY Zenon DEF TargetTokens
<1> HIDE DEF R
<1>4. IsOrder(T, R)
  <2>1. \A x \in Tokens : x \in Nat
    BY TokensAreNat
  <2>2. \A x, y \in Tokens : x = y \/ <<x, y>> \in R \/ <<y, x>> \in R
    <3> TAKE x, y \in Tokens
    <3>1. x < y \/ y < x \/ x = y
      BY <2>1
    <3>2. x = Ada \/ y = Ada \/ (x # Ada /\ y # Ada)
      OBVIOUS
    <3> QED BY <1>2, <3>1, <3>2, Zenon
  <2>3. \A x \in Tokens : <<x, x>> \notin R
    BY <1>2, <2>1
  <2>4. \A x, y, z \in Tokens : <<x, y>> \in R /\ <<y, z>> \in R => <<x, z>> \in R
    BY <1>2, <2>1
  <2> HIDE DEF T
  <2> QED BY <1>1, <2>2, <2>3, <2>4 DEF IsOrder
<1> DEFINE n == Cardinality(T)
           f == InOrder(T, R)
<1> HIDE DEF T
<1>5. n \in Nat /\ f \in [1 .. n -> T] /\ \A x \in T : \E i \in 1 .. n : f[i] = x
  BY <1>1, <1>4, InOrderProperties
<1> HIDE DEF f, n
<1>6. f \in [1 .. n -> Tokens]
  BY <1>1, <1>5
<1>7. \A t \in Tokens : req.target[t] # 0 => t \in T
  BY DEF T, TokensOf
<1>8. f = TargetTokens
  BY <1>3 DEF f
<1> QED BY <1>5, <1>6, <1>7, <1>8

-----------------------------------------------------------------------------
(* The invariant.                                                          *)

\* The call never shares a UTXO between its lists.
Moved == Lists(selection, remaining, Ledger(req))

\* While the pre-selected UTXOs are taken, in order, they leave the other list.
Preselecting ==
  pc = "preselect" =>
    /\ next \in 1 .. Len(req.pre) + 1
    /\ selection = FirstOf(req.pre, next - 1)
    /\ IdsOf(remaining) = IdsOf(req.available) \ IdsOf(selection)
    /\ accumulated = SumOf(selection)

\* Afterwards the lists have all the UTXOs of the request.
Shared ==
  pc # "preselect" =>
    /\ IdsOf(selection) \cup IdsOf(remaining) = IdsOf(req.pre) \cup IdsOf(req.available)
    /\ IdsOf(req.pre) \subseteq IdsOf(selection)

Summed == pc \in {"tokens", "build"} /\ AskedFor => accumulated = SumOf(selection)

\* The tokens the loop has passed are covered, in the end all of them.
Covered ==
  pc = "tokens" =>
    /\ next # 0
    /\ \A i \in DOMAIN TargetTokens :
         i < next => SumOf(selection)[TargetTokens[i]] >= req.target[TargetTokens[i]]

Met == pc = "build" => \A t \in Tokens : SumOf(selection)[t] >= req.target[t]

\* The change is what the selection is worth beyond the target.
Owed ==
  pc = "fund" => changeValue = value_subtract(SumOf(selection), req.target) /\ changeValue # ZeroValue

IInv ==
  /\ TypeOK /\ Moved /\ Preselecting /\ Shared /\ Summed /\ Covered /\ Met /\ Owed
  /\ FailureIsLegitimate

\* The request does not change.
LEMMA RequestFixed ==
  ASSUME TypeOK, req' = req
  PROVE  /\ req \in Requests /\ req.target \in Value
         /\ Ledger(req) \in SUBSET UtxoRecord
         /\ Ledger(req') = Ledger(req) /\ TargetTokens' = TargetTokens /\ AskedFor' = AskedFor
<1>1. req \in Requests
  BY DEF TypeOK
<1>2. req.target \in Value
  BY <1>1, RequestsAssumption
<1>3. Ledger(req) \in SUBSET UtxoRecord
  BY <1>1, LedgerProperties
<1>4. TargetTokens' = TargetTokens /\ AskedFor' = AskedFor
  BY DEF TargetTokens, AskedFor
<1> QED BY <1>1, <1>2, <1>3, <1>4

\* A list of UTXOs that is not empty is worth some lovelace.
LEMMA WorthSomething ==
  ASSUME NEW r \in Requests, NEW us \in Seq(Ledger(r)), us # <<>>
  PROVE  SumOf(us)[Ada] > 0
<1> DEFINE S == Ledger(r)
<1>1. S \in SUBSET UtxoRecord /\ \A u \in S : u.val[Ada] > 0
  BY LedgerProperties
<1> HIDE DEF S
<1>2. us \in Seq(S)
  BY DEF S
<1>3. PICK f \in Seq(S), e \in S : us = Append(f, e)
  BY <1>2, SequenceEmptyOrAppend
<1>4. us = f \o <<e>> /\ <<e>> \in Seq(S) /\ e \in UtxoRecord
  BY <1>1, <1>3, AppendIsConcat, SingleSeq
<1>5. SumOf(us) = value_add(SumOf(f), SumOf(<<e>>))
  BY <1>1, <1>4, WorthOfConcat
<1>6. SumOf(<<e>>) = e.val /\ SumOf(f) \in Bundle
  BY <1>1, <1>4, WorthOfOne, WorthType
<1>7. SumOf(us)[Ada] = SumOf(f)[Ada] + e.val[Ada]
  BY <1>5, <1>6, TokensAreNat DEF value_add
<1>8. SumOf(f)[Ada] \in Nat /\ e.val[Ada] \in Nat /\ e.val[Ada] > 0
  BY <1>1, <1>4, <1>6, TokensAreNat DEF Bundle, UtxoRecord
<1> QED BY <1>7, <1>8

LEMMA InitIInv == Init => IInv
<1> SUFFICES ASSUME Init PROVE IInv
  OBVIOUS
<1> DEFINE S == Ledger(req)
<1>1. /\ req \in Requests /\ req.pre \in Seq(S) /\ req.available \in Seq(S)
      /\ S \in SUBSET UtxoRecord /\ Distinct(req.available)
  BY LedgerProperties, RequestsAssumption DEF Init
<1> HIDE DEF S
<1>2. ZeroValue \in Bundle
  BY ValueArithmetic
<1>3. remaining \in Seq(UtxoRecord)
  BY <1>1, SeqMonotonic DEF Init
<1>4. TypeOK
  <2>1. <<>> \in Seq(UtxoRecord) /\ <<>> \in Seq(Bundle)
    OBVIOUS
  <2> QED BY <1>1, <1>2, <1>3, <2>1 DEF TypeOK, Init
<1>5. IdsOf(<<>>) = {} /\ Distinct(<<>>) /\ <<>> \in Seq(S)
  BY DEF IdsOf, Distinct
<1>6. Moved
  BY <1>1, <1>5 DEF Moved, Lists, Init, S
<1>7. Preselecting
  <2>1. Len(req.pre) \in Nat
    BY <1>1
  <2>2. 1 \in 1 .. Len(req.pre) + 1 /\ 1 - 1 = 0
    BY <2>1
  <2>3. FirstOf(req.pre, 0) = <<>>
    BY SubSeqEmpty DEF FirstOf
  <2> QED BY <1>5, <2>2, <2>3, WorthOfNone DEF Preselecting, Init
<1>8. Shared /\ Summed /\ Covered /\ Met /\ Owed /\ FailureIsLegitimate
  BY DEF Shared, Summed, Covered, Met, Owed, FailureIsLegitimate, Init
<1> QED BY <1>4, <1>6, <1>7, <1>8 DEF IInv

LEMMA TakePreselectedKept == IInv /\ TakePreselected => IInv'
<1> SUFFICES ASSUME IInv, TakePreselected PROVE IInv'
  OBVIOUS
<1> DEFINE S == Ledger(req)
           pre == req.pre
           u == pre[next]
<1>1. /\ TypeOK /\ Moved /\ Preselecting
      /\ pc = "preselect" /\ pc' = "preselect" /\ next \in DOMAIN pre /\ next' = next + 1
      /\ selection' = Append(selection, u) /\ accumulated' = value_add(accumulated, u.val)
      /\ remaining' = RemoveFirst(remaining, u)
      /\ req' = req /\ changeValue' = changeValue /\ change' = change
  BY DEF IInv, TakePreselected
<1>2. /\ req \in Requests /\ S \in SUBSET UtxoRecord /\ Ledger(req') = S
      /\ pre \in Seq(S) /\ Distinct(pre) /\ \A v, w \in S : v.id = w.id => v = w
  BY <1>1, RequestFixed, LedgerProperties, RequestsAssumption
<1>3. selection \in Seq(S) /\ remaining \in Seq(S) /\ Distinct(selection) /\ Distinct(remaining)
  BY <1>1 DEF Moved, Lists
<1> HIDE DEF S
<1>4. Len(pre) \in Nat /\ next \in 1 .. Len(pre) /\ u \in S
  BY <1>1, <1>2, ElementOfSeq
<1>5. /\ selection = FirstOf(pre, next - 1) /\ accumulated = SumOf(selection)
      /\ IdsOf(remaining) = IdsOf(req.available) \ IdsOf(selection)
  BY <1>1 DEF Preselecting
<1> HIDE DEF pre, u
<1>6. selection' = selection \o <<u>> /\ <<u>> \in Seq(S) /\ selection' \in Seq(S)
      /\ IdsOf(<<u>>) = {u.id}
  <2>1. Append(selection, u) = selection \o <<u>> /\ Append(selection, u) \in Seq(S)
    BY <1>3, <1>4, AppendIsConcat, AppendProperties
  <2>2. <<u>> \in Seq(S) /\ IdsOf(<<u>>) = {u.id}
    BY <1>4, SingleList
  <2> QED BY <1>1, <2>1, <2>2
<1>7. selection' = FirstOf(pre, next)
  <2>1. SubSeq(pre, 1, next) = SubSeq(pre, 1, next - 1) \o <<pre[next]>>
    <3>1. 1 \in 1 .. Len(pre) /\ next \in 1 .. Len(pre)
      BY <1>4
    <3> QED BY <1>2, <3>1, SubSeqRecursiveSecond
  <2> QED BY <1>5, <1>6, <2>1, Zenon DEF FirstOf, u
<1>8. Distinct(selection')
  <2>1. next \in 0 .. Len(pre)
    BY <1>4
  <2> DEFINE a == FirstOf(pre, next)
             b == RestOf(pre, next)
  <2>2. a \in Seq(S) /\ b \in Seq(S) /\ pre = a \o b
    BY <1>2, <2>1, Cut
  <2> HIDE DEF a, b
  <2>3. Distinct(a \o b) => Distinct(a)
    BY <2>2, ConcatLists
  <2>4. Distinct(a)
    BY <1>2, <2>2, <2>3, Zenon
  <2> QED BY <1>7, <2>4 DEF a
<1>9. IdsOf(selection') = IdsOf(selection) \cup {u.id}
  <2> DEFINE c == <<u>>
  <2>1. c \in Seq(S) /\ IdsOf(c) = {u.id} /\ selection' = selection \o c
    BY <1>6
  <2> HIDE DEF c
  <2>2. IdsOf(selection \o c) = IdsOf(selection) \cup IdsOf(c)
    BY <1>3, <2>1, ConcatLists
  <2> QED BY <2>1, <2>2, Zenon
<1>10. /\ remaining' \in Seq(S) /\ Distinct(remaining')
       /\ IdsOf(remaining') = IdsOf(remaining) \ {u.id}
  BY <1>1, <1>2, <1>3, <1>4, RemoveProperties, SMTT(30)
<1>11. Moved'
  <2>1. IdsOf(selection') \cap IdsOf(remaining') = {}
    BY <1>5, <1>9, <1>10
  <2>2. Lists(selection', remaining', Ledger(req'))
    BY <1>2, <1>6, <1>8, <1>10, <2>1 DEF Lists
  <2> QED BY <2>2 DEF Moved, Lists, IdsOf, Distinct
<1>12. SumOf(selection') = accumulated' /\ accumulated' \in Bundle
  <2>1. SumOf(selection \o <<u>>) = value_add(SumOf(selection), SumOf(<<u>>))
    BY <1>2, <1>3, <1>6, WorthOfConcat
  <2>2. SumOf(<<u>>) = u.val
    BY <1>2, <1>4, WorthOfOne
  <2>3. SumOf(selection') = accumulated'
    BY <1>1, <1>5, <1>6, <2>1, <2>2, Zenon
  <2>4. SumOf(selection') \in Bundle
    BY <1>2, <1>6, WorthType
  <2> QED BY <2>3, <2>4
<1>13. Preselecting'
  <2>1. next' \in 1 .. Len(pre) + 1 /\ next' - 1 = next
    BY <1>1, <1>4
  <2>2. selection' = FirstOf(req'.pre, next' - 1)
    BY <1>1, <1>7, <2>1 DEF pre
  <2>3. IdsOf(remaining') = IdsOf(req'.available) \ IdsOf(selection')
    BY <1>1, <1>5, <1>9, <1>10
  <2> QED BY <1>1, <1>12, <2>1, <2>2, <2>3 DEF Preselecting, FirstOf, IdsOf, SumOf, pre
<1>14. TypeOK'
  <2>1. selection' \in Seq(UtxoRecord) /\ remaining' \in Seq(UtxoRecord)
    BY <1>2, <1>6, <1>10, SeqMonotonic
  <2>2. next' \in Nat
    BY <1>1, <1>4
  <2> QED BY <1>1, <1>12, <2>1, <2>2 DEF TypeOK
<1>15. (Shared /\ Summed /\ Covered /\ Met /\ Owed /\ FailureIsLegitimate)'
  BY <1>1 DEF Shared, Summed, Covered, Met, Owed, FailureIsLegitimate
<1> QED BY <1>11, <1>13, <1>14, <1>15 DEF IInv

LEMMA EnsureInputKept == IInv /\ EnsureInput => IInv'
<1> SUFFICES ASSUME IInv, EnsureInput PROVE IInv'
  OBVIOUS
<1> DEFINE S == Ledger(req)
<1>1. /\ TypeOK /\ Moved /\ Preselecting
      /\ pc = "preselect" /\ next \notin DOMAIN req.pre /\ next' = 1
      /\ req' = req /\ accumulated' = accumulated /\ changeValue' = changeValue /\ change' = change
  BY DEF IInv, EnsureInput
<1>2. /\ req \in Requests /\ S \in SUBSET UtxoRecord /\ Ledger(req') = S
      /\ TargetTokens' = TargetTokens /\ AskedFor' = AskedFor
      /\ req.pre \in Seq(S) /\ req.target \in Value
  BY <1>1, RequestFixed, LedgerProperties
<1>3. /\ Lists(selection, remaining, S) /\ accumulated = SumOf(selection)
      /\ IdsOf(remaining) = IdsOf(req.available) \ IdsOf(selection)
  BY <1>1 DEF Moved, Preselecting
<1> HIDE DEF S
<1>4. selection = req.pre
  <2> DEFINE pre == req.pre
  <2>1. pre \in Seq(S) /\ Len(pre) \in Nat /\ DOMAIN pre = 1 .. Len(pre)
    BY <1>2
  <2>2. next \in 1 .. Len(pre) + 1 /\ next \notin 1 .. Len(pre) /\ selection = FirstOf(pre, next - 1)
    BY <1>1, <2>1 DEF Preselecting
  <2>3. next - 1 = Len(pre)
    BY <2>1, <2>2
  <2>4. FirstOf(pre, Len(pre)) = pre
    BY <2>1, SubSeqFull DEF FirstOf
  <2> QED BY <2>2, <2>3, <2>4, Zenon
<1>5. /\ IdsOf(selection) \cup IdsOf(remaining) = IdsOf(req.pre) \cup IdsOf(req.available)
      /\ IdsOf(req.pre) \subseteq IdsOf(selection)
  BY <1>3, <1>4
<1>6. next' # 0 /\ \A i \in DOMAIN TargetTokens : ~(i < next')
  <2>1. PICK n \in Nat : TargetTokens \in [1 .. n -> Tokens]
    BY <1>2, TargetTokensProperties
  <2> QED BY <1>1, <2>1
<1>7. CASE req.target[Ada] <= 0 /\ AssetsOf(req.target) = {} /\ selection = <<>>
  <2> DEFINE s == select_utxos(Ada, 1, remaining, selection, ZeroValue)
  <2>1. selection' = s.sel /\ remaining' = s.rem /\ pc' = IF s.ok THEN "tokens" ELSE "failed"
    BY <1>7 DEF EnsureInput
  <2>2. /\ Lists(s.sel, s.rem, S) /\ s.ok \in BOOLEAN /\ IdsOf(selection) \subseteq IdsOf(s.sel)
        /\ IdsOf(s.sel) \cup IdsOf(s.rem) = IdsOf(selection) \cup IdsOf(remaining)
        /\ ZeroValue = SumOf(selection) => s.acc = SumOf(s.sel)
        /\ ~s.ok => s.acc[Ada] < 1 /\ \A i \in 1 .. Len(s.rem) : s.rem[i].val[Ada] = 0
    <3>1. s = select_utxos(Ada, 1, remaining, selection, ZeroValue)
      OBVIOUS
    <3> HIDE DEF s
    <3>2. 1 \in Int /\ Ada \in Tokens /\ ZeroValue \in Bundle
      BY ValueArithmetic, TokensAreNat
    <3>3. SelectResult(s, S, selection, remaining, Ada, 1, ZeroValue)
      BY <1>2, <1>3, <3>1, <3>2, SelectProperties, Zenon
    <3> QED BY <3>3 DEF SelectResult
  <2> HIDE DEF s
  <2>3. Lists(selection', remaining', S)
    BY <2>1, <2>2
  <2>4. ~AskedFor
    BY <1>2, <1>7, TokensAreNat DEF AskedFor, Value
  <2>5. ASSUME ~s.ok PROVE selection' \o remaining' = <<>>
    <3>1. s.sel \in Seq(S) /\ s.rem \in Seq(S)
      BY <2>2 DEF Lists
    <3>2. SumOf(s.sel)[Ada] < 1
      BY <1>7, <2>2, <2>5, WorthOfNone
    <3>3. s.sel = <<>>
      <4>1. s.sel # <<>> => SumOf(s.sel)[Ada] > 0
        BY <1>2, <3>1, WorthSomething DEF S
      <4>2. SumOf(s.sel)[Ada] \in Nat
        BY <1>2, <3>1, WorthType, TokensAreNat DEF Bundle
      <4> QED BY <3>2, <4>1, <4>2
    <3>4. s.rem = <<>>
      <4> SUFFICES ASSUME s.rem # <<>> PROVE FALSE
        OBVIOUS
      <4>1. 1 \in 1 .. Len(s.rem)
        BY <3>1, EmptySeq
      <4>2. s.rem[1] \in S /\ s.rem[1].val[Ada] = 0
        BY <2>2, <2>5, <3>1, <4>1, ElementOfSeq
      <4>3. s.rem[1].val[Ada] > 0
        BY <1>2, <4>2, LedgerProperties DEF S
      <4> QED BY <4>2, <4>3
    <3> QED BY <2>1, <3>3, <3>4
  <2>6. /\ IdsOf(selection') \cup IdsOf(remaining') = IdsOf(req.pre) \cup IdsOf(req.available)
        /\ IdsOf(req.pre) \subseteq IdsOf(selection')
    BY <1>5, <2>1, <2>2
  <2>7. pc' \in {"tokens", "failed"} /\ (pc' = "failed" => ~s.ok)
    BY <2>1
  <2>8. FailureIsLegitimate'
    BY <2>5, <2>7 DEF FailureIsLegitimate
  <2>9. TypeOK'
    <3>1. selection' \in Seq(UtxoRecord) /\ remaining' \in Seq(UtxoRecord)
      BY <1>2, <2>3, SeqMonotonic DEF Lists
    <3> QED BY <1>1, <2>7, <3>1 DEF TypeOK
  <2>10. Moved'
    BY <1>2, <2>3 DEF Moved, Lists, IdsOf, Distinct
  <2>11. Shared'
    BY <1>1, <2>6 DEF Shared, IdsOf
  <2>12. Covered'
    BY <1>2, <1>6 DEF Covered
  <2>13. (Preselecting /\ Summed /\ Met /\ Owed)'
    BY <1>2, <2>4, <2>7 DEF Preselecting, Summed, Met, Owed
  <2> QED BY <2>8, <2>9, <2>10, <2>11, <2>12, <2>13 DEF IInv
<1>8. CASE ~(req.target[Ada] <= 0 /\ AssetsOf(req.target) = {} /\ selection = <<>>)
  <2>1. pc' = "tokens" /\ selection' = selection /\ remaining' = remaining
    BY <1>8 DEF EnsureInput
  <2>2. TypeOK'
    BY <1>1, <2>1 DEF TypeOK
  <2>3. Moved'
    BY <1>1, <2>1 DEF Moved
  <2>4. Shared'
    BY <1>1, <1>5, <2>1 DEF Shared
  <2>5. Covered'
    BY <1>2, <1>6 DEF Covered
  <2>6. Summed'
    BY <1>1, <1>3, <2>1 DEF Summed
  <2>7. (Preselecting /\ Met /\ Owed /\ FailureIsLegitimate)'
    BY <2>1 DEF Preselecting, Met, Owed, FailureIsLegitimate
  <2> QED BY <2>2, <2>3, <2>4, <2>5, <2>6, <2>7 DEF IInv
<1> QED BY <1>7, <1>8

LEMMA SelectTokenKept == IInv /\ SelectToken => IInv'
<1> SUFFICES ASSUME IInv, SelectToken PROVE IInv'
  OBVIOUS
<1> DEFINE S == Ledger(req)
           t == TargetTokens[next]
           s == select_utxos(t, req.target[t], remaining, selection, accumulated)
<1>1. /\ TypeOK /\ Moved /\ Shared /\ Summed /\ Covered
      /\ pc = "tokens" /\ next \in DOMAIN TargetTokens /\ next' = next + 1
      /\ selection' = s.sel /\ remaining' = s.rem /\ accumulated' = s.acc
      /\ pc' = IF s.ok THEN "tokens" ELSE "failed"
      /\ req' = req /\ changeValue' = changeValue /\ change' = change
  BY DEF IInv, SelectToken
<1>2. /\ req \in Requests /\ S \in SUBSET UtxoRecord /\ Ledger(req') = S
      /\ TargetTokens' = TargetTokens /\ AskedFor' = AskedFor /\ req.target \in Value
  BY <1>1, RequestFixed
<1>3. Lists(selection, remaining, S) /\ accumulated \in Bundle /\ next \in Nat
  BY <1>1 DEF Moved, TypeOK
<1> HIDE DEF S
<1>4. PICK n \in Nat : TargetTokens \in [1 .. n -> Tokens]
  BY <1>2, TargetTokensProperties
<1>5. t \in Tokens /\ req.target[t] \in Int
  BY <1>1, <1>2, <1>4 DEF Value
<1> HIDE DEF t
<1>6. /\ Lists(s.sel, s.rem, S) /\ s.acc \in Bundle /\ s.ok \in BOOLEAN
      /\ IdsOf(selection) \subseteq IdsOf(s.sel)
      /\ IdsOf(s.sel) \cup IdsOf(s.rem) = IdsOf(selection) \cup IdsOf(remaining)
      /\ accumulated = SumOf(selection) => s.acc = SumOf(s.sel)
      /\ \A x \in Tokens : SumOf(s.sel)[x] >= SumOf(selection)[x]
      /\ accumulated[t] >= req.target[t] => s.ok
      /\ s.ok => s.acc[t] >= req.target[t]
      /\ ~s.ok => s.acc[t] < req.target[t] /\ \A i \in 1 .. Len(s.rem) : s.rem[i].val[t] = 0
  <2>1. s = select_utxos(t, req.target[t], remaining, selection, accumulated)
    OBVIOUS
  <2> HIDE DEF s
  <2>2. SelectResult(s, S, selection, remaining, t, req.target[t], accumulated)
    BY <1>2, <1>3, <1>5, <2>1, SelectProperties, Zenon
  <2> QED BY <2>2 DEF SelectResult
<1> HIDE DEF s
<1>7. AskedFor => s.acc = SumOf(s.sel)
  BY <1>1, <1>6 DEF Summed
<1>8. /\ selection \in Seq(S) /\ s.sel \in Seq(S) /\ s.rem \in Seq(S)
      /\ SumOf(selection) \in Bundle /\ SumOf(s.sel) \in Bundle /\ SumOf(s.rem) \in Bundle
  <2>1. selection \in Seq(S) /\ s.sel \in Seq(S) /\ s.rem \in Seq(S)
    BY <1>3, <1>6 DEF Lists
  <2> QED BY <1>2, <2>1, WorthType
<1>9. TypeOK'
  <2>1. selection' \in Seq(UtxoRecord) /\ remaining' \in Seq(UtxoRecord)
    BY <1>1, <1>2, <1>8, SeqMonotonic
  <2>2. next' \in Nat /\ pc' \in {"tokens", "failed"}
    BY <1>1, <1>3
  <2> QED BY <1>1, <1>6, <2>1, <2>2 DEF TypeOK
<1>10. Moved'
  <2>1. Lists(selection', remaining', S)
    BY <1>1, <1>6
  <2> QED BY <1>2, <2>1 DEF Moved, Lists, IdsOf, Distinct
<1>11. Shared'
  <2>1. /\ IdsOf(selection') \cup IdsOf(remaining') = IdsOf(req.pre) \cup IdsOf(req.available)
        /\ IdsOf(req.pre) \subseteq IdsOf(selection')
    BY <1>1, <1>6 DEF Shared
  <2>2. req' = req
    BY <1>1
  <2> QED BY <2>1, <2>2 DEF Shared, IdsOf
<1>12. ASSUME s.ok
       PROVE  \A i \in DOMAIN TargetTokens :
                i < next' => SumOf(selection')[TargetTokens[i]] >= req.target[TargetTokens[i]]
  <2> TAKE i \in DOMAIN TargetTokens
  <2> HAVE i < next'
  <2> DEFINE x == TargetTokens[i]
  <2>1. x \in Tokens /\ i \in Nat
    BY <1>4
  <2>2. SumOf(s.sel)[x] \in Nat /\ SumOf(selection)[x] \in Nat /\ req.target[x] \in Int
    BY <1>2, <1>8, <2>1 DEF Bundle, Value
  <2>3. CASE i < next
    <3>1. SumOf(selection)[x] >= req.target[x]
      BY <1>1, <2>3 DEF Covered
    <3>2. SumOf(s.sel)[x] >= SumOf(selection)[x]
      BY <1>6, <2>1
    <3> QED BY <1>1, <2>2, <3>1, <3>2
  <2>4. CASE ~(i < next)
    <3>1. i = next
      BY <1>1, <1>3, <2>1, <2>4
    <3>2. x = t
      BY <3>1 DEF t
    <3>3. CASE AskedFor
      BY <1>1, <1>6, <1>7, <1>12, <3>2, <3>3
    <3>4. CASE ~AskedFor
      <4>1. req.target[x] <= 0
        BY <1>2, <2>1, <3>4, NothingAskedFor
      <4> QED BY <1>1, <2>2, <4>1
    <3> QED BY <3>3, <3>4
  <2> QED BY <2>3, <2>4
<1>13. Covered'
  <2>1. next' # 0
    BY <1>1, <1>3
  <2> QED BY <1>1, <1>2, <1>12, <2>1 DEF Covered, SumOf
<1>14. Summed'
  BY <1>1, <1>2, <1>7 DEF Summed, SumOf
<1>15. (Preselecting /\ Met /\ Owed)'
  BY <1>1 DEF Preselecting, Met, Owed
<1>16. FailureIsLegitimate'
  <2>1. CASE s.ok
    BY <1>1, <2>1 DEF FailureIsLegitimate
  <2>2. CASE ~s.ok
    <3>1. s.acc[t] < req.target[t] /\ \A i \in 1 .. Len(s.rem) : s.rem[i].val[t] = 0
      BY <1>6, <2>2
    <3>2. AskedFor
      <4> SUFFICES ASSUME ~AskedFor PROVE FALSE
        OBVIOUS
      <4>1. req.target[t] <= 0 /\ s.acc[t] \in Nat
        BY <1>2, <1>5, <1>6, NothingAskedFor DEF Bundle
      <4> QED BY <1>5, <3>1, <4>1
    <3>3. SumOf(s.sel)[t] < req.target[t]
      BY <1>7, <3>1, <3>2
    <3>4. SumOf(s.rem)[t] = 0
      <4>1. /\ ValsOf(s.rem) \in Seq(Value) /\ Len(ValsOf(s.rem)) = Len(s.rem)
            /\ SumOf(s.rem) = SumValues(ValsOf(s.rem))
        BY <1>2, <1>8, WorthType
      <4>2. \A i \in 1 .. Len(s.rem) : ValsOf(s.rem)[i][t] = 0
        BY <1>8, <3>1 DEF ValsOf
      <4> QED BY <1>5, <4>1, <4>2, SumOfNone
    <3>5. SumOf(s.sel \o s.rem) = value_add(SumOf(s.sel), SumOf(s.rem))
      BY <1>2, <1>8, WorthOfConcat
    <3>6. SumOf(s.sel \o s.rem)[t] = SumOf(s.sel)[t] + 0
      BY <1>5, <3>4, <3>5 DEF value_add
    <3>7. value_subtract(SumOf(s.sel \o s.rem), req.target)[t] < 0
      <4>1. SumOf(s.sel)[t] \in Nat
        BY <1>5, <1>8 DEF Bundle
      <4>2. value_subtract(SumOf(s.sel \o s.rem), req.target)[t] = SumOf(s.sel)[t] - req.target[t]
        BY <1>5, <3>6, <4>1 DEF value_subtract
      <4> QED BY <1>5, <3>3, <4>1, <4>2
    <3> DEFINE left == value_subtract(SumOf(s.sel \o s.rem), req.target)
    <3>8. ~value_is_non_negative(left)
      <4>1. ~(left[t] >= 0)
        <5>1. left[t] \in Int
          BY <1>2, <1>5, <1>8, <3>6 DEF value_subtract, Bundle, Value
        <5> HIDE DEF left
        <5>2. left[t] < 0
          BY <3>7 DEF left
        <5> QED BY <5>1, <5>2
      <4> HIDE DEF left
      <4> QED BY <1>5, <4>1 DEF value_is_non_negative
    <3>9. left = value_subtract(SumOf(selection' \o remaining'), req'.target)
      BY <1>1
    <3>10. ~value_is_non_negative(value_subtract(SumOf(selection' \o remaining'), req'.target))
      BY <3>8, <3>9
    <3> QED BY <3>10 DEF FailureIsLegitimate, value_is_non_negative, value_subtract, SumOf
  <2> QED BY <2>1, <2>2
<1> QED BY <1>9, <1>10, <1>11, <1>13, <1>14, <1>15, <1>16 DEF IInv

LEMMA TokensCoveredKept == IInv /\ TokensCovered => IInv'
<1> SUFFICES ASSUME IInv, TokensCovered PROVE IInv'
  OBVIOUS
<1>1. /\ TypeOK /\ Moved /\ Shared /\ Summed /\ Covered
      /\ pc = "tokens" /\ pc' = "build" /\ next \notin DOMAIN TargetTokens
      /\ UNCHANGED <<req, next, selection, remaining, accumulated, changeValue, change>>
  BY DEF IInv, TokensCovered
<1>2. req \in Requests /\ req.target \in Value /\ Ledger(req) \in SUBSET UtxoRecord /\ AskedFor' = AskedFor
  BY <1>1, RequestFixed
<1>3. PICK n \in Nat : /\ TargetTokens \in [1 .. n -> Tokens]
                       /\ \A t \in Tokens : req.target[t] # 0 => \E i \in 1 .. n : TargetTokens[i] = t
  BY <1>2, TargetTokensProperties
<1>4. SumOf(selection) \in Bundle
  <2>1. selection \in Seq(Ledger(req))
    BY <1>1 DEF Moved, Lists
  <2> QED BY <1>2, <2>1, WorthType
<1>5. ASSUME NEW t \in Tokens PROVE SumOf(selection)[t] >= req.target[t]
  <2>1. SumOf(selection)[t] \in Nat /\ req.target[t] \in Int
    BY <1>2, <1>4 DEF Bundle, Value
  <2>2. CASE req.target[t] = 0
    BY <2>1, <2>2
  <2>3. CASE req.target[t] # 0
    <3>1. PICK i \in 1 .. n : TargetTokens[i] = t
      BY <1>3, <2>3
    <3>2. i < next /\ i \in DOMAIN TargetTokens
      <4>1. next \in Nat /\ next # 0 /\ next \notin 1 .. n
        BY <1>1, <1>3 DEF Covered, TypeOK
      <4> QED BY <1>3, <4>1
    <3> QED BY <1>1, <3>1, <3>2 DEF Covered
  <2> QED BY <2>2, <2>3
<1>6. TypeOK' /\ Moved' /\ Shared' /\ Summed'
  BY <1>1, <1>2 DEF TypeOK, Moved, Shared, Summed
<1>7. Met'
  BY <1>1, <1>5 DEF Met
<1>8. (Preselecting /\ Covered /\ Owed /\ FailureIsLegitimate)'
  BY <1>1 DEF Preselecting, Covered, Owed, FailureIsLegitimate
<1> QED BY <1>6, <1>7, <1>8 DEF IInv

\* What is over when all is covered is never negative.
LEMMA ComputedChange ==
  ASSUME IInv, ComputeChange
  PROVE  /\ changeValue' = value_subtract(SumOf(selection), req.target)
         /\ changeValue' \in Bundle
         /\ pc' = IF changeValue' = ZeroValue THEN "done" ELSE "fund"
         /\ pc = "build" /\ UNCHANGED <<req, next, selection, remaining, accumulated, change>>
<1>1. /\ TypeOK /\ Moved /\ Met /\ pc = "build"
      /\ changeValue' = value_subtract(SumOf(selection), req.target)
      /\ pc' = IF ~value_is_non_negative(changeValue') THEN "failed"
               ELSE IF changeValue' = ZeroValue THEN "done" ELSE "fund"
      /\ UNCHANGED <<req, next, selection, remaining, accumulated, change>>
  BY DEF IInv, ComputeChange
<1>2. req \in Requests /\ req.target \in Value /\ Ledger(req) \in SUBSET UtxoRecord
  BY <1>1, RequestFixed
<1>3. SumOf(selection) \in Bundle
  <2>1. selection \in Seq(Ledger(req))
    BY <1>1 DEF Moved, Lists
  <2> QED BY <1>2, <2>1, WorthType
<1>4. ASSUME NEW t \in Tokens PROVE changeValue'[t] \in Nat /\ changeValue'[t] >= 0
  <2>1. SumOf(selection)[t] \in Nat /\ req.target[t] \in Int /\ SumOf(selection)[t] >= req.target[t]
    BY <1>1, <1>2, <1>3 DEF Bundle, Value, Met
  <2>2. changeValue'[t] = SumOf(selection)[t] - req.target[t]
    BY <1>1 DEF value_subtract
  <2> QED BY <2>1, <2>2
<1>5. changeValue' \in Bundle
  <2>1. changeValue' = [t \in Tokens |-> changeValue'[t]]
    BY <1>1 DEF value_subtract
  <2> QED BY <1>4, <2>1 DEF Bundle
<1>6. value_is_non_negative(changeValue')
  BY <1>4 DEF value_is_non_negative
<1> QED BY <1>1, <1>5, <1>6

LEMMA ComputeChangeKept == IInv /\ ComputeChange => IInv'
<1> SUFFICES ASSUME IInv, ComputeChange PROVE IInv'
  OBVIOUS
<1>1. /\ changeValue' = value_subtract(SumOf(selection), req.target)
      /\ changeValue' \in Bundle
      /\ pc' = IF changeValue' = ZeroValue THEN "done" ELSE "fund"
      /\ pc = "build" /\ UNCHANGED <<req, next, selection, remaining, accumulated, change>>
  BY ComputedChange
<1>2. TypeOK /\ Moved /\ Shared
  BY DEF IInv
<1>3. TypeOK' /\ Moved' /\ Shared'
  BY <1>1, <1>2 DEF TypeOK, Moved, Shared
<1>4. Owed'
  BY <1>1 DEF Owed
<1>5. (Preselecting /\ Summed /\ Covered /\ Met /\ FailureIsLegitimate)'
  BY <1>1 DEF Preselecting, Summed, Covered, Met, FailureIsLegitimate
<1> QED BY <1>3, <1>4, <1>5 DEF IInv

LEMMA TopUpKept == IInv /\ TopUp => IInv'
<1> SUFFICES ASSUME IInv, TopUp PROVE IInv'
  OBVIOUS
<1> DEFINE S == Ledger(req)
           sorted == compare_utxos_sort(remaining, Ada)
           u == sorted[1]
           sold == SumOf(selection)
<1>1. /\ TypeOK /\ Moved /\ Shared /\ Owed /\ pc = "fund" /\ ~Fundable
      /\ UNCHANGED <<req, next, accumulated, change>>
  BY DEF IInv, TopUp
<1>2. req \in Requests /\ req.target \in Value /\ S \in SUBSET UtxoRecord /\ Ledger(req') = S
  BY <1>1, RequestFixed
<1>3. /\ Lists(selection, remaining, S) /\ changeValue \in Bundle
      /\ changeValue = value_subtract(sold, req.target) /\ changeValue # ZeroValue
  BY <1>1 DEF Moved, TypeOK, Owed
<1>4. selection \in Seq(S) /\ remaining \in Seq(S)
  BY <1>3 DEF Lists
<1>5. \A v \in S : v.val[Ada] > 0
  BY <1>2, LedgerProperties
<1> HIDE DEF S
<1>6. sorted \in Seq(S) /\ Len(sorted) = Len(remaining)
  BY <1>2, <1>4, TokensAreNat, SortProperties
<1>7. CASE remaining = <<>>
  <2>1. pc' = "failed" /\ UNCHANGED <<selection, remaining, changeValue>>
    BY <1>7 DEF TopUp
  <2>2. selection' \o remaining' = selection
    BY <1>4, <1>7, <2>1, ConcatEmptySeq
  <2> DEFINE left == value_subtract(SumOf(selection' \o remaining'), req'.target)
  <2>3. left = changeValue
    BY <1>1, <1>3, <2>2
  <2> HIDE DEF left
  <2>4. left[Ada] < TotalMinAda(left)
    <3>1. ~(changeValue[Ada] >= TotalMinAda(changeValue))
      BY <1>1 DEF Fundable
    <3>2. changeValue[Ada] \in Nat /\ TotalMinAda(changeValue) \in Nat
      BY <1>3, TokensAreNat, LeastProperties DEF Bundle
    <3> QED BY <2>3, <3>1, <3>2
  <2>5. FailureIsLegitimate'
    <3>1. left # ZeroValue /\ left[Ada] < TotalMinAda(left)
      BY <1>3, <2>3, <2>4
    <3>2. (left # ZeroValue /\ left[Ada] < TotalMinAda(left)) =
            (value_subtract(SumOf(selection' \o remaining'), req'.target) # ZeroValue
             /\ value_subtract(SumOf(selection' \o remaining'), req'.target)[Ada]
                  < TotalMinAda(value_subtract(SumOf(selection' \o remaining'), req'.target)))
      BY Zenon DEF left
    <3> QED BY <3>1, <3>2, Zenon DEF FailureIsLegitimate
  <2>6. TypeOK' /\ Moved' /\ Shared'
    BY <1>1, <2>1 DEF TypeOK, Moved, Shared
  <2>7. (Preselecting /\ Summed /\ Covered /\ Met /\ Owed)'
    BY <2>1 DEF Preselecting, Summed, Covered, Met, Owed
  <2> QED BY <2>5, <2>6, <2>7 DEF IInv
<1>8. CASE remaining # <<>>
  <2>1. 1 \in 1 .. Len(remaining) /\ Len(remaining) \in Nat /\ 1 \in 0 .. Len(remaining) /\ sorted # <<>>
    <3>1. Len(remaining) \in Nat /\ Len(remaining) # 0
      BY <1>4, <1>8, EmptySeq
    <3> HIDE DEF sorted
    <3> QED BY <1>6, <3>1, EmptySeq
  <2>2. u \in S /\ u.val[Ada] > 0 /\ u \in UtxoRecord
    BY <1>2, <1>5, <1>6, <2>1, ElementOfSeq
  <2>3. /\ selection' = Append(selection, u) /\ remaining' = Tail(sorted)
        /\ changeValue' = value_add(changeValue, u.val) /\ pc' = "fund"
    <3>1. u.val[Ada] # 0
      <4>1. u.val[Ada] \in Nat
        BY <2>2, TokensAreNat DEF UtxoRecord, Bundle
      <4> HIDE DEF u
      <4> QED BY <2>2, <4>1
    <3> QED BY <1>1, <1>8, <3>1, Zenon DEF TopUp
  <2> DEFINE a == FirstOf(sorted, 1)
             b == RestOf(sorted, 1)
  <2>4. a = <<u>>
    <3>1. 1 \in 1 .. Len(sorted)
      BY <1>6, <2>1
    <3>2. SubSeq(sorted, 1, 1) = SubSeq(sorted, 1, 1 - 1) \o <<sorted[1]>>
      <4> HIDE DEF sorted
      <4>1. 1 \in 1 .. 1 /\ 1 \in 1 .. Len(sorted)
        BY <3>1
      <4> QED BY <1>6, <4>1, SubSeqRecursiveSecond
    <3>3. SubSeq(sorted, 1, 1 - 1) = <<>>
      BY SubSeqEmpty
    <3>4. <<u>> \in Seq(S)
      BY <2>2, SingleSeq
    <3>5. <<>> \o <<u>> = <<u>>
      BY <3>4, ConcatEmptySeq
    <3> QED BY <3>2, <3>3, <3>5, Zenon DEF FirstOf
  <2>5. selection' = selection \o a
    <3>1. Append(selection, u) = selection \o <<u>>
      BY <1>4, <2>2, AppendIsConcat
    <3> QED BY <2>3, <2>4, <3>1, Zenon
  <2>6. remaining' = b
    <3> HIDE DEF sorted
    <3>1. Tail(sorted) = SubSeq(sorted, 2, Len(sorted))
      BY <1>6, <2>1, TailIsSubSeq
    <3>2. 1 + 1 = 2
      OBVIOUS
    <3> QED BY <2>3, <3>1, <3>2, Zenon DEF RestOf
  <2>7. /\ Lists(selection \o a, b, S) /\ IdsOf(selection) \subseteq IdsOf(selection \o a)
        /\ IdsOf(selection \o a) \cup IdsOf(b) = IdsOf(selection) \cup IdsOf(remaining)
        /\ SumOf(selection \o a) = value_add(sold, SumOf(a))
    <3>1. sorted = compare_utxos_sort(remaining, Ada)
      OBVIOUS
    <3> HIDE DEF sorted
    <3>2. FrontMoved(selection, remaining, S, a, b)
      BY <1>2, <1>3, <2>1, <3>1, TokensAreNat, MoveFront
    <3> HIDE DEF a, b
    <3> QED BY <1>2, <1>3, <3>2 DEF FrontMoved
  <2>8. SumOf(a) = u.val
    BY <2>2, <2>4, WorthOfOne
  <2> HIDE DEF a, b, u, sorted
  <2>9. Lists(selection', remaining', S)
    BY <2>5, <2>6, <2>7
  <2>10. Moved'
    BY <1>2, <2>9 DEF Moved, Lists, IdsOf, Distinct
  <2>11. Shared'
    <3>1. /\ IdsOf(selection') \cup IdsOf(remaining') = IdsOf(req.pre) \cup IdsOf(req.available)
          /\ IdsOf(req.pre) \subseteq IdsOf(selection')
      BY <1>1, <2>5, <2>6, <2>7 DEF Shared
    <3> QED BY <1>1, <3>1 DEF Shared, IdsOf
  <2>12. sold \in Bundle /\ u.val \in Bundle /\ changeValue' \in Bundle
    BY <1>2, <1>3, <1>4, <2>2, <2>3, WorthType, ValueArithmetic DEF UtxoRecord
  <2> HIDE DEF sold
  <2>13. SumOf(selection') = value_add(sold, u.val)
    BY <2>5, <2>7, <2>8
  <2>14. changeValue' = value_subtract(SumOf(selection'), req.target)
    <3>1. ASSUME NEW t \in Tokens
          PROVE  value_add(changeValue, u.val)[t] = value_subtract(value_add(sold, u.val), req.target)[t]
      <4>1. sold[t] \in Nat /\ u.val[t] \in Nat /\ req.target[t] \in Int
        BY <1>2, <2>12 DEF Bundle, Value
      <4> QED BY <1>3, <4>1 DEF value_add, value_subtract
    <3>2. value_add(changeValue, u.val) = value_subtract(value_add(sold, u.val), req.target)
      BY <3>1 DEF value_add, value_subtract
    <3> QED BY <2>3, <2>13, <3>2
  <2>15. changeValue' # ZeroValue
    <3>1. changeValue'[Ada] = changeValue[Ada] + u.val[Ada]
      BY <2>3, TokensAreNat DEF value_add
    <3>2. changeValue[Ada] \in Nat /\ u.val[Ada] \in Nat
      BY <1>3, <2>12, TokensAreNat DEF Bundle
    <3> QED BY <2>2, <3>1, <3>2, TokensAreNat DEF ZeroValue
  <2>16. Owed'
    BY <1>1, <2>14, <2>15 DEF Owed, SumOf
  <2>17. TypeOK'
    <3>1. selection' \in Seq(UtxoRecord) /\ remaining' \in Seq(UtxoRecord)
      BY <1>2, <2>9, SeqMonotonic DEF Lists
    <3> QED BY <1>1, <2>3, <2>12, <3>1 DEF TypeOK
  <2>18. (Preselecting /\ Summed /\ Covered /\ Met /\ FailureIsLegitimate)'
    BY <2>3 DEF Preselecting, Summed, Covered, Met, FailureIsLegitimate
  <2> QED BY <2>10, <2>11, <2>16, <2>17, <2>18 DEF IInv
<1> QED BY <1>7, <1>8

\* The outputs that the last action writes.
LEMMA EmittedChange ==
  ASSUME IInv, EmitChange
  PROVE  /\ change' \in Seq(Bundle) /\ SumValues(change') = changeValue
         /\ \A i \in 1 .. Len(change') : /\ change'[i][Ada] >= compute_min_ada_required(change'[i])
                                         /\ ~value_is_oversized(AssetsOf(change'[i]))
         /\ pc = "fund" /\ pc' = "done"
         /\ UNCHANGED <<req, next, selection, remaining, accumulated, changeValue>>
<1> DEFINE least == LeastOutputs(changeValue)
           extra == changeValue[Ada] - TotalMinAda(changeValue)
<1>1. /\ changeValue \in Bundle /\ changeValue[Ada] >= TotalMinAda(changeValue)
      /\ change' = [least EXCEPT ![Len(least)] = WithCoin(@, @[Ada] + extra)]
      /\ pc = "fund" /\ pc' = "done"
      /\ UNCHANGED <<req, next, selection, remaining, accumulated, changeValue>>
  BY DEF IInv, TypeOK, EmitChange, Fundable
<1>2. /\ change' \in Seq(Bundle) /\ SumValues(change') = changeValue
      /\ \A i \in 1 .. Len(change') : /\ change'[i][Ada] >= compute_min_ada_required(change'[i])
                                      /\ ~value_is_oversized(AssetsOf(change'[i]))
  <2> DEFINE ch == change'
  <2>1. IsEmission(ch, least, changeValue)
    BY <1>1, Zenon DEF IsEmission
  <2>2. least = LeastOutputs(changeValue)
    OBVIOUS
  <2> HIDE DEF least, ch
  <2>3. changeValue \in Bundle /\ changeValue[Ada] >= TotalMinAda(changeValue)
    BY <1>1
  <2>4. AreOutputsOf(ch, changeValue)
    BY <2>1, <2>2, <2>3, EmitProperties
  <2> QED BY <2>4 DEF ch, AreOutputsOf
<1> QED BY <1>1, <1>2

LEMMA EmitChangeKept == IInv /\ EmitChange => IInv'
<1> SUFFICES ASSUME IInv, EmitChange PROVE IInv'
  OBVIOUS
<1>1. /\ change' \in Seq(Bundle) /\ pc = "fund" /\ pc' = "done"
      /\ UNCHANGED <<req, next, selection, remaining, accumulated, changeValue>>
  BY EmittedChange
<1>2. TypeOK /\ Moved /\ Shared
  BY DEF IInv
<1>3. TypeOK' /\ Moved' /\ Shared'
  BY <1>1, <1>2 DEF TypeOK, Moved, Shared
<1>4. (Preselecting /\ Summed /\ Covered /\ Met /\ Owed /\ FailureIsLegitimate)'
  BY <1>1 DEF Preselecting, Summed, Covered, Met, Owed, FailureIsLegitimate
<1> QED BY <1>3, <1>4 DEF IInv

LEMMA StutterKept == IInv /\ UNCHANGED vars => IInv'
<1> SUFFICES ASSUME IInv, UNCHANGED vars PROVE IInv'
  OBVIOUS
<1> USE DEF vars
<1>1. TypeOK' /\ Moved' /\ Preselecting' /\ Shared'
  BY DEF IInv, TypeOK, Moved, Preselecting, Shared
<1>2. Summed' /\ Covered' /\ Met' /\ Owed'
  BY DEF IInv, Summed, Covered, Met, Owed, AskedFor, TargetTokens
<1>3. FailureIsLegitimate'
  BY DEF IInv, FailureIsLegitimate
<1> QED BY <1>1, <1>2, <1>3 DEF IInv

LEMMA StepKept == IInv /\ [Next]_vars => IInv'
<1> SUFFICES ASSUME IInv, [Next]_vars PROVE IInv'
  OBVIOUS
<1>1. \/ TakePreselected \/ EnsureInput \/ SelectToken \/ TokensCovered
      \/ ComputeChange \/ TopUp \/ EmitChange \/ UNCHANGED vars
  BY DEF Next, Step, Terminated
<1> QED BY <1>1, TakePreselectedKept, EnsureInputKept, SelectTokenKept, TokensCoveredKept,
           ComputeChangeKept, TopUpKept, EmitChangeKept, StutterKept

LEMMA AlwaysIInv == Spec => []IInv
<1>1. Init => IInv
  BY InitIInv
<1>2. IInv /\ [Next]_vars => IInv'
  BY StepKept
<1> QED BY <1>1, <1>2, PTL DEF Spec

LEMMA IInvConserves == IInv => ListsAccounted /\ FailureIsLegitimate
<1> SUFFICES ASSUME IInv PROVE ListsAccounted /\ FailureIsLegitimate
  OBVIOUS
<1>1. TypeOK /\ Moved /\ Shared /\ Summed /\ FailureIsLegitimate
  BY DEF IInv
<1> DEFINE S == Ledger(req)
<1>2. Lists(selection, remaining, S)
  BY <1>1 DEF Moved
<1> HIDE DEF S
<1>3. ASSUME pc # "preselect"
      PROVE  Len(selection) + Len(remaining) = Cardinality(IdsOf(req.pre) \cup IdsOf(req.available))
  <2> DEFINE c == selection \o remaining
  <2>1. /\ selection \in Seq(S) /\ remaining \in Seq(S) /\ Distinct(selection) /\ Distinct(remaining)
        /\ IdsOf(selection) \cap IdsOf(remaining) = {}
    BY <1>2 DEF Lists
  <2>2. c \in Seq(S) /\ Distinct(c) /\ IdsOf(c) = IdsOf(selection) \cup IdsOf(remaining)
    BY <2>1, ConcatLists
  <2>3. Len(c) = Len(selection) + Len(remaining)
    BY <2>1, ConcatProperties
  <2> HIDE DEF c
  <2>4. Cardinality(IdsOf(c)) = Len(c)
    BY <2>2, ListLength
  <2>5. IdsOf(c) = IdsOf(req.pre) \cup IdsOf(req.available)
    BY <1>1, <1>3, <2>2 DEF Shared
  <2> QED BY <2>3, <2>4, <2>5
<1>4. Conservation
  <2> SUFFICES ASSUME pc \in {"tokens", "build", "fund"}
               PROVE  /\ IdsOf(selection) \cap IdsOf(remaining) = {}
                      /\ IdsOf(selection) \cup IdsOf(remaining) = IdsOf(req.pre) \cup IdsOf(req.available)
                      /\ Len(selection) + Len(remaining)
                           = Cardinality(IdsOf(req.pre) \cup IdsOf(req.available))
                      /\ pc # "fund" /\ (req.target[Ada] > 0 \/ AssetsOf(req.target) # {})
                           => accumulated = SumOf(selection)
    BY Zenon DEF Conservation, IdsOf
  <2>1. pc # "preselect" /\ (pc # "fund" => pc \in {"tokens", "build"})
    OBVIOUS
  <2> QED BY <1>1, <1>2, <1>3, <2>1 DEF Lists, Shared, Summed, AskedFor
<1> QED BY <1>1, <1>4 DEF ListsAccounted

\* While the selector sorts and moves UTXOs between its two lists, none is
\* lost, doubled or in both, the sums stay those of the lists, and the change
\* is never negative, for every request over ledger UTXOs.
THEOREM ListsAreAccounted == Spec => []ListsAccounted
  BY AlwaysIInv, IInvConserves, PTL

-----------------------------------------------------------------------------
(* As few inputs as possible.                                              *)

\* The values of a list at the places s.
Part(us, s) == [i \in DOMAIN us |-> IF i \in s THEN us[i].val ELSE ZeroValue]

LEMMA PartType ==
  ASSUME NEW us \in Seq(UtxoRecord), NEW s
  PROVE  /\ Part(us, s) \in Seq(Bundle) /\ Part(us, s) \in Seq(Value) /\ Len(Part(us, s)) = Len(us)
         /\ \A i \in 1 .. Len(us) : /\ Part(us, s)[i] = IF i \in s THEN us[i].val ELSE ZeroValue
                                    /\ us[i].val \in Bundle
         /\ \A t \in Tokens : SumValues(Part(us, s))[t] \in Nat
<1>1. DOMAIN us = 1 .. Len(us) /\ Len(us) \in Nat /\ \A i \in 1 .. Len(us) : us[i] \in UtxoRecord
  BY ElementOfSeq
<1>2. \A i \in 1 .. Len(us) : us[i].val \in Bundle
  BY <1>1 DEF UtxoRecord
<1>3. ZeroValue \in Bundle /\ Bundle \in SUBSET Value
  BY ValueArithmetic
<1> DEFINE n == Len(us)
<1>4. Part(us, s) = [i \in 1 .. n |-> IF i \in s THEN us[i].val ELSE ZeroValue]
  BY <1>1 DEF Part
<1> HIDE DEF n
<1>5. n \in Nat /\ \A i \in 1 .. n : us[i].val \in Bundle
  BY <1>1, <1>2 DEF n
<1>6. Part(us, s) \in Seq(Bundle) /\ Part(us, s) \in Seq(Value) /\ Len(Part(us, s)) = n
  BY <1>3, <1>4, <1>5
<1>7. SumValues(Part(us, s)) \in Bundle
  BY <1>6, SumOfBundles
<1> QED BY <1>4, <1>5, <1>6, <1>7 DEF n, Bundle

\* One UTXO more.
LEMMA PartOneMore ==
  ASSUME NEW us \in Seq(UtxoRecord), NEW s, NEW x \in 1 .. Len(us), x \notin s, NEW t \in Tokens
  PROVE  SumValues(Part(us, s \cup {x}))[t] = SumValues(Part(us, s))[t] + us[x].val[t]
<1> DEFINE vs == Part(us, s)
           ws == Part(us, s \cup {x})
<1>1. /\ vs \in Seq(Value) /\ ws \in Seq(Value) /\ Len(vs) = Len(us) /\ Len(ws) = Len(us)
      /\ SumValues(vs)[t] \in Nat
  BY PartType
<1>2. /\ \A i \in 1 .. Len(us) : vs[i] = IF i \in s THEN us[i].val ELSE ZeroValue
      /\ \A i \in 1 .. Len(us) : ws[i] = IF i \in s \cup {x} THEN us[i].val ELSE ZeroValue
      /\ us[x].val \in Bundle
  BY PartType
<1> HIDE DEF vs, ws
<1>3. vs[x] = ZeroValue /\ ws[x] = us[x].val /\ \A i \in 1 .. Len(us) : i # x => ws[i] = vs[i]
  BY <1>2
<1>4. SumValues(ws)[t] = SumValues(vs)[t] - vs[x][t] + ws[x][t]
  BY <1>1, <1>3, SumReplaceOne
<1>5. vs[x][t] = 0 /\ ws[x][t] = us[x].val[t] /\ us[x].val[t] \in Nat
  BY <1>2, <1>3 DEF ZeroValue, Bundle
<1> QED BY <1>1, <1>4, <1>5 DEF vs, ws

\* Places that hold at least c are worth no less than as many other places, all
\* of which hold at most c.
LEMMA ThresholdIsBest ==
  ASSUME NEW us \in Seq(UtxoRecord), NEW t \in Tokens, NEW c \in Nat,
         NEW T \in SUBSET (1 .. Len(us)), NEW s \in SUBSET (1 .. Len(us)),
         \A i \in T : us[i].val[t] >= c,
         \A i \in (1 .. Len(us)) \ T : us[i].val[t] <= c,
         Cardinality(s) <= Cardinality(T)
  PROVE  SumValues(Part(us, s))[t] <= SumValues(Part(us, T))[t]
<1> DEFINE n == Len(us)
           vs == Part(us, s)
           ws == Part(us, T)
           first(X, k) == X \cap (1 .. k)
           cs(k) == Cardinality(first(s, k))
           cT(k) == Cardinality(first(T, k))
<1>1. n \in Nat /\ vs \in Seq(Value) /\ ws \in Seq(Value) /\ Len(vs) = n /\ Len(ws) = n
  BY PartType
<1>2. /\ \A i \in 1 .. n : vs[i] = IF i \in s THEN us[i].val ELSE ZeroValue
      /\ \A i \in 1 .. n : ws[i] = IF i \in T THEN us[i].val ELSE ZeroValue
      /\ \A i \in 1 .. n : us[i].val \in Bundle
  BY PartType
<1>3. PICK p : PartialSums(vs, p) /\ SumValues(vs) = p[n]
  BY <1>1, SumByPrefixes
<1>4. PICK q : PartialSums(ws, q) /\ SumValues(ws) = q[n]
  BY <1>1, SumByPrefixes
<1>5. /\ T \in SUBSET (1 .. n) /\ s \in SUBSET (1 .. n)
      /\ \A i \in T : us[i].val[t] >= c
      /\ \A i \in (1 .. n) \ T : us[i].val[t] <= c
  OBVIOUS
<1>6. ASSUME NEW X, NEW k \in Nat
      PROVE  /\ IsFiniteSet(first(X, k)) /\ Cardinality(first(X, k)) \in Nat
             /\ Cardinality(first(X, k + 1)) =
                  Cardinality(first(X, k)) + (IF k + 1 \in X THEN 1 ELSE 0)
  <2>1. IsFiniteSet(first(X, k))
    <3>1. IsFiniteSet(1 .. k) /\ first(X, k) \subseteq 1 .. k
      BY FS_Interval
    <3> QED BY <3>1, FS_Subset
  <2>2. first(X, k + 1) = IF k + 1 \in X THEN first(X, k) \cup {k + 1} ELSE first(X, k)
    OBVIOUS
  <2>3. k + 1 \notin first(X, k)
    OBVIOUS
  <2> HIDE DEF first
  <2>4. Cardinality(first(X, k)) \in Nat
    BY <2>1, FS_CardinalityType
  <2>5. Cardinality(first(X, k) \cup {k + 1}) = Cardinality(first(X, k)) + 1
    BY <2>1, <2>3, FS_AddElement
  <2> QED BY <2>1, <2>2, <2>4, <2>5
<1>7. cs(0) = 0 /\ cT(0) = 0
  BY FS_EmptySet
<1>8. first(s, n) = s /\ first(T, n) = T
  BY <1>5
<1>9. /\ p \in [0 .. n -> Value] /\ q \in [0 .. n -> Value] /\ p[0] = ZeroValue /\ q[0] = ZeroValue
      /\ \A k \in 1 .. n : p[k] = value_add(p[k - 1], vs[k]) /\ q[k] = value_add(q[k - 1], ws[k])
  BY <1>1, <1>3, <1>4 DEF PartialSums
<1> HIDE DEF n, first
<1> DEFINE G == {k \in Nat : p[k][t] + c * cT(k) <= q[k][t] + c * cs(k)}
<1>10. 0 \in G
  <2>1. p[0][t] = 0 /\ q[0][t] = 0
    BY <1>9 DEF ZeroValue
  <2> QED BY <1>7, <2>1
<1>11. \A k \in 0 .. n - 1 : k \in G => k + 1 \in G
  <2> SUFFICES ASSUME NEW k \in 0 .. n - 1, k \in G PROVE k + 1 \in G
    OBVIOUS
  <2>1. k + 1 \in 1 .. n /\ (k + 1) - 1 = k /\ k \in 0 .. n /\ k + 1 \in Nat /\ k \in Nat
    BY <1>1
  <2>2. p[k + 1] = value_add(p[k], vs[k + 1]) /\ q[k + 1] = value_add(q[k], ws[k + 1])
    BY <1>9, <2>1
  <2>3. p[k + 1][t] = p[k][t] + vs[k + 1][t] /\ q[k + 1][t] = q[k][t] + ws[k + 1][t]
    BY <2>2 DEF value_add
  <2> DEFINE v == us[k + 1].val[t]
             inS == k + 1 \in s
             inT == k + 1 \in T
  <2>4. /\ v \in Nat /\ vs[k + 1][t] = (IF inS THEN v ELSE 0) /\ ws[k + 1][t] = (IF inT THEN v ELSE 0)
        /\ (inT => v >= c) /\ (~inT => v <= c)
    BY <1>2, <1>5, <2>1 DEF ZeroValue, Bundle
  <2>5. p[k][t] \in Int /\ q[k][t] \in Int
    BY <1>9, <2>1 DEF Value
  <2>6. /\ cs(k) \in Nat /\ cT(k) \in Nat
        /\ cs(k + 1) = cs(k) + (IF inS THEN 1 ELSE 0) /\ cT(k + 1) = cT(k) + (IF inT THEN 1 ELSE 0)
    BY <1>6, <2>1
  <2>7. c * cs(k + 1) = c * cs(k) + (IF inS THEN c ELSE 0)
    <3> HIDE DEF cs
    <3> QED BY <2>6
  <2>8. c * cT(k + 1) = c * cT(k) + (IF inT THEN c ELSE 0)
    <3> HIDE DEF cT
    <3> QED BY <2>6
  <2>9. p[k][t] + c * cT(k) <= q[k][t] + c * cs(k)
    OBVIOUS
  <2>10. c * cT(k) \in Nat /\ c * cs(k) \in Nat
    <3> HIDE DEF cT, cs
    <3> QED BY <2>6
  <2> HIDE DEF v, inS, inT, cs, cT
  <2> DEFINE a == c * cT(k)
             b == c * cs(k)
  <2> HIDE DEF a, b
  <2>11. p[k + 1][t] + c * cT(k + 1) <= q[k + 1][t] + c * cs(k + 1)
    <3>1. c * cT(k + 1) = a + (IF inT THEN c ELSE 0) /\ c * cs(k + 1) = b + (IF inS THEN c ELSE 0)
      BY <2>7, <2>8 DEF a, b
    <3>2. a \in Nat /\ b \in Nat /\ p[k][t] + a <= q[k][t] + b
      BY <2>9, <2>10 DEF a, b
    <3> DEFINE P == p[k][t]
               Q == q[k][t]
    <3>3. P \in Int /\ Q \in Int /\ P + a <= Q + b
      BY <2>5, <3>2
    <3>4. /\ p[k + 1][t] = P + (IF inS THEN v ELSE 0)
          /\ q[k + 1][t] = Q + (IF inT THEN v ELSE 0)
      BY <2>3, <2>4
    <3> HIDE DEF P, Q
    <3>5. P + (IF inS THEN v ELSE 0) + (a + (IF inT THEN c ELSE 0))
            <= Q + (IF inT THEN v ELSE 0) + (b + (IF inS THEN c ELSE 0))
      <4>1. v \in Nat /\ c \in Int /\ (inT => v >= c) /\ (~inT => v <= c)
        BY <2>4
      <4>2. CASE inS /\ inT
        BY <3>2, <3>3, <4>1, <4>2
      <4>3. CASE inS /\ ~inT
        BY <3>2, <3>3, <4>1, <4>3
      <4>4. CASE ~inS /\ inT
        BY <3>2, <3>3, <4>1, <4>4
      <4>5. CASE ~inS /\ ~inT
        BY <3>2, <3>3, <4>1, <4>5
      <4> QED BY <4>2, <4>3, <4>4, <4>5
    <3> QED BY <3>1, <3>4, <3>5
  <2> QED BY <2>1, <2>11
<1> HIDE DEF G
<1>12. n \in G
  <2>1. 0 .. n \subseteq G
    BY <1>1, <1>10, <1>11, InductionUpTo
  <2> QED BY <1>1, <2>1
<1>13. p[n][t] + c * Cardinality(T) <= q[n][t] + c * Cardinality(s)
  BY <1>8, <1>12 DEF G
<1>14. Cardinality(s) \in Nat /\ Cardinality(T) \in Nat
  BY <1>1, <1>6, <1>8
<1>15. c * Cardinality(s) <= c * Cardinality(T) /\ c * Cardinality(s) \in Nat /\ c * Cardinality(T) \in Nat
  BY <1>14, TimesMonotone
<1>16. p[n][t] \in Int /\ q[n][t] \in Int
  BY <1>1, <1>9 DEF Value
<1> QED BY <1>3, <1>4, <1>13, <1>15, <1>16
LEMMA FirstOneMore ==
  ASSUME NEW S, NEW us \in Seq(S), NEW m \in Nat, m < Len(us)
  PROVE  /\ FirstOf(us, m + 1) = FirstOf(us, m) \o <<us[m + 1]>>
         /\ FirstOf(us, m) \in Seq(S) /\ us[m + 1] \in S
<1> DEFINE a == FirstOf(us, m)
           b == FirstOf(us, m + 1)
           u == us[m + 1]
           c == a \o <<u>>
<1>1. m \in 0 .. Len(us) /\ m + 1 \in 0 .. Len(us) /\ m + 1 \in 1 .. Len(us) /\ Len(us) \in Nat
  OBVIOUS
<1>2. a \in Seq(S) /\ Len(a) = m /\ \A i \in 1 .. m : a[i] = us[i]
  BY <1>1, Cut
<1>3. b \in Seq(S) /\ Len(b) = m + 1 /\ \A i \in 1 .. m + 1 : b[i] = us[i]
  BY <1>1, Cut
<1>4. u \in S
  BY <1>1, ElementOfSeq
<1>7. u = us[m + 1]
  OBVIOUS
<1> HIDE DEF a, b, u
<1>5. <<u>> \in Seq(S) /\ Len(<<u>>) = 1 /\ <<u>>[1] = u
  BY <1>4, SingleSeq
<1>6. /\ c \in Seq(S) /\ Len(c) = m + 1
      /\ \A i \in 1 .. m + 1 : c[i] = IF i <= m THEN a[i] ELSE <<u>>[i - m]
  BY <1>2, <1>5, ConcatProperties
<1> HIDE DEF c
<1>8. \A i \in 1 .. m + 1 : b[i] = c[i]
  <2> SUFFICES ASSUME NEW i \in 1 .. m + 1 PROVE b[i] = c[i]
    OBVIOUS
  <2>1. CASE i = m + 1
    BY <1>3, <1>5, <1>6, <1>7, <2>1
  <2>2. CASE i # m + 1
    BY <1>2, <1>3, <1>6, <2>2
  <2> QED BY <2>1, <2>2
<1>9. b = c
  BY <1>3, <1>6, <1>8, SeqEqual
<1> QED BY <1>2, <1>4, <1>9 DEF a, b, c, u

FirstWorth(us, sorted, f, k, t) ==
  /\ {f[i] : i \in 1 .. k} \in SUBSET (1 .. Len(us)) /\ Cardinality({f[i] : i \in 1 .. k}) = k
  /\ SumOf(FirstOf(sorted, k))[t] = SumValues(Part(us, {f[i] : i \in 1 .. k}))[t]

\* The first UTXOs of a sorted list are as many places of the list.
LEMMA FirstIsPart ==
  ASSUME NEW us \in Seq(UtxoRecord), NEW t \in Tokens, NEW n, n = Len(us),
         NEW f \in [1 .. n -> 1 .. n],
         \A i, j \in 1 .. n : f[i] = f[j] => i = j,
         NEW sorted \in Seq(UtxoRecord), Len(sorted) = n, \A i \in 1 .. n : sorted[i] = us[f[i]],
         NEW k \in 0 .. n
  PROVE  FirstWorth(us, sorted, f, k, t)
<1> DEFINE first(m) == {f[i] : i \in 1 .. m}
           Fits(m) == /\ IsFiniteSet(first(m)) /\ Cardinality(first(m)) = m
                      /\ SumOf(FirstOf(sorted, m))[t] = SumValues(Part(us, first(m)))[t]
           G == {m \in Nat : Fits(m)}
<1>1. n \in Nat
  OBVIOUS
<1>3. Fits(0)
  <2>1. first(0) = {} /\ IsFiniteSet({}) /\ Cardinality({}) = 0
    BY FS_EmptySet
  <2>2. FirstOf(sorted, 0) = <<>>
    BY DEF FirstOf
  <2>3. SumOf(FirstOf(sorted, 0))[t] = 0
    BY <2>2, WorthOfNone DEF ZeroValue
  <2>4. SumValues(Part(us, {}))[t] = 0
    <3> DEFINE vs == Part(us, {})
    <3>1. vs \in Seq(Value) /\ \A i \in 1 .. Len(vs) : vs[i][t] = 0
      BY PartType DEF ZeroValue
    <3> HIDE DEF vs
    <3>2. SumValues(vs)[t] = 0
      BY <3>1, SumOfNone
    <3> QED BY <3>2 DEF vs
  <2> QED BY <2>1, <2>3, <2>4
<1>4. ASSUME NEW m \in Nat, m < n, Fits(m) PROVE Fits(m + 1)
  <2> DEFINE x == f[m + 1]
             u == sorted[m + 1]
             a == FirstOf(sorted, m)
  <2>1. m + 1 \in 1 .. n /\ m < Len(sorted)
    BY <1>1, <1>4
  <2>2. x \in 1 .. Len(us) /\ u = us[x] /\ x \notin first(m)
    BY <1>1, <2>1
  <2>3. first(m + 1) = first(m) \cup {x}
    BY <1>1, <2>1
  <2>4. FirstOf(sorted, m + 1) = a \o <<u>> /\ a \in Seq(UtxoRecord) /\ u \in UtxoRecord
    BY <1>4, <2>1, FirstOneMore
  <2>9. Fits(m) /\ m \in Nat
    BY <1>4
  <2> HIDE DEF first, x, a, u
  <2>5. SumOf(FirstOf(sorted, m + 1)) = value_add(SumOf(a), u.val)
    <3>1. <<u>> \in Seq(UtxoRecord) /\ SumOf(<<u>>) = u.val
      BY <2>4, SingleSeq, WorthOfOne
    <3>2. UtxoRecord \in SUBSET UtxoRecord
      OBVIOUS
    <3> DEFINE e == <<u>>
    <3>3. e \in Seq(UtxoRecord) /\ a \in Seq(UtxoRecord)
      BY <2>4, <3>1
    <3> HIDE DEF e
    <3>4. SumOf(a \o e) = value_add(SumOf(a), SumOf(e))
      BY <3>2, <3>3, WorthOfConcat
    <3> QED BY <2>4, <3>1, <3>4 DEF e
  <2>6. SumOf(FirstOf(sorted, m + 1))[t] = SumOf(a)[t] + u.val[t]
    BY <2>5 DEF value_add
  <2>7. SumValues(Part(us, first(m) \cup {x}))[t] = SumValues(Part(us, first(m)))[t] + us[x].val[t]
    BY <2>2, PartOneMore
  <2>8. IsFiniteSet(first(m) \cup {x}) /\ Cardinality(first(m) \cup {x}) = m + 1
    BY <2>2, <2>9, FS_AddElement
  <2> QED BY <2>2, <2>3, <2>6, <2>7, <2>8, <2>9 DEF a
<1> HIDE DEF Fits
<1>5. 0 \in G /\ \A m \in 0 .. n - 1 : m \in G => m + 1 \in G
  BY <1>1, <1>3, <1>4
<1> HIDE DEF G
<1>6. k \in G
  <2>1. 0 .. n \subseteq G
    BY <1>1, <1>5, InductionUpTo
  <2> QED BY <2>1
<1>7. first(k) \in SUBSET (1 .. n)
  BY <1>1
<1>8. Fits(k)
  BY <1>6 DEF G
<1> QED BY <1>7, <1>8 DEF Fits, FirstWorth

Enough(us, s, t, required) == SumValues(Part(us, s))[t] >= required

\* What a list that covers one token is selected with: no fewer places cover it.
LEMMA SelectsFewest ==
  ASSUME NEW S \in SUBSET UtxoRecord, NEW us \in Seq(S), Distinct(us),
         NEW t \in Tokens, NEW required \in Int, required > 0,
         NEW r, r = select_utxos(t, required, us, <<>>, ZeroValue), r.ok,
         NEW s \in SUBSET (DOMAIN us), Enough(us, s, t, required)
  PROVE  Cardinality(s) >= Len(r.sel)
<1> DEFINE n == Len(us)
           sorted == compare_utxos_sort(us, t)
           h == Holding(us, t)
           K == {k \in 0 .. h : k = h \/ Got(t, us, ZeroValue, k) >= required}
           k == Taken(t, required, us, ZeroValue)
<1>1. n \in Nat /\ DOMAIN us = 1 .. n /\ us \in Seq(UtxoRecord)
  BY ElementOfSeq
<1>2. ZeroValue[t] = 0
  BY DEF ZeroValue
<1>3. PICK f \in [1 .. n -> 1 .. n] :
        /\ sorted = [i \in 1 .. n |-> us[f[i]]]
        /\ \A x \in 1 .. n : \E i \in 1 .. n : f[i] = x
        /\ \A i, j \in 1 .. n : f[i] = f[j] => i = j
        /\ \A i, j \in 1 .. n : i < j => us[f[i]].val[t] >= us[f[j]].val[t]
  BY SortMoves
<1>4. sorted \in Seq(UtxoRecord) /\ Len(sorted) = n /\ h \in 0 .. n
  BY SortProperties, <1>1 DEF Holding
<1>5. r.ok = (Got(t, us, ZeroValue, k) >= required) /\ r.sel = <<>> \o FirstOf(sorted, k)
  <2>1. ~(ZeroValue[t] >= required)
    BY <1>2
  <2> QED BY <2>1, SelectIs
<1> HIDE DEF sorted, h, n
<1>6. k \in 0 .. h /\ \A m \in 0 .. h : m < k => ~(Got(t, us, ZeroValue, m) >= required)
  <2>1. k = Min(K)
    BY DEF Taken, h
  <2>2. K \in SUBSET Nat /\ h \in K
    BY <1>1, <1>4
  <2> HIDE DEF K, k
  <2>3. k \in K /\ \A y \in K : k <= y
    BY <2>1, <2>2, MinIsLeast
  <2> QED BY <1>1, <1>4, <2>3 DEF K
<1> HIDE DEF k, K
<1>7. k \in 0 .. n /\ Len(r.sel) = k
  <2>1. k \in 0 .. n
    BY <1>1, <1>4, <1>6
  <2>2. FirstOf(sorted, k) \in Seq(UtxoRecord) /\ Len(FirstOf(sorted, k)) = k
    BY <1>4, <2>1, Cut
  <2> QED BY <1>5, <2>1, <2>2, ConcatEmptySeq
<1>8. IsFiniteSet(s) /\ Cardinality(s) \in Nat
  <2>1. IsFiniteSet(1 .. n) /\ s \in SUBSET (1 .. n)
    BY <1>1, FS_Interval
  <2>2. IsFiniteSet(s)
    BY <2>1, FS_Subset
  <2> QED BY <2>2, FS_CardinalityType
<1> SUFFICES ASSUME Cardinality(s) < k PROVE FALSE
  BY <1>1, <1>7, <1>8
<1> DEFINE T == {f[i] : i \in 1 .. k - 1}
           c == us[f[k]].val[t]
<1>9. k - 1 \in 0 .. n /\ k - 1 \in 0 .. h /\ k - 1 < k /\ k \in 1 .. n /\ Cardinality(s) <= k - 1
  BY <1>1, <1>4, <1>6, <1>7, <1>8
<1>10. \A x \in 1 .. n : us[x].val[t] \in Nat
  <2>1. \A x \in 1 .. n : us[x] \in UtxoRecord
    BY <1>1, ElementOfSeq DEF n
  <2> QED BY <2>1 DEF UtxoRecord, Bundle
<1>19. f \in [1 .. n -> 1 .. n] /\ \A i \in 1 .. n : f[i] \in 1 .. n
  OBVIOUS
<1>11. /\ T \in SUBSET (1 .. n) /\ Cardinality(T) = k - 1
       /\ SumOf(FirstOf(sorted, k - 1))[t] = SumValues(Part(us, T))[t]
  <2>1. \A i \in 1 .. n : sorted[i] = us[f[i]]
    BY <1>3
  <2>2. n = Len(us)
    BY DEF n
  <2>3. \A i, j \in 1 .. n : f[i] = f[j] => i = j
    BY <1>3
  <2> DEFINE m == k - 1
  <2>4. m \in 0 .. n /\ us \in Seq(UtxoRecord) /\ sorted \in Seq(UtxoRecord) /\ Len(sorted) = n
    BY <1>1, <1>4, <1>9
  <2>5. f \in [1 .. n -> 1 .. n]
    BY <1>19
  <2> HIDE DEF m
  <2>6. FirstWorth(us, sorted, f, m, t)
    BY <2>1, <2>2, <2>3, <2>4, <2>5, FirstIsPart, Zenon
  <2> QED BY <2>2, <2>6 DEF m, FirstWorth
<1>20. \A i, j \in 1 .. n : i < j => us[f[i]].val[t] >= us[f[j]].val[t]
  BY <1>3
<1>12. \A i \in T : us[i].val[t] >= c
  <2> SUFFICES ASSUME NEW i \in 1 .. k - 1 PROVE us[f[i]].val[t] >= c
    OBVIOUS
  <2>1. i \in 1 .. n /\ i < k
    BY <1>1, <1>9
  <2> QED BY <1>9, <1>20, <2>1
<1>13. \A x \in (1 .. n) \ T : us[x].val[t] <= c
  <2> SUFFICES ASSUME NEW x \in 1 .. n, x \notin T PROVE us[x].val[t] <= c
    OBVIOUS
  <2>1. PICK i \in 1 .. n : f[i] = x
    BY <1>3
  <2>2. ~(i \in 1 .. k - 1)
    BY <2>1
  <2>3. i = k \/ k < i
    BY <1>1, <1>9, <2>2
  <2>4. us[f[i]].val[t] \in Nat /\ us[f[k]].val[t] \in Nat
    BY <1>9, <1>10, <1>19
  <2>5. us[f[k]].val[t] >= us[f[i]].val[t]
    <3>1. CASE i = k
      BY <2>4, <3>1
    <3>2. CASE k < i
      BY <1>9, <1>20, <3>2
    <3> QED BY <2>3, <3>1, <3>2
  <2> QED BY <2>1, <2>4, <2>5
<1>14. c \in Nat
  BY <1>9, <1>10, <1>19
<1> HIDE DEF T, c
<1>15. SumValues(Part(us, s))[t] <= SumValues(Part(us, T))[t]
  BY <1>1, <1>9, <1>11, <1>12, <1>13, <1>14, ThresholdIsBest DEF n
<1>16. Got(t, us, ZeroValue, k - 1) = SumValues(Part(us, T))[t]
  <2>1. Got(t, us, ZeroValue, k - 1) = 0 + SumOf(FirstOf(sorted, k - 1))[t]
    BY <1>2 DEF Got, sorted
  <2>2. SumValues(Part(us, T))[t] \in Nat
    BY <1>1, PartType
  <2> QED BY <1>11, <2>1, <2>2
<1>17. ~(Got(t, us, ZeroValue, k - 1) >= required)
  BY <1>6, <1>9
<1>18. SumValues(Part(us, s))[t] \in Nat /\ SumValues(Part(us, T))[t] \in Nat
  BY <1>1, PartType
<1> QED BY <1>15, <1>16, <1>17, <1>18 DEF Enough

-----------------------------------------------------------------------------
\* One token is asked for, and no UTXO is given.
OneWanted(t) == req.pre = <<>> /\ {x \in Tokens : req.target[x] > 0} = {t}

Untouched == selection = <<>> /\ remaining = req.available /\ accumulated = ZeroValue

Minimal(t) ==
  \A s \in SUBSET DOMAIN req.available :
    Enough(req.available, s, t, req.target[t]) => Cardinality(s) >= Len(selection)

\* Until the token is looked at nothing is selected, then it is covered with as
\* few inputs as can be, and no later token adds one.
Lean ==
  \A t \in Tokens : OneWanted(t) =>
    /\ pc = "preselect" => Untouched
    /\ pc \in {"tokens", "build"} =>
         Untouched \/ (accumulated[t] >= req.target[t] /\ Minimal(t))

LEMMA LeanInit == Init => Lean
  BY DEF Init, Lean, Untouched

LEMMA LeanSelectToken ==
  ASSUME IInv, Lean, SelectToken
  PROVE  Lean'
<1> SUFFICES ASSUME NEW t \in Tokens, OneWanted(t)', pc' \in {"preselect", "tokens", "build"}
             PROVE  pc' = "tokens" /\ (Untouched' \/ (accumulated'[t] >= req'.target[t] /\ Minimal(t)'))
  BY DEF Lean
<1>1. req' = req /\ pc = "tokens" /\ next \in DOMAIN TargetTokens
  BY DEF SelectToken
<1>2. OneWanted(t) /\ (Untouched \/ (accumulated[t] >= req.target[t] /\ Minimal(t)))
  BY <1>1 DEF OneWanted, Lean
<1> DEFINE x == TargetTokens[next]
           r == select_utxos(x, req.target[x], remaining, selection, accumulated)
<1>3. /\ selection' = r.sel /\ remaining' = r.rem /\ accumulated' = r.acc
      /\ pc' = IF r.ok THEN "tokens" ELSE "failed"
  BY DEF SelectToken
<1>4. r.ok /\ pc' = "tokens"
  BY <1>3
<1>5. TypeOK /\ Lists(selection, remaining, Ledger(req)) /\ req.target \in Value
  BY <1>1, RequestFixed DEF IInv, Moved
<1>6. x \in Tokens /\ req.target[x] \in Int /\ accumulated \in Bundle /\ Ledger(req) \in SUBSET UtxoRecord
  <2>1. x \in Tokens
    BY <1>1, <1>5, TargetTokensProperties
  <2> QED BY <1>1, <1>5, <2>1, RequestFixed DEF TypeOK, Value
<1>7. r = select_utxos(x, req.target[x], remaining, selection, accumulated)
  OBVIOUS
<1> HIDE DEF r, x
<1>8. SelectResult(r, Ledger(req), selection, remaining, x, req.target[x], accumulated)
  BY <1>5, <1>6, <1>7, SelectProperties
<1>9. CASE accumulated[x] >= req.target[x]
  <2>1. r.sel = selection /\ r.rem = remaining /\ r.acc = accumulated
    BY <1>8, <1>9 DEF SelectResult
  <2>2. selection' = selection /\ remaining' = remaining /\ accumulated' = accumulated
    BY <1>3, <2>1
  <2> QED BY <1>1, <1>2, <1>4, <2>2 DEF Untouched, Minimal
<1>10. CASE ~(accumulated[x] >= req.target[x])
  <2>1. accumulated[x] \in Nat
    BY <1>6 DEF Bundle
  <2>2. req.target[x] > 0
    BY <1>6, <1>10, <2>1
  <2>3. x = t
    BY <1>2, <1>6, <2>2 DEF OneWanted
  <2>4. Untouched
    BY <1>2, <1>10, <2>3
  <2> DEFINE av == req.available
  <2>5. r = select_utxos(t, req.target[t], av, <<>>, ZeroValue)
    BY <1>7, <2>3, <2>4 DEF Untouched
  <2>6. av \in Seq(Ledger(req)) /\ Distinct(av)
    BY <1>5, <2>4 DEF Lists, Untouched
  <2>7. accumulated'[t] >= req'.target[t]
    BY <1>1, <1>3, <1>4, <1>8, <2>3 DEF SelectResult
  <2> HIDE DEF av
  <2>8. ASSUME NEW s \in SUBSET (DOMAIN av), Enough(av, s, t, req.target[t])
        PROVE  Cardinality(s) >= Len(r.sel)
    BY <1>4, <1>6, <2>2, <2>3, <2>5, <2>6, <2>8, SelectsFewest
  <2>9. Minimal(t)'
    <3>1. Len(selection') = Len(r.sel) /\ req'.available = av /\ req'.target[t] = req.target[t]
      BY <1>1, <1>3 DEF av
    <3> QED BY <2>8, <3>1, Zenon DEF Minimal
  <2> QED BY <1>4, <2>7, <2>9
<1> QED BY <1>9, <1>10

LEMMA LeanStep == IInv /\ Lean /\ [Next]_vars => Lean'
<1> SUFFICES ASSUME IInv, Lean, [Next]_vars PROVE Lean'
  OBVIOUS
<1>1. CASE TakePreselected
  <2>1. req' = req /\ next \in DOMAIN req.pre
    BY <1>1 DEF TakePreselected
  <2> QED BY <2>1 DEF Lean, OneWanted
<1>2. CASE EnsureInput
  <2> SUFFICES ASSUME NEW t \in Tokens, OneWanted(t)'
               PROVE  (pc' = "preselect" \/ pc' \in {"tokens", "build"}) => Untouched'
    BY DEF Lean
  <2>1. req' = req /\ pc = "preselect" /\ accumulated' = accumulated
    BY <1>2 DEF EnsureInput
  <2>2. OneWanted(t) /\ Untouched
    BY <2>1 DEF Lean, OneWanted
  <2>3. req.target \in Value /\ req.target[t] > 0
    BY <2>1, <2>2, RequestFixed DEF IInv, OneWanted
  <2>4. AskedFor
    <3> SUFFICES ASSUME ~AskedFor PROVE FALSE
      OBVIOUS
    <3>1. req.target[t] <= 0 /\ req.target[t] \in Int
      BY <2>3, NothingAskedFor DEF Value
    <3> QED BY <2>3, <3>1
  <2>5. req.target[Ada] \in Int
    BY <2>3, TokensAreNat DEF Value
  <2>6. ~(req.target[Ada] <= 0 /\ AssetsOf(req.target) = {})
    BY <2>4, <2>5 DEF AskedFor
  <2>7. selection' = selection /\ remaining' = remaining
    BY <1>2, <2>6 DEF EnsureInput
  <2> QED BY <2>1, <2>2, <2>7 DEF Untouched
<1>3. CASE SelectToken
  BY <1>3, LeanSelectToken
<1>4. CASE TokensCovered \/ UNCHANGED vars
  <2>1. /\ UNCHANGED <<req, selection, remaining, accumulated>>
        /\ pc' = pc \/ (pc = "tokens" /\ pc' = "build")
    BY <1>4 DEF TokensCovered, vars
  <2>2. Untouched' = Untouched /\ \A t : OneWanted(t)' = OneWanted(t) /\ Minimal(t)' = Minimal(t)
    BY <2>1 DEF Untouched, OneWanted, Minimal
  <2> QED BY <2>1, <2>2 DEF Lean
<1>5. CASE ComputeChange \/ TopUp \/ EmitChange
  <2>1. pc' \in {"failed", "done", "fund"}
    BY <1>5 DEF ComputeChange, TopUp, EmitChange
  <2> QED BY <2>1 DEF Lean
<1> QED BY <1>1, <1>2, <1>3, <1>4, <1>5 DEF Next, Step, Terminated

LEMMA LeanIsFewest == IInv /\ Lean => FewestInputs
<1> DEFINE wanted == {t \in Tokens : req.target[t] > 0}
<1> SUFFICES ASSUME IInv, Lean, pc = "build", req.pre = <<>>, Cardinality(wanted) = 1,
                    NEW s \in SUBSET DOMAIN req.available,
                    \A t \in wanted : Held(s, t) >= req.target[t]
             PROVE  Cardinality(s) >= Len(selection)
  BY Zenon DEF FewestInputs
<1>1. IsFiniteSet(Tokens) /\ IsFiniteSet(wanted)
  <2>1. IsFiniteSet(Tokens)
    BY ValuesAssumption, FS_Interval DEF Tokens
  <2> QED BY <2>1, FS_Subset
<1>2. PICK t : wanted = {t}
  BY <1>1, FS_Singleton
<1>3. t \in Tokens /\ OneWanted(t) /\ Held(s, t) >= req.target[t]
  BY <1>2 DEF OneWanted
<1>4. Untouched \/ Minimal(t)
  BY <1>3 DEF Lean
<1>5. Held(s, t) = SumValues(Part(req.available, s))[t]
  BY Zenon DEF Held, Part
<1>6. CASE Minimal(t)
  BY <1>3, <1>5, <1>6 DEF Minimal, Enough
<1>7. CASE Untouched
  <2>1. Len(selection) = 0
    BY <1>7 DEF Untouched
  <2>2. req.available \in Seq(Ledger(req))
    BY <1>7 DEF IInv, Moved, Lists, Untouched
  <2>3. IsFiniteSet(s)
    <3>1. DOMAIN req.available = 1 .. Len(req.available) /\ Len(req.available) \in Nat
      BY <2>2
    <3>2. IsFiniteSet(1 .. Len(req.available))
      BY <3>1, FS_Interval
    <3> QED BY <3>1, <3>2, FS_Subset
  <2> QED BY <2>1, <2>3, FS_CardinalityType
<1> QED BY <1>4, <1>6, <1>7

\* The answer is the best there is: a requirement for one token is met with as
\* few inputs as any choice of UTXOs could, and a call fails only where spending
\* every UTXO would not do.
THEOREM AnswersAreBest == Spec => []AnswerIsBest
<1>1. Init => Lean
  BY LeanInit
<1>2. IInv /\ Lean /\ [Next]_vars => Lean'
  BY LeanStep
<1>3. IInv /\ Lean => AnswerIsBest
  BY LeanIsFewest, IInvConserves DEF AnswerIsBest
<1> QED BY <1>1, <1>2, <1>3, AlwaysIInv, PTL DEF Spec
-----------------------------------------------------------------------------
(* The contract of a coin selector.                                        *)

\* The contract speaks of values in the same terms.
LEMMA SameTerms ==
  /\ \A us : Promised!Ids(us) = IdsOf(us) /\ Promised!Total(us) = SumOf(us)
  /\ \A v, w : Promised!value_add(v, w) = value_add(v, w)
  /\ \A vs : Promised!SumValues(vs) = SumValues(vs)
  /\ \A v : Promised!compute_min_ada_required(v) = compute_min_ada_required(v)
  /\ \A v : Promised!AssetsOf(v) = AssetsOf(v)
  /\ \A as : Promised!value_is_oversized(as) = value_is_oversized(as)
  /\ Promised!Ada = Ada
<1>0. \A S : Promised!Cardinality(S) = Cardinality(S)
  BY Zenon DEF Promised!Cardinality, Cardinality, Promised!IsFiniteSet, IsFiniteSet
<1>1. /\ \A v, w : Promised!value_add(v, w) = value_add(v, w)
      /\ \A v : Promised!AssetsOf(v) = AssetsOf(v)
      /\ \A as : Promised!value_is_oversized(as) = value_is_oversized(as)
      /\ Promised!Ada = Ada
  BY <1>0 DEF Promised!value_add, value_add, Promised!Tokens, Tokens, Promised!AssetsOf, AssetsOf,
     Promised!Assets, Assets, Promised!value_is_oversized, value_is_oversized, Promised!Ada, Ada
<1>2. \A vs : Promised!SumValues(vs) = SumValues(vs)
  BY Zenon DEF Promised!SumValues, SumValues, Promised!FoldLeft, FoldLeft, Promised!MapThenFoldSet,
     MapThenFoldSet, Promised!value_add, value_add, Promised!ZeroValue, ZeroValue, Promised!Tokens, Tokens,
     Promised!Max, Max
<1>3. \A us : Promised!Ids(us) = IdsOf(us) /\ Promised!Total(us) = SumOf(us)
  BY <1>2, Zenon DEF Promised!Ids, IdsOf, Promised!Total, SumOf
<1>4. \A v : Promised!compute_min_ada_required(v) = compute_min_ada_required(v)
  BY <1>0, <1>1 DEF Promised!compute_min_ada_required, compute_min_ada_required
<1> QED BY <1>1, <1>2, <1>3, <1>4

\* No change is written before the call is done.
Unwritten == pc # "done" => change = <<>>

LEMMA AlwaysUnwritten == Spec => []Unwritten
<1>1. Init => Unwritten
  BY DEF Init, Unwritten
<1>2. Unwritten /\ [Next]_vars => Unwritten'
  <2> SUFFICES ASSUME Unwritten, [Next]_vars PROVE Unwritten'
    OBVIOUS
  <2>1. CASE EmitChange
    BY <2>1 DEF EmitChange, Unwritten
  <2>2. CASE TakePreselected \/ EnsureInput \/ SelectToken \/ TokensCovered \/ ComputeChange \/ TopUp
    <3>1. pc # "done" /\ change' = change
      BY <2>2 DEF TakePreselected, EnsureInput, SelectToken, TokensCovered, ComputeChange, TopUp
    <3> QED BY <3>1 DEF Unwritten
  <2>3. CASE UNCHANGED vars
    BY <2>3 DEF vars, Unwritten
  <2> QED BY <2>1, <2>2, <2>3 DEF Next, Step, Terminated
<1> QED BY <1>1, <1>2, PTL DEF Spec

\* The lists and the change of a call that ends well.
LEMMA DoneKeepsContract ==
  ASSUME IInv', pc' = "done", req' = req,
         change' \in Seq(Bundle), SumOf(selection') = value_add(req.target, SumValues(change')),
         \A i \in 1 .. Len(change') : /\ change'[i][Ada] >= compute_min_ada_required(change'[i])
                                      /\ ~value_is_oversized(AssetsOf(change'[i]))
  PROVE  Promised!Contract'
<1> DEFINE sel == selection'
           rem == remaining'
           ch == change'
<1>1. /\ IdsOf(sel) \cap IdsOf(rem) = {}
      /\ IdsOf(sel) \cup IdsOf(rem) = IdsOf(req.pre) \cup IdsOf(req.available)
      /\ IdsOf(req.pre) \subseteq IdsOf(sel)
      /\ Len(sel) = Cardinality(IdsOf(sel))
  <2>1. Moved' /\ Shared'
    BY DEF IInv
  <2>2. Lists(sel, rem, Ledger(req))
    BY <2>1 DEF Moved, Lists, IdsOf, Distinct
  <2>3. Len(sel) = Cardinality(IdsOf(sel))
    <3> DEFINE S == Ledger(req)
    <3>1. sel \in Seq(S) /\ Distinct(sel)
      BY <2>2 DEF Lists
    <3> HIDE DEF S
    <3> QED BY <3>1, ListLength
  <2>4. /\ IdsOf(sel) \cup IdsOf(rem) = IdsOf(req.pre) \cup IdsOf(req.available)
        /\ IdsOf(req.pre) \subseteq IdsOf(sel)
    BY <2>1 DEF Shared, IdsOf
  <2> QED BY <2>2, <2>3, <2>4 DEF Lists
<1>2. Promised!LocallyBalanced(sel, ch, req'.target)
  BY SameTerms DEF Promised!LocallyBalanced
<1>3. Promised!ChangeCompliant(ch)
  <2>1. DOMAIN ch = 1 .. Len(ch)
    OBVIOUS
  <2>2. ASSUME NEW i \in DOMAIN ch
        PROVE  /\ ch[i][Promised!Ada] >= Promised!compute_min_ada_required(ch[i])
               /\ ~Promised!value_is_oversized(Promised!AssetsOf(ch[i]))
    BY <2>1, SameTerms
  <2> HIDE DEF ch
  <2> QED BY <2>2 DEF Promised!ChangeCompliant
<1>4. Promised!Partitioned(req'.pre, req'.available, sel, rem)
  <2>1. \A S : Promised!Cardinality(S) = Cardinality(S)
    BY Zenon DEF Promised!Cardinality, Cardinality, Promised!IsFiniteSet, IsFiniteSet
  <2> HIDE DEF sel, rem
  <2> QED BY <1>1, <2>1, SameTerms DEF Promised!Partitioned
<1>5. Promised!Contract' = /\ Promised!LocallyBalanced(sel, ch, req'.target)
                           /\ Promised!ChangeCompliant(ch)
                           /\ Promised!Partitioned(req'.pre, req'.available, sel, rem)
  BY DEF Promised!Contract, Promised!LocallyBalanced, Promised!ChangeCompliant, Promised!Partitioned,
         Promised!Total, Promised!Ids
<1> QED BY <1>2, <1>3, <1>4, <1>5

LEMMA StepImplements ==
  ASSUME IInv, IInv', Unwritten, [Next]_vars
  PROVE  [Promised!Next]_(Promised!vars)
<1>1. ASSUME pc' = pc \/ {pc, pc'} \cap {"done", "failed"} = {}, req' = req,
             pc = "done" => UNCHANGED vars
      PROVE  UNCHANGED Promised!vars
  <2>1. (pc' = "done" <=> pc = "done") /\ (pc' = "failed" <=> pc = "failed")
    BY <1>1
  <2>2. CASE pc = "done"
    BY <1>1, <2>1, <2>2 DEF Promised!vars, vars
  <2>3. CASE pc # "done"
    BY <1>1, <2>1, <2>3 DEF Promised!vars
  <2> QED BY <2>2, <2>3
<1>2. ASSUME pc \notin {"done", "failed"}, pc' = "failed", req' = req PROVE Promised!Next
  BY <1>2 DEF Promised!Next, Promised!Fail
<1>3. ASSUME pc \notin {"done", "failed"}, pc' = "done", req' = req, Promised!Contract' PROVE Promised!Next
  BY <1>3 DEF Promised!Next, Promised!Succeed
<1>4. CASE TakePreselected \/ TokensCovered
  <2>1. pc \notin {"done", "failed"} /\ pc' \notin {"done", "failed"} /\ req' = req
    BY <1>4 DEF TakePreselected, TokensCovered
  <2> QED BY <1>1, <2>1
<1>5. CASE EnsureInput \/ SelectToken \/ TopUp
  <2>1. pc \notin {"done", "failed"} /\ pc' # "done" /\ req' = req
    BY <1>5 DEF EnsureInput, SelectToken, TopUp
  <2> QED BY <1>1, <1>2, <2>1
<1>6. CASE ComputeChange
  <2>1. /\ changeValue' = value_subtract(SumOf(selection), req.target)
        /\ pc' = IF changeValue' = ZeroValue THEN "done" ELSE "fund"
        /\ pc = "build" /\ UNCHANGED <<req, next, selection, remaining, accumulated, change>>
    BY <1>6, ComputedChange
  <2>2. CASE changeValue' # ZeroValue
    BY <1>1, <2>1, <2>2
  <2>3. CASE changeValue' = ZeroValue
    <3>1. req.target \in Value /\ SumOf(selection) \in Value
      <4>1. TypeOK /\ Moved
        BY DEF IInv
      <4>2. req.target \in Value /\ Ledger(req) \in SUBSET UtxoRecord
        BY <2>1, <4>1, RequestFixed
      <4>3. selection \in Seq(Ledger(req))
        BY <4>1 DEF Moved, Lists
      <4> QED BY <4>2, <4>3, WorthType
    <3>2. SumOf(selection) = req.target
      <4> DEFINE sold == SumOf(selection)
                 target == req.target
      <4>1. sold \in [Tokens -> Int] /\ target \in [Tokens -> Int]
        BY <3>1 DEF Value
      <4>2. value_subtract(sold, target) = ZeroValue
        BY <2>1, <2>3
      <4> HIDE DEF sold, target
      <4>3. \A t \in Tokens : sold[t] = target[t]
        <5> TAKE t \in Tokens
        <5>1. value_subtract(sold, target)[t] = sold[t] - target[t] /\ ZeroValue[t] = 0
          BY DEF value_subtract, ZeroValue
        <5>2. sold[t] - target[t] = 0 /\ sold[t] \in Int /\ target[t] \in Int
          BY <4>1, <4>2, <5>1
        <5> QED BY <5>2
      <4>4. sold = target
        BY <4>1, <4>3
      <4> QED BY <4>4 DEF sold, target
    <3>3. change' = <<>> /\ change' \in Seq(Bundle) /\ Len(change') = 0
      BY <2>1 DEF Unwritten
    <3>4. SumOf(selection') = value_add(req.target, SumValues(change'))
      <4>1. value_add(req.target, ZeroValue) = req.target
        BY <3>1, ValueArithmetic
      <4> QED BY <2>1, <3>2, <3>3, <4>1, SumEmpty
    <3>5. Promised!Contract'
      BY <2>1, <2>3, <3>3, <3>4, DoneKeepsContract
    <3> QED BY <1>3, <2>1, <2>3, <3>5
  <2> QED BY <2>2, <2>3
<1>7. CASE EmitChange
  <2>1. /\ change' \in Seq(Bundle) /\ SumValues(change') = changeValue
        /\ \A i \in 1 .. Len(change') : /\ change'[i][Ada] >= compute_min_ada_required(change'[i])
                                        /\ ~value_is_oversized(AssetsOf(change'[i]))
        /\ pc = "fund" /\ pc' = "done"
        /\ UNCHANGED <<req, next, selection, remaining, accumulated, changeValue>>
    BY <1>7, EmittedChange
  <2>2. changeValue = value_subtract(SumOf(selection), req.target)
    BY <2>1 DEF IInv, Owed
  <2>3. SumOf(selection') = value_add(req.target, SumValues(change'))
    <3> DEFINE sold == SumOf(selection)
               target == req.target
    <3>1. target \in Value /\ sold \in Value
      <4>1. TypeOK /\ Moved
        BY DEF IInv
      <4>2. req.target \in Value /\ Ledger(req) \in SUBSET UtxoRecord
        BY <2>1, <4>1, RequestFixed
      <4>3. selection \in Seq(Ledger(req))
        BY <4>1 DEF Moved, Lists
      <4> QED BY <4>2, <4>3, WorthType
    <3>2. SumValues(change') = value_subtract(sold, target) /\ SumOf(selection') = sold
      BY <2>1, <2>2
    <3> HIDE DEF sold, target
    <3>3. value_add(target, value_subtract(sold, target)) = sold
      BY <3>1 DEF value_add, value_subtract, Value
    <3> QED BY <3>2, <3>3 DEF target
  <2>4. Promised!Contract'
    BY <2>1, <2>3, DoneKeepsContract
  <2> QED BY <1>3, <2>1, <2>4
<1>8. CASE UNCHANGED vars
  BY <1>1, <1>8 DEF vars
<1> QED BY <1>4, <1>5, <1>6, <1>7, <1>8 DEF Next, Step, Terminated

\* The large-first selector keeps the contract of cardano_coin_select_func_t,
\* whatever the UTXOs, the assets and the limits of an output are: a call that
\* does not fail answers with a balanced selection, a compliant change and the
\* UTXOs split between its two lists.
THEOREM LargeFirstImplements == Spec => ImplementsCoinSelection
<1>1. Init => Promised!Init
  BY DEF Init, Promised!Init
<1>2. IInv /\ IInv' /\ Unwritten /\ [Next]_vars => [Promised!Next]_(Promised!vars)
  BY StepImplements
<1> QED BY <1>1, <1>2, AlwaysIInv, AlwaysUnwritten, PTL
        DEF Spec, ImplementsCoinSelection, Promised!Spec
=============================================================================
