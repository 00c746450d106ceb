---------------------------- MODULE ValueTheorems -----------------------------
(***************************************************************************)
(* Facts about naturals, sorting, sums over sets, and about values, their  *)
(* sums and their splitting, for any number of assets and sequences of any *)
(* length.                                                                 *)
(*                                                                         *)
(* Induction is over a set of naturals, LEMMA Induction, which the         *)
(* well-foundedness of < gives without an operator as a parameter; so is   *)
(* induction over sequences.  A sum is a fold, defined by recursion over   *)
(* the sets of indices, and the splitting of an asset set recurs over its  *)
(* subsets; both are reasoned about in this way.                           *)
(***************************************************************************)
EXTENDS Values, FiniteSetTheorems, SequenceTheorems, WellFoundedInduction, TLAPS

-----------------------------------------------------------------------------
(* Naturals.                                                               *)

\* A set of naturals that is not empty has a least element.
LEMMA LeastNatural ==
  ASSUME NEW T \in SUBSET Nat, T # {}
  PROVE  \E x \in T : \A y \in T : x <= y
<1> DEFINE Less == {ss \in Nat \X Nat : ss[1] < ss[2]}
<1>1. IsWellFoundedOn(Less, Nat)
  BY NatLessThanWellFounded DEF OpToRel
<1> HIDE DEF Less
<1>2. PICK x \in T : \A y \in T : ~(<<y, x>> \in Less)
  BY <1>1, WFMin
<1>3. ASSUME NEW y \in T PROVE x <= y
  <2>1. x \in Nat /\ y \in Nat
    OBVIOUS
  <2>2. <<y, x>> \in Nat \X Nat /\ <<y, x>>[1] = y /\ <<y, x>>[2] = x
    BY <2>1
  <2>3. ~(y < x)
    BY <1>2, <2>2 DEF Less
  <2> QED BY <2>1, <2>3
<1> QED BY <1>3

\* A set that has 0 and with every natural the next one has them all.
LEMMA Induction ==
  ASSUME NEW S, 0 \in S, \A n \in Nat : n \in S => n + 1 \in S
  PROVE  Nat \subseteq S
<1>1. SUFFICES ASSUME Nat \ S # {} PROVE FALSE
  OBVIOUS
<1>2. PICK x \in Nat \ S : \A y \in Nat \ S : x <= y
  BY <1>1, LeastNatural
<1>3. x # 0 /\ x - 1 \in Nat /\ x - 1 \in S
  BY <1>2
<1> QED BY <1>2, <1>3

\* The same for the naturals up to a bound.
LEMMA InductionUpTo ==
  ASSUME NEW m \in Nat, NEW S, 0 \in S, \A n \in 0 .. m - 1 : n \in S => n + 1 \in S
  PROVE  0 .. m \subseteq S
<1> DEFINE T == {n \in Nat : n <= m => n \in S}
<1>1. 0 \in T /\ \A n \in Nat : n \in T => n + 1 \in T
  OBVIOUS
<1> HIDE DEF T
<1>2. Nat \subseteq T
  BY <1>1, Induction
<1> QED BY <1>2 DEF T

\* Max and Min of a set of naturals.
LEMMA MaxIsGreatest ==
  ASSUME NEW m \in Nat, NEW T \in SUBSET (0 .. m), T # {}
  PROVE  Max(T) \in T /\ \A y \in T : y <= Max(T)
<1> DEFINE U == {m - y : y \in T}
<1>1. U \in SUBSET Nat /\ U # {}
  <2>1. \A y \in T : m - y \in Nat
    OBVIOUS
  <2>2. PICK t \in T : TRUE
    OBVIOUS
  <2>3. m - t \in U
    OBVIOUS
  <2> QED BY <2>1, <2>3
<1>2. PICK x \in U : \A y \in U : x <= y
  BY <1>1, LeastNatural
<1>3. PICK z \in T : x = m - z
  BY <1>2
<1>4. \A y \in T : z >= y
  <2> TAKE y \in T
  <2>1. m - y \in U
    OBVIOUS
  <2>2. m - z <= m - y
    BY <1>2, <1>3, <2>1
  <2> QED BY <2>2
<1>5. Max(T) \in T /\ \A y \in T : Max(T) >= y
  BY <1>4 DEF Max
<1> QED BY <1>5

LEMMA MinIsLeast ==
  ASSUME NEW T \in SUBSET Nat, T # {}
  PROVE  Min(T) \in T /\ \A y \in T : Min(T) <= y
  BY LeastNatural DEF Min

LEMMA TimesMonotone ==
  ASSUME NEW c \in Nat, NEW x \in Nat, NEW y \in Nat, x <= y
  PROVE  c * x <= c * y /\ c * x \in Nat /\ c * y \in Nat
<1>1. y - x \in Nat /\ y = x + (y - x)
  OBVIOUS
<1>2. c * (y - x) \in Nat /\ c * x \in Nat /\ c * y \in Nat
  BY <1>1
<1>3. c * y = c * x + c * (y - x)
  BY <1>1
<1> QED BY <1>2, <1>3

\* A set that has the empty sequence and with every sequence the ones that are
\* longer by one has them all.
LEMMA SequenceInduction ==
  ASSUME NEW S, NEW G, <<>> \in G,
         \A s \in Seq(S), e \in S : s \in G => Append(s, e) \in G
  PROVE  Seq(S) \subseteq G
<1> DEFINE T == {n \in Nat : \A s \in Seq(S) : Len(s) = n => s \in G}
<1>1. 0 \in T
  <2>1. ASSUME NEW s \in Seq(S), Len(s) = 0 PROVE s \in G
    <3>1. s = <<>>
      BY <2>1, EmptySeq
    <3> QED BY <3>1
  <2> QED BY <2>1
<1>2. \A n \in Nat : n \in T => n + 1 \in T
  <2>1. ASSUME NEW n \in Nat, n \in T, NEW s \in Seq(S), Len(s) = n + 1 PROVE s \in G
    <3>1. s # <<>>
      BY <2>1, EmptySeq
    <3>2. PICK t \in Seq(S), e \in S : s = Append(t, e)
      BY <3>1, SequenceEmptyOrAppend
    <3>3. Len(s) = Len(t) + 1 /\ Len(t) \in Nat
      BY <3>2, AppendProperties, LenProperties
    <3>4. Len(t) = n
      BY <2>1, <3>3
    <3> QED BY <2>1, <3>2, <3>4
  <2> QED BY <2>1
<1> HIDE DEF T
<1>3. Nat \subseteq T
  BY <1>1, <1>2, Induction
<1>4. ASSUME NEW s \in Seq(S) PROVE s \in G
  <2>1. Len(s) \in T
    BY <1>3, LenProperties
  <2> QED BY <2>1 DEF T
<1> QED BY <1>4

-----------------------------------------------------------------------------
(* Sorting.                                                                *)

IsOrder(S, R) ==
  /\ \A x, y \in S : x = y \/ <<x, y>> \in R \/ <<y, x>> \in R
  /\ \A x \in S : <<x, x>> \notin R
  /\ \A x, y, z \in S : <<x, y>> \in R /\ <<y, z>> \in R => <<x, z>> \in R

\* What comes below an element, and how many do.
Below(S, R, x) == {y \in S : <<y, x>> \in R}

LEMMA RankGrows ==
  ASSUME NEW S, IsFiniteSet(S), NEW R, IsOrder(S, R), NEW x \in S, NEW y \in S, <<x, y>> \in R
  PROVE  Cardinality(Below(S, R, x)) < Cardinality(Below(S, R, y))
<1>1. Below(S, R, x) \in SUBSET Below(S, R, y)
  BY DEF Below, IsOrder
<1>2. x \in Below(S, R, y) /\ x \notin Below(S, R, x)
  BY DEF Below, IsOrder
<1>3. IsFiniteSet(Below(S, R, y)) /\ IsFiniteSet(Below(S, R, x))
  <2>1. Below(S, R, y) \in SUBSET S /\ Below(S, R, x) \in SUBSET S
    BY DEF Below
  <2> QED BY <2>1, FS_Subset
<1>4. Cardinality(Below(S, R, x)) \in Nat /\ Cardinality(Below(S, R, y)) \in Nat
  BY <1>3, FS_CardinalityType
<1>5. /\ Cardinality(Below(S, R, x)) <= Cardinality(Below(S, R, y))
      /\ Cardinality(Below(S, R, y)) = Cardinality(Below(S, R, x)) => Below(S, R, y) = Below(S, R, x)
  BY <1>1, <1>3, FS_Subset
<1> QED BY <1>2, <1>4, <1>5

\* Every element gets a place of its own, behind those below it.
LEMMA InOrderProperties ==
  ASSUME NEW S, IsFiniteSet(S), NEW R, IsOrder(S, R)
  PROVE  /\ Cardinality(S) \in Nat
         /\ InOrder(S, R) \in [1 .. Cardinality(S) -> S]
         /\ \A x \in S : \E i \in 1 .. Cardinality(S) : InOrder(S, R)[i] = x
         /\ \A i, j \in 1 .. Cardinality(S) : InOrder(S, R)[i] = InOrder(S, R)[j] => i = j
         /\ \A i, j \in 1 .. Cardinality(S) : i < j => <<InOrder(S, R)[i], InOrder(S, R)[j]>> \in R
         /\ \A i \in 1 .. Cardinality(S) : Cardinality(Below(S, R, InOrder(S, R)[i])) = i - 1
<1> DEFINE n == Cardinality(S)
           rank == [x \in S |-> Cardinality(Below(S, R, x)) + 1]
           f == [m \in 1 .. n |-> CHOOSE x \in S : Cardinality({y \in S : <<y, x>> \in R}) = m - 1]
<1>1. n \in Nat
  BY FS_CardinalityType
<1>2. ASSUME NEW x \in S PROVE Cardinality(Below(S, R, x)) \in 0 .. n - 1
  <2>1. Below(S, R, x) \in SUBSET S /\ x \notin Below(S, R, x)
    BY DEF Below, IsOrder
  <2>2. IsFiniteSet(Below(S, R, x)) /\ Cardinality(Below(S, R, x)) <= n
        /\ (n = Cardinality(Below(S, R, x)) => S = Below(S, R, x))
    BY <2>1, FS_Subset
  <2>3. Cardinality(Below(S, R, x)) \in Nat
    BY <2>2, FS_CardinalityType
  <2> QED BY <1>1, <2>1, <2>2, <2>3
<1>3. \A x, y \in S : <<x, y>> \in R => rank[x] < rank[y]
  <2> SUFFICES ASSUME NEW x \in S, NEW y \in S, <<x, y>> \in R PROVE rank[x] < rank[y]
    OBVIOUS
  <2>1. Cardinality(Below(S, R, x)) < Cardinality(Below(S, R, y))
    BY RankGrows
  <2> QED BY <1>1, <1>2, <2>1
<1>4. rank \in [S -> 1 .. n]
  BY <1>1, <1>2
<1>5. \A x, y \in S : rank[x] = rank[y] => x = y
  <2> SUFFICES ASSUME NEW x \in S, NEW y \in S, rank[x] = rank[y], x # y PROVE FALSE
    OBVIOUS
  <2>1. <<x, y>> \in R \/ <<y, x>> \in R
    BY DEF IsOrder
  <2>2. rank[x] \in Int /\ rank[y] \in Int
    BY <1>4
  <2> HIDE DEF rank
  <2>3. rank[x] < rank[y] \/ rank[y] < rank[x]
    BY <1>3, <2>1
  <2> QED BY <2>2, <2>3
<1>6. \A i \in 1 .. n : \E x \in S : rank[x] = i
  <2>1. rank \in Injection(S, 1 .. n)
    BY <1>4, <1>5 DEF Injection, IsInjective
  <2>2. IsFiniteSet(1 .. n) /\ Cardinality(1 .. n) = n
    BY <1>1, FS_Interval
  <2> HIDE DEF rank
  <2>3. rank \in Surjection(S, 1 .. n)
    BY <2>1, <2>2, FS_Injection
  <2> QED BY <2>3 DEF Surjection
<1>7. ASSUME NEW i \in 1 .. n PROVE f[i] \in S /\ rank[f[i]] = i
  <2> DEFINE P(x) == Cardinality({y \in S : <<y, x>> \in R}) = i - 1
  <2>1. \E x \in S : P(x)
    <3>1. PICK x \in S : rank[x] = i
      BY <1>6
    <3>2. Cardinality(Below(S, R, x)) = i - 1
      BY <1>1, <1>2, <3>1
    <3> QED BY <3>2 DEF Below
  <2>2. f[i] = CHOOSE x \in S : P(x)
    OBVIOUS
  <2>3. f[i] \in S /\ P(f[i])
    <3> HIDE DEF P, f
    <3> QED BY <2>1, <2>2
  <2>4. Cardinality(Below(S, R, f[i])) = i - 1
    BY <2>3 DEF Below
  <2>5. rank[f[i]] = (i - 1) + 1
    BY <2>3, <2>4
  <2> QED BY <1>1, <2>3, <2>5
<1>8. f \in [1 .. n -> S]
  <2> DEFINE F(m) == CHOOSE x \in S : Cardinality({y \in S : <<y, x>> \in R}) = m - 1
  <2>1. f = [m \in 1 .. n |-> F(m)]
    OBVIOUS
  <2> HIDE DEF F, f
  <2>2. \A m \in 1 .. n : F(m) \in S
    BY <1>7, <2>1
  <2> QED BY <2>1, <2>2
<1> HIDE DEF f, rank
<1>9. \A x \in S : \E i \in 1 .. n : f[i] = x
  <2> TAKE x \in S
  <2>1. rank[x] \in 1 .. n
    BY <1>4
  <2>2. f[rank[x]] \in S /\ rank[f[rank[x]]] = rank[x]
    BY <1>7, <2>1
  <2> QED BY <1>5, <2>1, <2>2
<1>10. \A i, j \in 1 .. n : f[i] = f[j] => i = j
  BY <1>7
<1>11. ASSUME NEW i \in 1 .. n, NEW j \in 1 .. n, i < j PROVE <<f[i], f[j]>> \in R
  <2>1. f[i] \in S /\ f[j] \in S /\ rank[f[i]] = i /\ rank[f[j]] = j
    BY <1>7
  <2>2. f[i] # f[j] /\ ~(rank[f[j]] < rank[f[i]])
    BY <1>1, <1>11, <2>1
  <2>3. <<f[i], f[j]>> \in R \/ <<f[j], f[i]>> \in R
    BY <2>1, <2>2 DEF IsOrder
  <2> QED BY <1>3, <2>1, <2>2, <2>3
<1>12. \A i \in 1 .. n : Cardinality(Below(S, R, f[i])) = i - 1
  <2> TAKE i \in 1 .. n
  <2>1. f[i] \in S /\ rank[f[i]] = i /\ Cardinality(Below(S, R, f[i])) \in 0 .. n - 1
    BY <1>2, <1>7
  <2>2. rank[f[i]] = Cardinality(Below(S, R, f[i])) + 1
    BY <2>1 DEF rank
  <2> QED BY <1>1, <2>1, <2>2
<1>13. InOrder(S, R) = f
  <2>1. InOrder(S, R) = <<>> \o f
    BY Zenon DEF InOrder, f
  <2>2. f \in Seq(S)
    BY <1>1, <1>8
  <2> QED BY <2>1, <2>2, ConcatEmptySeq
<1> QED BY <1>1, <1>8, <1>9, <1>10, <1>11, <1>12, <1>13, Zenon

\* The order of numbers.
LEMMA NumbersAreOrdered ==
  ASSUME NEW S \in SUBSET Int
  PROVE  IsOrder(S, {p \in S \X S : p[1] < p[2]})
  BY DEF IsOrder

\* A finite set of naturals in ascending order has each of them once.
LEMMA AscendingFacts ==
  ASSUME NEW S \in SUBSET Nat, IsFiniteSet(S)
  PROVE  /\ Cardinality(S) \in Nat
         /\ Ascending(S) \in [1 .. Cardinality(S) -> S]
         /\ \A x \in S : \E i \in 1 .. Cardinality(S) : Ascending(S)[i] = x
         /\ \A i, j \in 1 .. Cardinality(S) : i < j => Ascending(S)[i] < Ascending(S)[j]
<1> DEFINE R == {p \in S \X S : p[1] < p[2]}
<1>1. IsOrder(S, R)
  BY NumbersAreOrdered
<1>2. Ascending(S) = InOrder(S, R)
  BY DEF Ascending
<1>3. \A x, y : <<x, y>> \in R => x < y
  OBVIOUS
<1> HIDE DEF R
<1> DEFINE a == InOrder(S, R)
<1>4. /\ Cardinality(S) \in Nat
      /\ a \in [1 .. Cardinality(S) -> S]
      /\ \A x \in S : \E i \in 1 .. Cardinality(S) : a[i] = x
      /\ \A i, j \in 1 .. Cardinality(S) : i < j => <<a[i], a[j]>> \in R
  BY <1>1, InOrderProperties, Zenon
<1>5. \A i, j \in 1 .. Cardinality(S) : i < j => a[i] < a[j]
  BY <1>3, <1>4, Zenon
<1> QED BY <1>2, <1>4, <1>5, Zenon

\* There is no other sequence that does.
LEMMA AscendingIsUnique ==
  ASSUME NEW S \in SUBSET Nat, NEW n \in Nat, NEW h \in [1 .. n -> S],
         \A x \in S : \E i \in 1 .. n : h[i] = x,
         \A i, j \in 1 .. n : i < j => h[i] < h[j]
  PROVE  IsFiniteSet(S) /\ Cardinality(S) = n /\ Ascending(S) = h
<1> DEFINE a == Ascending(S)
<1>1. \A i, j \in 1 .. n : h[i] = h[j] => i = j
  <2> SUFFICES ASSUME NEW i \in 1 .. n, NEW j \in 1 .. n, h[i] = h[j], i # j PROVE FALSE
    OBVIOUS
  <2>1. h[i] \in Nat /\ h[j] \in Nat
    OBVIOUS
  <2>2. i < j \/ j < i
    OBVIOUS
  <2> QED BY <2>1, <2>2
<1>2. h \in Bijection(1 .. n, S)
  BY <1>1 DEF Bijection, Injection, Surjection, IsInjective
<1>3. IsFiniteSet(1 .. n) /\ Cardinality(1 .. n) = n
  BY FS_Interval
<1>4. IsFiniteSet(S) /\ Cardinality(S) = n
  BY <1>2, <1>3, FS_Bijection DEF ExistsBijection
<1>5. /\ a \in [1 .. n -> S]
      /\ \A x \in S : \E i \in 1 .. n : a[i] = x
      /\ \A i, j \in 1 .. n : i < j => a[i] < a[j]
  BY <1>4, AscendingFacts
<1> HIDE DEF a
<1> DEFINE D == {i \in 1 .. n : a[i] # h[i]}
<1>6. ASSUME D # {} PROVE FALSE
  <2>1. D \in SUBSET Nat
    OBVIOUS
  <2>2. PICK i \in D : \A j \in D : i <= j
    BY <1>6, <2>1, LeastNatural
  <2>3. i \in 1 .. n /\ a[i] # h[i] /\ \A j \in 1 .. n : j < i => a[j] = h[j]
    BY <2>2
  <2>4. a[i] \in Nat /\ h[i] \in Nat
    BY <1>5, <2>3
  <2>5. CASE a[i] < h[i]
    <3>1. PICK m \in 1 .. n : h[m] = a[i]
      BY <1>5, <2>3
    <3>2. m < i
      BY <2>3, <2>4, <2>5, <3>1
    <3>3. a[m] < a[i] /\ a[m] = h[m]
      BY <1>5, <2>3, <3>2
    <3> QED BY <2>4, <3>1, <3>3
  <2>6. CASE h[i] < a[i]
    <3>1. PICK m \in 1 .. n : a[m] = h[i]
      BY <1>5, <2>3
    <3>2. m < i
      BY <1>5, <2>3, <2>4, <2>6, <3>1
    <3>3. h[m] < h[i] /\ a[m] = h[m]
      BY <2>3, <3>2
    <3> QED BY <2>4, <3>1, <3>3
  <2> QED BY <2>3, <2>4, <2>5, <2>6
<1>7. \A i \in 1 .. n : a[i] = h[i]
  BY <1>6
<1> HIDE DEF D
<1>8. a = h
  BY <1>5, <1>7
<1> QED BY <1>4, <1>8 DEF a

\* Some of the members, picked by their places.
LEMMA AscendingOfSome ==
  ASSUME NEW P \in SUBSET Nat, IsFiniteSet(P), NEW Q \in SUBSET (1 .. Cardinality(P)),
         NEW R, R = {Ascending(P)[j] : j \in Q}
  PROVE  /\ IsFiniteSet(R) /\ IsFiniteSet(Q) /\ Cardinality(R) = Cardinality(Q)
         /\ \A m \in 1 .. Cardinality(Q) : Ascending(R)[m] = Ascending(P)[Ascending(Q)[m]]
<1> DEFINE a == Ascending(P)
           q == Ascending(Q)
           h == [m \in 1 .. Cardinality(Q) |-> a[q[m]]]
<1>1. /\ Cardinality(P) \in Nat
      /\ a \in [1 .. Cardinality(P) -> P]
      /\ \A i, j \in 1 .. Cardinality(P) : i < j => a[i] < a[j]
  BY AscendingFacts
<1>2. Q \in SUBSET Nat /\ IsFiniteSet(Q)
  <2>1. IsFiniteSet(1 .. Cardinality(P))
    BY <1>1, FS_Interval
  <2>2. IsFiniteSet(Q)
    BY <2>1, FS_Subset
  <2> QED BY <1>1, <2>2
<1>3. /\ Cardinality(Q) \in Nat
      /\ q \in [1 .. Cardinality(Q) -> Q]
      /\ \A x \in Q : \E i \in 1 .. Cardinality(Q) : q[i] = x
      /\ \A i, j \in 1 .. Cardinality(Q) : i < j => q[i] < q[j]
  BY <1>2, AscendingFacts
<1>4. R = {a[j] : j \in Q}
  OBVIOUS
<1> HIDE DEF a, q
<1>5. R \in SUBSET Nat
  BY <1>1, <1>4
<1>6. h \in [1 .. Cardinality(Q) -> R]
  BY <1>3, <1>4
<1>7. \A x \in R : \E i \in 1 .. Cardinality(Q) : h[i] = x
  <2> SUFFICES ASSUME NEW x \in R PROVE \E i \in 1 .. Cardinality(Q) : h[i] = x
    OBVIOUS
  <2>1. PICK j \in Q : x = a[j]
    BY <1>4
  <2>2. PICK i \in 1 .. Cardinality(Q) : q[i] = j
    BY <1>3
  <2>3. h[i] = x
    BY <2>1, <2>2
  <2> QED BY <2>3
<1>8. \A i, j \in 1 .. Cardinality(Q) : i < j => h[i] < h[j]
  <2> SUFFICES ASSUME NEW i \in 1 .. Cardinality(Q), NEW j \in 1 .. Cardinality(Q), i < j
               PROVE  a[q[i]] < a[q[j]]
    OBVIOUS
  <2>1. q[i] \in 1 .. Cardinality(P) /\ q[j] \in 1 .. Cardinality(P) /\ q[i] < q[j]
    BY <1>3
  <2> QED BY <1>1, <2>1
<1> HIDE DEF h
<1>9. IsFiniteSet(R) /\ Cardinality(R) = Cardinality(Q) /\ Ascending(R) = h
  <2>1. Cardinality(Q) \in Nat
    BY <1>3
  <2> QED BY <1>5, <1>6, <1>7, <1>8, <2>1, AscendingIsUnique, Zenon
<1> QED BY <1>2, <1>9 DEF h, a, q

-----------------------------------------------------------------------------
(* The sum of a function over a finite set, in whatever order it is taken. *)

One(s) == CHOOSE x \in s : TRUE
SetStep(f, g, s) == IF s = {} THEN 0 ELSE f[One(s)] + g[s \ {One(s)}]

LEMMA SmallerSet ==
  ASSUME NEW U, IsFiniteSet(U), NEW s \in SUBSET U, NEW x \in s
  PROVE  /\ s \ {x} \in SUBSET U /\ Cardinality(s) \in Nat /\ Cardinality(s \ {x}) \in Nat
         /\ Cardinality(s \ {x}) = Cardinality(s) - 1 /\ One(s) \in s
<1>1. IsFiniteSet(s)
  BY FS_Subset
<1>2. IsFiniteSet(s \ {x}) /\ Cardinality(s \ {x}) = Cardinality(s) - 1
  BY <1>1, FS_RemoveElement
<1>3. One(s) \in s
  BY DEF One
<1> QED BY <1>1, <1>2, <1>3, FS_CardinalityType

LEMMA SetFunctionExists ==
  ASSUME NEW U, IsFiniteSet(U), NEW f, \A x \in U : f[x] \in Int
  PROVE  \E g \in [SUBSET U -> Int] : \A s \in SUBSET U : g[s] = SetStep(f, g, s)
<1> DEFINE Fun == [SUBSET U -> Int]
           Upto(g, m) == \A s \in SUBSET U : Cardinality(s) <= m => g[s] = SetStep(f, g, s)
           G == {m \in Nat : \E g \in Fun : Upto(g, m)}
<1>1. \A s \in SUBSET U : IsFiniteSet(s) /\ Cardinality(s) \in Nat
        /\ Cardinality(s) <= Cardinality(U) /\ (Cardinality(s) = 0 <=> s = {})
  BY FS_Subset, FS_CardinalityType, FS_EmptySet
<1>2. 0 \in G
  <2> DEFINE g == [s \in SUBSET U |-> 0]
  <2>1. g \in Fun
    OBVIOUS
  <2>2. Upto(g, 0)
    <3> SUFFICES ASSUME NEW s \in SUBSET U, Cardinality(s) <= 0 PROVE g[s] = SetStep(f, g, s)
      OBVIOUS
    <3>1. s = {}
      BY <1>1
    <3> QED BY <3>1 DEF SetStep
  <2> HIDE DEF g, Fun, Upto
  <2> QED BY <2>1, <2>2
<1>3. \A m \in Nat : m \in G => m + 1 \in G
  <2> SUFFICES ASSUME NEW m \in Nat, m \in G PROVE m + 1 \in G
    OBVIOUS
  <2>1. PICK g \in Fun : Upto(g, m)
    OBVIOUS
  <2> DEFINE h == [s \in SUBSET U |-> IF Cardinality(s) = m + 1 THEN SetStep(f, g, s) ELSE g[s]]
  <2>2. ASSUME NEW s \in SUBSET U PROVE SetStep(f, g, s) \in Int
    <3>1. CASE s = {}
      BY <3>1 DEF SetStep
    <3>2. CASE s # {}
      <4>1. One(s) \in s /\ s \ {One(s)} \in SUBSET U
        BY <3>2 DEF One
      <4>2. f[One(s)] \in Int /\ g[s \ {One(s)}] \in Int
        BY <4>1
      <4> QED BY <3>2, <4>2 DEF SetStep
    <3> QED BY <3>1, <3>2
  <2>3. h \in Fun
    BY <2>2
  <2>4. ASSUME NEW s \in SUBSET U, Cardinality(s) <= m + 1 PROVE h[s] = SetStep(f, h, s)
    <3>1. SetStep(f, h, s) = SetStep(f, g, s)
      <4>1. CASE s = {}
        BY <4>1 DEF SetStep
      <4>2. CASE s # {}
        <5> DEFINE x == One(s)
        <5>1. x \in s
          BY <4>2 DEF One
        <5> HIDE DEF x
        <5>2. s \ {x} \in SUBSET U /\ Cardinality(s \ {x}) = Cardinality(s) - 1
          BY <5>1, SmallerSet
        <5>3. Cardinality(s) \in Nat
          BY <1>1
        <5>4. Cardinality(s \ {x}) # m + 1
          BY <2>4, <5>2, <5>3
        <5>5. h[s \ {x}] = g[s \ {x}]
          BY <5>2, <5>4
        <5> HIDE DEF h
        <5> QED BY <4>2, <5>5 DEF SetStep, x
      <4> QED BY <4>1, <4>2
    <3>2. Cardinality(s) \in Nat
      BY <1>1
    <3>3. CASE Cardinality(s) = m + 1
      BY <3>1, <3>3
    <3>4. CASE Cardinality(s) # m + 1
      <4>1. Cardinality(s) <= m
        BY <2>4, <3>2, <3>4
      <4> QED BY <2>1, <3>1, <3>4, <4>1
    <3> QED BY <3>3, <3>4
  <2>5. Upto(h, m + 1)
    BY <2>4
  <2> HIDE DEF h, Fun, Upto
  <2> QED BY <2>3, <2>5
<1>4. Cardinality(U) \in Nat
  BY FS_CardinalityType
<1> HIDE DEF G
<1>5. Cardinality(U) \in G
  BY <1>2, <1>3, <1>4, Induction
<1>6. PICK g \in Fun : Upto(g, Cardinality(U))
  BY <1>5 DEF G
<1> QED BY <1>1, <1>6

\* Any element may be taken first.
TakesAny(f, g, U) == \A s \in SUBSET U : \A x \in s : g[s] = f[x] + g[s \ {x}]

LEMMA SetFunctionOrder ==
  ASSUME NEW U, IsFiniteSet(U), NEW f, \A x \in U : f[x] \in Int, NEW g \in [SUBSET U -> Int],
         \A s \in SUBSET U : g[s] = SetStep(f, g, s)
  PROVE  TakesAny(f, g, U)
<1> DEFINE AnyFirst(s) == \A x \in s : g[s] = f[x] + g[s \ {x}]
           Level(m) == \A s \in SUBSET U : Cardinality(s) = m => AnyFirst(s)
           G == {m \in Nat : Level(m)}
<1>1. 0 \in G
  <2>1. \A s \in SUBSET U : Cardinality(s) = 0 => s = {}
    BY FS_Subset, FS_EmptySet
  <2> QED BY <2>1
<1>2. \A m \in Nat : m \in G => m + 1 \in G
  <2> HIDE DEF AnyFirst, Level
  <2> SUFFICES ASSUME NEW m \in Nat, Level(m) PROVE Level(m + 1)
    OBVIOUS
  <2> SUFFICES ASSUME NEW s \in SUBSET U, Cardinality(s) = m + 1 PROVE AnyFirst(s)
    BY DEF Level
  <2> SUFFICES ASSUME NEW x \in s PROVE g[s] = f[x] + g[s \ {x}]
    BY DEF AnyFirst
  <2> DEFINE c == One(s)
             sc == s \ {c}
             sx == s \ {x}
             sxc == s \ {x, c}
  <2>1. c \in s
    BY DEF One
  <2>2. g[s] = f[c] + g[sc]
    BY DEF SetStep
  <2> HIDE DEF c
  <2>3. CASE x = c
    BY <2>2, <2>3
  <2>4. CASE x # c
    <3>1. sc \in SUBSET U /\ Cardinality(sc) = m /\ sx \in SUBSET U /\ Cardinality(sx) = m
      BY <2>1, SmallerSet
    <3>2. x \in sc /\ c \in sx /\ sc \ {x} = sxc /\ sx \ {c} = sxc
      BY <2>1, <2>4
    <3>3. AnyFirst(sc) /\ AnyFirst(sx)
      BY <3>1 DEF Level
    <3>4. g[sc] = f[x] + g[sxc] /\ g[sx] = f[c] + g[sxc]
      BY <3>2, <3>3 DEF AnyFirst
    <3>5. f[x] \in Int /\ f[c] \in Int /\ g[sxc] \in Int
      <4>1. sxc \in SUBSET U /\ x \in U /\ c \in U
        BY <2>1
      <4> HIDE DEF sxc
      <4> QED BY <4>1
    <3> HIDE DEF sc, sx, sxc
    <3> QED BY <2>2, <3>4, <3>5 DEF sx
  <2> QED BY <2>3, <2>4
<1> HIDE DEF G
<1>3. Nat \subseteq G
  BY <1>1, <1>2, Induction
<1>4. \A s \in SUBSET U : Cardinality(s) \in Nat
  BY FS_Subset, FS_CardinalityType
<1>5. \A s \in SUBSET U : AnyFirst(s)
  BY <1>3, <1>4 DEF G
<1> QED BY <1>5 DEF TakesAny

LEMMA SetSumIsFunction ==
  ASSUME NEW U, IsFiniteSet(U), NEW f, \A x \in U : f[x] \in Int, NEW g \in [SUBSET U -> Int],
         \A s \in SUBSET U : g[s] = SetStep(f, g, s), NEW S \in SUBSET U
  PROVE  SumFunctionOnSet(f, S) = g[S]
<1> DEFINE iter == CHOOSE h : h = [s \in SUBSET S |-> SetStep(f, h, s)]
           r == [s \in SUBSET S |-> g[s]]
<1>1. SumFunctionOnSet(f, S) = iter[S]
  BY Zenon DEF SumFunctionOnSet, FoldFunctionOnSet, MapThenFoldSet, SetStep, One
<1>2. IsFiniteSet(S)
  BY FS_Subset
<1>3. ASSUME NEW s \in SUBSET S PROVE r[s] = SetStep(f, r, s)
  <2>1. r[s] = SetStep(f, g, s)
    <3>1. s \in SUBSET U
      OBVIOUS
    <3> QED BY <3>1
  <2>2. r[s \ {One(s)}] = g[s \ {One(s)}]
    OBVIOUS
  <2> HIDE DEF r
  <2> QED BY <2>1, <2>2 DEF SetStep
<1>4. r = [s \in SUBSET S |-> SetStep(f, r, s)]
  <2>1. r = [s \in SUBSET S |-> r[s]]
    OBVIOUS
  <2> HIDE DEF r
  <2> QED BY <1>3, <2>1
<1>5. iter = [s \in SUBSET S |-> SetStep(f, iter, s)]
  <2> HIDE DEF r
  <2> QED BY <1>4, Zenon
<1> HIDE DEF iter, r
<1> DEFINE G == {m \in Nat : \A s \in SUBSET S : Cardinality(s) = m => iter[s] = g[s]}
<1>6. 0 \in G
  <2>1. \A s \in SUBSET S : Cardinality(s) = 0 => s = {}
    BY <1>2, FS_Subset, FS_EmptySet
  <2>2. iter[{}] = 0 /\ g[{}] = 0
    BY <1>5 DEF SetStep
  <2> QED BY <2>1, <2>2
<1>7. \A m \in Nat : m \in G => m + 1 \in G
  <2> SUFFICES ASSUME NEW m \in Nat, m \in G, NEW s \in SUBSET S, Cardinality(s) = m + 1
               PROVE  iter[s] = g[s]
    OBVIOUS
  <2> DEFINE c == One(s)
  <2>1. s # {}
    <3>1. Cardinality({}) = 0
      BY FS_EmptySet
    <3> QED BY <3>1
  <2>2. c \in s
    BY <2>1 DEF One
  <2>3. s \ {c} \in SUBSET S /\ Cardinality(s \ {c}) = m
    <3> HIDE DEF c
    <3> QED BY <1>2, <2>2, SmallerSet
  <2>4. iter[s \ {c}] = g[s \ {c}]
    BY <2>3
  <2>5. iter[s] = SetStep(f, iter, s) /\ g[s] = SetStep(f, g, s)
    BY <1>5
  <2> QED BY <2>1, <2>4, <2>5 DEF SetStep
<1> HIDE DEF G
<1>8. Nat \subseteq G
  BY <1>6, <1>7, Induction
<1>9. Cardinality(S) \in G
  BY <1>2, <1>8, FS_CardinalityType
<1> QED BY <1>1, <1>9 DEF G

\* One more element adds what it has, and the order does not matter.
LEMMA SetSums ==
  ASSUME NEW U, IsFiniteSet(U), NEW f, \A x \in U : f[x] \in Int, NEW S \in SUBSET U
  PROVE  /\ SumFunctionOnSet(f, {}) = 0
         /\ SumFunctionOnSet(f, S) \in Int
         /\ \A x \in S : SumFunctionOnSet(f, S) = SumFunctionOnSet(f, S \ {x}) + f[x]
<1>1. PICK g \in [SUBSET U -> Int] : \A s \in SUBSET U : g[s] = SetStep(f, g, s)
  BY SetFunctionExists
<1>2. \A s \in SUBSET U : SumFunctionOnSet(f, s) = g[s]
  BY <1>1, SetSumIsFunction
<1>3. g[{}] = 0
  BY <1>1 DEF SetStep
<1>4. SumFunctionOnSet(f, {}) = 0 /\ SumFunctionOnSet(f, S) \in Int
  BY <1>2, <1>3
<1>5. ASSUME NEW x \in S PROVE SumFunctionOnSet(f, S) = SumFunctionOnSet(f, S \ {x}) + f[x]
  <2>1. S \ {x} \in SUBSET U /\ x \in U
    OBVIOUS
  <2>2. g[S] = f[x] + g[S \ {x}]
    <3>1. TakesAny(f, g, U)
      BY <1>1, SetFunctionOrder
    <3> QED BY <3>1 DEF TakesAny
  <2>3. f[x] \in Int /\ g[S \ {x}] \in Int
    BY <2>1
  <2>4. SumFunctionOnSet(f, S) = g[S] /\ SumFunctionOnSet(f, S \ {x}) = g[S \ {x}]
    BY <1>2, <2>1
  <2> QED BY <2>2, <2>3, <2>4
<1> QED BY <1>4, <1>5

-----------------------------------------------------------------------------
(* Sums of values.                                                         *)

LEMMA TokensAreNat == Ada \in Tokens /\ Tokens \in SUBSET Nat /\ Assets \in SUBSET Tokens /\ Ada \notin Assets
  BY ValuesAssumption DEF Ada, Tokens, Assets

LEMMA ValueArithmetic ==
  /\ ZeroValue \in Value /\ ZeroValue \in Bundle /\ Bundle \in SUBSET Value
  /\ \A v, w \in Value : value_add(v, w) \in Value /\ value_subtract(v, w) \in Value
  /\ \A v, w \in Bundle : value_add(v, w) \in Bundle
  /\ \A v \in Value : value_add(v, ZeroValue) = v /\ value_add(ZeroValue, v) = v
  /\ \A v, w \in Value : value_add(v, w) = value_add(w, v)
  /\ \A u, v, w \in Value : value_add(value_add(u, v), w) = value_add(u, value_add(v, w))
  BY DEF Value, Bundle, ZeroValue, value_add, value_subtract

\* p holds the sums of the first values of vs: p[k] of the first k.
PartialSums(vs, p) ==
  /\ p \in [0 .. Len(vs) -> Value]
  /\ p[0] = ZeroValue
  /\ \A k \in 1 .. Len(vs) : p[k] = value_add(p[k - 1], vs[k])

\* g is the function over sets of indices that the sum is defined with.
SumStep(vs, g, s) == IF s = {} THEN ZeroValue ELSE value_add(g[s \ {Max(s)}], vs[Max(s)])

\* There is such a function: one over the subsets of 1..n extends to 1..n + 1.
LEMMA SumFunctionExists ==
  ASSUME NEW vs \in Seq(Value)
  PROVE  \E g \in [SUBSET (1 .. Len(vs)) -> Value] :
           \A s \in SUBSET (1 .. Len(vs)) : g[s] = SumStep(vs, g, s)
<1> DEFINE Good(n) == \E g \in [SUBSET (1 .. n) -> Value] :
                        \A s \in SUBSET (1 .. n) : g[s] = SumStep(vs, g, s)
           G == {n \in Nat : Good(n)}
<1>1. 0 \in G
  <2> DEFINE g == [s \in SUBSET (1 .. 0) |-> ZeroValue]
  <2>1. 1 .. 0 = {} /\ SUBSET (1 .. 0) = {{}}
    OBVIOUS
  <2>2. g \in [SUBSET (1 .. 0) -> Value]
    BY ValueArithmetic
  <2>3. \A s \in SUBSET (1 .. 0) : g[s] = SumStep(vs, g, s)
    BY <2>1 DEF SumStep
  <2>4. Good(0)
    BY <2>2, <2>3
  <2> QED BY <2>4
<1>2. \A n \in 0 .. Len(vs) - 1 : n \in G => n + 1 \in G
  <2> HIDE DEF Good
  <2> SUFFICES ASSUME NEW n \in 0 .. Len(vs) - 1, Good(n) PROVE Good(n + 1)
    OBVIOUS
  <2> USE DEF Good
  <2>1. PICK g \in [SUBSET (1 .. n) -> Value] :
          \A s \in SUBSET (1 .. n) : g[s] = SumStep(vs, g, s)
    OBVIOUS
  <2> DEFINE h == [s \in SUBSET (1 .. n + 1) |->
                     IF n + 1 \in s THEN value_add(g[s \ {n + 1}], vs[n + 1]) ELSE g[s]]
  <2>2. ASSUME NEW s \in SUBSET (1 .. n + 1)
        PROVE  /\ s \ {n + 1} \in SUBSET (1 .. n)
               /\ n + 1 \notin s => s \in SUBSET (1 .. n)
    OBVIOUS
  <2>3. h \in [SUBSET (1 .. n + 1) -> Value]
    <3>1. vs[n + 1] \in Value
      BY ElementOfSeq
    <3>2. ASSUME NEW s \in SUBSET (1 .. n + 1) PROVE h[s] \in Value
      BY <2>2, <3>1, ValueArithmetic
    <3> QED BY <3>2
  <2>4. ASSUME NEW s \in SUBSET (1 .. n + 1), s # {} PROVE Max(s) \in s /\ \A y \in s : y <= Max(s)
    <3>1. s \in SUBSET (0 .. n + 1) /\ n + 1 \in Nat
      OBVIOUS
    <3> QED BY <2>4, <3>1, MaxIsGreatest
  <2>5. ASSUME NEW s \in SUBSET (1 .. n + 1) PROVE h[s] = SumStep(vs, h, s)
    <3>1. CASE n + 1 \in s
      <4>1. Max(s) = n + 1
        <5>1. Max(s) \in s /\ \A y \in s : y <= Max(s)
          BY <2>4, <3>1
        <5>2. Max(s) \in 1 .. n + 1 /\ n + 1 <= Max(s)
          BY <3>1, <5>1
        <5> QED BY <5>2
      <4>2. s \ {n + 1} \in SUBSET (1 .. n + 1) /\ n + 1 \notin s \ {n + 1}
        OBVIOUS
      <4>3. h[s \ {n + 1}] = g[s \ {n + 1}]
        BY <4>2
      <4> QED BY <3>1, <4>1, <4>3 DEF SumStep
    <3>2. CASE n + 1 \notin s
      <4>1. s \in SUBSET (1 .. n) /\ h[s] = g[s]
        BY <2>2, <3>2
      <4>2. g[s] = SumStep(vs, g, s)
        BY <2>1, <4>1
      <4>3. h[s \ {Max(s)}] = g[s \ {Max(s)}]
        BY <3>2
      <4> QED BY <4>1, <4>2, <4>3 DEF SumStep
    <3> QED BY <3>1, <3>2
  <2> HIDE DEF h
  <2> QED BY <2>3, <2>5
<1> HIDE DEF Good
<1>3. Len(vs) \in Nat
  OBVIOUS
<1> HIDE DEF G
<1>4. 0 .. Len(vs) \subseteq G
  BY <1>1, <1>2, <1>3, InductionUpTo
<1>5. Len(vs) \in G
  BY <1>3, <1>4
<1> QED BY <1>5 DEF G, Good

\* The sum of a sequence is the last of the sums of its prefixes.
LEMMA SumByPrefixes ==
  ASSUME NEW vs \in Seq(Value)
  PROVE  \E p : PartialSums(vs, p) /\ SumValues(vs) = p[Len(vs)]
<1> DEFINE n == Len(vs)
           iter == CHOOSE g : g = [s \in SUBSET (1 .. n) |-> SumStep(vs, g, s)]
<1>1. n \in Nat /\ DOMAIN vs = 1 .. n
  OBVIOUS
<1>2. SumValues(vs) = iter[1 .. n]
  BY <1>1, Zenon DEF SumValues, FoldLeft, MapThenFoldSet, SumStep
<1>3. iter = [s \in SUBSET (1 .. n) |-> SumStep(vs, iter, s)]
  <2>1. PICK g \in [SUBSET (1 .. n) -> Value] : \A s \in SUBSET (1 .. n) : g[s] = SumStep(vs, g, s)
    BY SumFunctionExists
  <2>2. g = [s \in SUBSET (1 .. n) |-> SumStep(vs, g, s)]
    BY <2>1
  <2> QED BY <2>2, Zenon
<1> HIDE DEF iter
<1> DEFINE p == [k \in 0 .. n |-> iter[1 .. k]]
<1>4. ASSUME NEW k \in 1 .. n PROVE p[k] = value_add(p[k - 1], vs[k])
  <2>1. 1 .. k \in SUBSET (1 .. n) /\ 1 .. k # {} /\ 1 .. k \in SUBSET (0 .. n)
    <3>1. \A x \in 1 .. k : x \in 1 .. n /\ x \in 0 .. n
      BY <1>1
    <3>2. 1 \in 1 .. k
      OBVIOUS
    <3> QED BY <3>1, <3>2
  <2>2. Max(1 .. k) = k
    <3>1. Max(1 .. k) \in 1 .. k /\ \A y \in 1 .. k : y <= Max(1 .. k)
      BY <1>1, <2>1, MaxIsGreatest
    <3>2. k \in 1 .. k
      OBVIOUS
    <3> QED BY <3>1, <3>2
  <2>3. (1 .. k) \ {k} = 1 .. k - 1
    OBVIOUS
  <2>4. iter[1 .. k] = SumStep(vs, iter, 1 .. k)
    BY <1>3, <2>1
  <2>5. iter[1 .. k] = value_add(iter[1 .. k - 1], vs[k])
    BY <2>1, <2>2, <2>3, <2>4 DEF SumStep
  <2> QED BY <2>5
<1>5. p[0] = ZeroValue
  <2>1. 1 .. 0 = {} /\ {} \in SUBSET (1 .. n)
    OBVIOUS
  <2>2. iter[{}] = SumStep(vs, iter, {})
    BY <1>3, <2>1
  <2> QED BY <1>1, <2>1, <2>2 DEF SumStep
<1>6. p \in [0 .. n -> Value]
  <2> DEFINE S == {k \in Nat : k <= n => p[k] \in Value}
  <2>1. 0 \in S
    BY <1>5, ValueArithmetic
  <2>2. \A k \in 0 .. n - 1 : k \in S => k + 1 \in S
    <3> SUFFICES ASSUME NEW k \in 0 .. n - 1, p[k] \in Value PROVE p[k + 1] \in Value
      BY <1>1
    <3>1. k + 1 \in 1 .. n /\ (k + 1) - 1 = k
      BY <1>1
    <3>2. vs[k + 1] \in Value
      BY <3>1, ElementOfSeq
    <3>3. p[k + 1] = value_add(p[k], vs[k + 1])
      BY <1>4, <3>1
    <3> HIDE DEF p
    <3> QED BY <3>2, <3>3, ValueArithmetic
  <2> HIDE DEF S
  <2>3. 0 .. n \subseteq S
    BY <1>1, <2>1, <2>2, InductionUpTo
  <2> QED BY <2>3 DEF S
<1>7. PartialSums(vs, p)
  BY <1>4, <1>5, <1>6 DEF PartialSums
<1> QED BY <1>1, <1>2, <1>7

\* The sums of the prefixes are determined.
LEMMA SumIsLast ==
  ASSUME NEW vs \in Seq(Value), NEW p, PartialSums(vs, p)
  PROVE  SumValues(vs) = p[Len(vs)] /\ SumValues(vs) \in Value
<1>1. PICK q : PartialSums(vs, q) /\ SumValues(vs) = q[Len(vs)]
  BY SumByPrefixes
<1>2. Len(vs) \in Nat
  OBVIOUS
<1> DEFINE S == {k \in Nat : p[k] = q[k]}
<1>3. 0 \in S
  BY <1>1 DEF PartialSums
<1>4. \A k \in 0 .. Len(vs) - 1 : k \in S => k + 1 \in S
  <2> SUFFICES ASSUME NEW k \in 0 .. Len(vs) - 1, p[k] = q[k] PROVE p[k + 1] = q[k + 1]
    BY <1>2
  <2>1. k + 1 \in 1 .. Len(vs) /\ (k + 1) - 1 = k
    BY <1>2
  <2> QED BY <1>1, <2>1 DEF PartialSums
<1> HIDE DEF S
<1>5. 0 .. Len(vs) \subseteq S
  BY <1>2, <1>3, <1>4, InductionUpTo
<1>6. Len(vs) \in S /\ Len(vs) \in 0 .. Len(vs)
  BY <1>2, <1>5
<1>7. q[Len(vs)] \in Value
  BY <1>1, <1>6 DEF PartialSums
<1> QED BY <1>1, <1>6, <1>7 DEF S

LEMMA SumType == \A vs \in Seq(Value) : SumValues(vs) \in Value
  BY SumByPrefixes, SumIsLast

LEMMA SumEmpty == SumValues(<<>>) = ZeroValue
<1> DEFINE vs == <<>>
           p == [k \in 0 .. Len(vs) |-> ZeroValue]
<1>1. vs \in Seq(Value) /\ Len(vs) = 0
  OBVIOUS
<1>2. PartialSums(vs, p)
  BY <1>1, ValueArithmetic DEF PartialSums
<1>3. p[Len(vs)] = ZeroValue
  BY <1>1
<1> HIDE DEF vs, p
<1> QED BY <1>1, <1>2, <1>3, SumIsLast DEF vs

\* One value more.
LEMMA SumAppend ==
  ASSUME NEW vs \in Seq(Value), NEW v \in Value
  PROVE  SumValues(Append(vs, v)) = value_add(SumValues(vs), v)
<1> DEFINE ws == Append(vs, v)
           n  == Len(vs)
<1>1. /\ ws \in Seq(Value) /\ n \in Nat /\ Len(ws) = n + 1
      /\ \A k \in 1 .. n : ws[k] = vs[k]
      /\ ws[n + 1] = v
  OBVIOUS
<1>2. PICK p : PartialSums(vs, p) /\ SumValues(vs) = p[n]
  BY SumByPrefixes
<1> DEFINE q == [k \in 0 .. n + 1 |-> IF k = n + 1 THEN value_add(p[n], v) ELSE p[k]]
<1>3. p[n] \in Value /\ q \in [0 .. n + 1 -> Value]
  <2>1. p[n] \in Value /\ \A k \in 0 .. n : p[k] \in Value
    BY <1>1, <1>2 DEF PartialSums
  <2>2. value_add(p[n], v) \in Value
    BY <2>1, ValueArithmetic
  <2>3. \A k \in 0 .. n + 1 : q[k] \in Value
    BY <1>1, <2>1, <2>2
  <2> QED BY <2>1, <2>3
<1>4. q[0] = ZeroValue /\ q[n + 1] = value_add(p[n], v)
  BY <1>1, <1>2 DEF PartialSums
<1>5. ASSUME NEW k \in 1 .. n + 1 PROVE q[k] = value_add(q[k - 1], ws[k])
  <2>1. CASE k = n + 1
    BY <1>1, <2>1
  <2>2. CASE k \in 1 .. n
    <3>1. q[k] = p[k] /\ q[k - 1] = p[k - 1] /\ ws[k] = vs[k]
      BY <1>1, <2>2
    <3>2. p[k] = value_add(p[k - 1], vs[k])
      BY <1>2, <2>2 DEF PartialSums
    <3> QED BY <3>1, <3>2
  <2> QED BY <1>1, <2>1, <2>2
<1> HIDE DEF q, ws, n
<1>6. PartialSums(ws, q)
  BY <1>1, <1>3, <1>4, <1>5 DEF PartialSums
<1>7. SumValues(ws) = q[n + 1]
  BY <1>1, <1>6, SumIsLast
<1> QED BY <1>2, <1>4, <1>7 DEF ws

LEMMA SumSingle == \A v \in Value : SumValues(<<v>>) = v
<1> TAKE v \in Value
<1>1. <<v>> = Append(<<>>, v) /\ <<>> \in Seq(Value)
  OBVIOUS
<1>2. SumValues(Append(<<>>, v)) = value_add(ZeroValue, v)
  BY <1>1, SumAppend, SumEmpty
<1> QED BY <1>1, <1>2, ValueArithmetic

\* The sum of the first values and the rest.
LEMMA SumConcat ==
  ASSUME NEW vs \in Seq(Value), NEW ws \in Seq(Value)
  PROVE  SumValues(vs \o ws) = value_add(SumValues(vs), SumValues(ws))
<1> DEFINE G == {s \in Seq(Value) : SumValues(vs \o s) = value_add(SumValues(vs), SumValues(s))}
<1>1. <<>> \in G
  <2>1. <<>> \in Seq(Value) /\ vs \o <<>> = vs
    OBVIOUS
  <2>2. value_add(SumValues(vs), ZeroValue) = SumValues(vs)
    BY SumType, ValueArithmetic
  <2> QED BY <2>1, <2>2, SumEmpty
<1>2. ASSUME NEW s \in Seq(Value), NEW v \in Value, s \in G PROVE Append(s, v) \in G
  <2>1. vs \o Append(s, v) = Append(vs \o s, v) /\ vs \o s \in Seq(Value) /\ Append(s, v) \in Seq(Value)
    <3>1. Append(s, v) = s \o <<v>> /\ <<v>> \in Seq(Value)
      BY AppendIsConcat
    <3>2. vs \o s \in Seq(Value) /\ Append(vs \o s, v) = (vs \o s) \o <<v>>
      BY ConcatProperties, AppendIsConcat
    <3>3. (vs \o s) \o <<v>> = vs \o (s \o <<v>>)
      <4> DEFINE one == <<v>>
      <4> HIDE DEF one
      <4>1. one \in Seq(Value)
        BY <3>1 DEF one
      <4>2. (vs \o s) \o one = vs \o (s \o one)
        BY <4>1, ConcatAssociative
      <4> QED BY <4>2 DEF one
    <3>4. Append(s, v) \in Seq(Value)
      BY AppendProperties
    <3> QED BY <3>1, <3>2, <3>3, <3>4, Zenon
  <2>2. SumValues(Append(vs \o s, v)) = value_add(SumValues(vs \o s), v)
    BY <2>1, SumAppend
  <2>3. SumValues(Append(s, v)) = value_add(SumValues(s), v)
    BY SumAppend
  <2>4. SumValues(vs \o s) = value_add(SumValues(vs), SumValues(s))
    BY <1>2
  <2>5. SumValues(vs) \in Value /\ SumValues(s) \in Value
    BY SumType
  <2>6. value_add(value_add(SumValues(vs), SumValues(s)), v)
          = value_add(SumValues(vs), value_add(SumValues(s), v))
    BY <2>5, ValueArithmetic
  <2> QED BY <2>1, <2>2, <2>3, <2>4, <2>6, Zenon
<1> HIDE DEF G
<1>3. Seq(Value) \subseteq G
  BY <1>1, <1>2, SequenceInduction
<1> QED BY <1>3 DEF G

\* A sum of bundles is a bundle.
LEMMA SumOfBundles ==
  ASSUME NEW vs \in Seq(Bundle)
  PROVE  SumValues(vs) \in Bundle
<1> DEFINE G == {s \in Seq(Bundle) : SumValues(s) \in Bundle}
<1>1. <<>> \in G
  BY SumEmpty, ValueArithmetic, EmptySeq
<1>2. ASSUME NEW s \in Seq(Bundle), NEW v \in Bundle, s \in G PROVE Append(s, v) \in G
  <2>1. s \in Seq(Value) /\ v \in Value
    BY SeqMonotonic, ValueArithmetic
  <2>2. SumValues(Append(s, v)) = value_add(SumValues(s), v)
    BY <2>1, SumAppend
  <2>3. Append(s, v) \in Seq(Bundle)
    BY AppendProperties
  <2> QED BY <1>2, <2>2, <2>3, ValueArithmetic
<1> HIDE DEF G
<1>3. Seq(Bundle) \subseteq G
  BY <1>1, <1>2, SequenceInduction
<1> QED BY <1>3 DEF G

\* A token that no value holds is not in the sum.
LEMMA SumOfNone ==
  ASSUME NEW vs \in Seq(Value), NEW t \in Tokens, \A i \in 1 .. Len(vs) : vs[i][t] = 0
  PROVE  SumValues(vs)[t] = 0
<1> DEFINE n == Len(vs)
<1>1. PICK p : PartialSums(vs, p) /\ SumValues(vs) = p[n]
  BY SumByPrefixes
<1>2. n \in Nat
  OBVIOUS
<1> HIDE DEF n
<1> DEFINE S == {k \in Nat : p[k][t] = 0}
<1>3. 0 \in S
  BY <1>1 DEF PartialSums, ZeroValue
<1>4. \A k \in 0 .. n - 1 : k \in S => k + 1 \in S
  <2> SUFFICES ASSUME NEW k \in 0 .. n - 1, p[k][t] = 0 PROVE p[k + 1][t] = 0
    BY <1>2
  <2>1. k + 1 \in 1 .. n /\ (k + 1) - 1 = k
    BY <1>2
  <2>2. p[k + 1] = value_add(p[k], vs[k + 1]) /\ vs[k + 1][t] = 0
    BY <1>1, <2>1 DEF PartialSums, n
  <2> QED BY <2>2 DEF value_add
<1> HIDE DEF S
<1>5. 0 .. n \subseteq S
  BY <1>2, <1>3, <1>4, InductionUpTo
<1>6. n \in S
  BY <1>2, <1>5
<1> QED BY <1>1, <1>6 DEF S

\* A token that one value alone holds is in the sum as that value holds it.
LEMMA SumOfOne ==
  ASSUME NEW vs \in Seq(Value), NEW t \in Tokens, NEW j \in 1 .. Len(vs),
         \A i \in 1 .. Len(vs) : i # j => vs[i][t] = 0
  PROVE  SumValues(vs)[t] = vs[j][t]
<1> DEFINE n == Len(vs)
<1>1. PICK p : PartialSums(vs, p) /\ SumValues(vs) = p[n]
  BY SumByPrefixes
<1>2. n \in Nat /\ j \in 1 .. n /\ vs[j][t] \in Int
  <2>1. vs[j] \in Value
    BY ElementOfSeq
  <2> QED BY <2>1 DEF Value
<1>3. \A i \in 1 .. n : i # j => vs[i][t] = 0
  OBVIOUS
<1> HIDE DEF n
<1> DEFINE S == {k \in Nat : p[k][t] = IF k < j THEN 0 ELSE vs[j][t]}
<1>4. 0 \in S
  BY <1>1, <1>2 DEF PartialSums, ZeroValue
<1>5. \A k \in 0 .. n - 1 : k \in S => k + 1 \in S
  <2> SUFFICES ASSUME NEW k \in 0 .. n - 1, p[k][t] = IF k < j THEN 0 ELSE vs[j][t]
               PROVE  p[k + 1][t] = IF k + 1 < j THEN 0 ELSE vs[j][t]
    BY <1>2
  <2>1. k + 1 \in 1 .. n /\ (k + 1) - 1 = k
    BY <1>2
  <2>2. p[k + 1] = value_add(p[k], vs[k + 1])
    BY <1>1, <2>1 DEF PartialSums, n
  <2>3. p[k + 1][t] = p[k][t] + vs[k + 1][t]
    BY <2>2 DEF value_add
  <2>4. CASE k + 1 = j
    BY <1>2, <2>3, <2>4
  <2>5. CASE k + 1 # j
    <3>1. vs[k + 1][t] = 0
      BY <1>3, <2>1, <2>5
    <3> QED BY <1>2, <2>3, <2>5, <3>1
  <2> QED BY <2>4, <2>5
<1> HIDE DEF S
<1>6. 0 .. n \subseteq S
  BY <1>2, <1>4, <1>5, InductionUpTo
<1>7. n \in S /\ ~(n < j)
  BY <1>2, <1>6
<1> QED BY <1>1, <1>7 DEF S

\* The sum when the last value is replaced.
LEMMA SumReplaceLast ==
  ASSUME NEW vs \in Seq(Value), vs # <<>>, NEW w \in Value, NEW t \in Tokens
  PROVE  LET ws == [vs EXCEPT ![Len(vs)] = w]
         IN  ws \in Seq(Value) /\ SumValues(ws)[t] = SumValues(vs)[t] - vs[Len(vs)][t] + w[t]
<1>1. PICK us \in Seq(Value), e \in Value : vs = Append(us, e)
  BY SequenceEmptyOrAppend
<1> DEFINE ws == [vs EXCEPT ![Len(vs)] = w]
<1>2. Len(vs) = Len(us) + 1 /\ vs[Len(vs)] = e /\ Len(us) \in Nat
  BY <1>1
<1>4. Append(us, w) \in Seq(Value) /\ Len(Append(us, w)) = Len(us) + 1
  BY AppendProperties
<1>3. ws = Append(us, w)
  <2>1. ws \in Seq(Value) /\ Len(ws) = Len(vs)
    BY <1>2, ExceptSeq
  <2>2. ASSUME NEW i \in 1 .. Len(ws) PROVE ws[i] = Append(us, w)[i]
    <3>1. i \in 1 .. Len(vs) /\ i \in 1 .. Len(us) + 1
      BY <1>2, <2>1
    <3>2. CASE i = Len(vs)
      <4>1. ws[i] = w
        BY <2>1, <3>1, <3>2
      <4>2. Append(us, w)[i] = w
        BY <1>2, <3>2
      <4> QED BY <4>1, <4>2
    <3>3. CASE i # Len(vs)
      <4>1. ws[i] = vs[i] /\ i \in 1 .. Len(us)
        BY <1>2, <3>1, <3>3
      <4>2. vs[i] = us[i] /\ Append(us, w)[i] = us[i]
        BY <1>1, <4>1
      <4> QED BY <4>1, <4>2
    <3> QED BY <3>2, <3>3
  <2> HIDE DEF ws
  <2> QED BY <1>2, <1>4, <2>1, <2>2, SeqEqual
<1>5. SumValues(vs) = value_add(SumValues(us), e) /\ SumValues(ws) = value_add(SumValues(us), w)
  BY <1>1, <1>3, SumAppend, Zenon
<1>6. SumValues(us)[t] \in Int /\ e[t] \in Int /\ w[t] \in Int
  BY SumType DEF Value
<1>7. SumValues(vs)[t] = SumValues(us)[t] + e[t] /\ SumValues(ws)[t] = SumValues(us)[t] + w[t]
  BY <1>5 DEF value_add
<1>8. SumValues(ws)[t] = SumValues(vs)[t] - e[t] + w[t]
  BY <1>6, <1>7
<1> QED BY <1>2, <1>3, <1>4, <1>8, Zenon

\* The sum when one value is replaced.
LEMMA SumReplaceOne ==
  ASSUME NEW vs \in Seq(Value), NEW ws \in Seq(Value), Len(vs) = Len(ws), NEW t \in Tokens,
         NEW j \in 1 .. Len(vs), \A i \in 1 .. Len(vs) : i # j => ws[i] = vs[i]
  PROVE  SumValues(ws)[t] = SumValues(vs)[t] - vs[j][t] + ws[j][t]
<1> DEFINE n == Len(vs)
<1>1. PICK p : PartialSums(vs, p) /\ SumValues(vs) = p[n]
  BY SumByPrefixes
<1>2. PICK q : PartialSums(ws, q) /\ SumValues(ws) = q[n]
  BY SumByPrefixes
<1>3. n \in Nat /\ j \in 1 .. n /\ \A i \in 1 .. n : vs[i] \in Value /\ ws[i] \in Value
  BY ElementOfSeq
<1>4. /\ p \in [0 .. n -> Value] /\ q \in [0 .. n -> Value] /\ p[0] = ZeroValue /\ q[0] = ZeroValue
      /\ \A k \in 1 .. n : p[k] = value_add(p[k - 1], vs[k]) /\ q[k] = value_add(q[k - 1], ws[k])
  BY <1>1, <1>2 DEF PartialSums
<1>5. \A i \in 1 .. n : i # j => ws[i] = vs[i]
  OBVIOUS
<1> HIDE DEF n
<1> DEFINE G == {k \in Nat : q[k][t] = IF k < j THEN p[k][t] ELSE p[k][t] - vs[j][t] + ws[j][t]}
<1>6. 0 \in G
  BY <1>3, <1>4
<1>7. \A k \in 0 .. n - 1 : k \in G => k + 1 \in G
  <2> SUFFICES ASSUME NEW k \in 0 .. n - 1, k \in G PROVE k + 1 \in G
    OBVIOUS
  <2>1. k + 1 \in 1 .. n /\ (k + 1) - 1 = k /\ k \in 0 .. n /\ k + 1 \in Nat
    <3> HIDE DEF G
    <3>1. n \in Nat
      BY <1>3
    <3> QED BY <3>1
  <2>2. p[k + 1] = value_add(p[k], vs[k + 1]) /\ q[k + 1] = value_add(q[k], ws[k + 1])
    BY <1>4, <2>1
  <2>3. p[k + 1][t] = p[k][t] + vs[k + 1][t] /\ q[k + 1][t] = q[k][t] + ws[k + 1][t]
    BY <2>2 DEF value_add
  <2>4. /\ p[k][t] \in Int /\ vs[k + 1][t] \in Int /\ ws[k + 1][t] \in Int
        /\ vs[j][t] \in Int /\ ws[j][t] \in Int
    BY <1>3, <1>4, <2>1 DEF Value
  <2>5. q[k][t] = IF k < j THEN p[k][t] ELSE p[k][t] - vs[j][t] + ws[j][t]
    OBVIOUS
  <2>6. k + 1 # j => ws[k + 1][t] = vs[k + 1][t]
    BY <1>5, <2>1
  <2>7. q[k + 1][t] = IF k + 1 < j THEN p[k + 1][t] ELSE p[k + 1][t] - vs[j][t] + ws[j][t]
    <3>1. CASE k + 1 = j
      BY <1>3, <2>3, <2>4, <2>5, <3>1
    <3>2. CASE k + 1 # j
      BY <1>3, <2>1, <2>3, <2>4, <2>5, <2>6, <3>2
    <3> QED BY <3>1, <3>2
  <2> QED BY <2>1, <2>7
<1> HIDE DEF G
<1>8. 0 .. n \subseteq G
  BY <1>3, <1>6, <1>7, InductionUpTo
<1>9. n \in G /\ ~(n < j)
  BY <1>3, <1>8
<1> QED BY <1>1, <1>2, <1>9 DEF G

-----------------------------------------------------------------------------
(* Splitting an asset set.                                                 *)

Lower(s) == {a \in s : Cardinality({b \in s : b < a}) < Cardinality(s) \div 2}

\* Both halves of a set of two or more are smaller than the set.
LEMMA HalvesAreSmaller ==
  ASSUME NEW s \in SUBSET Nat, IsFiniteSet(s), Cardinality(s) >= 2
  PROVE  /\ Lower(s) \in SUBSET s
         /\ Cardinality(Lower(s)) \in Nat /\ Cardinality(Lower(s)) < Cardinality(s)
         /\ Cardinality(s \ Lower(s)) \in Nat /\ Cardinality(s \ Lower(s)) < Cardinality(s)
<1> DEFINE R == {p \in s \X s : p[1] < p[2]}
           n == Cardinality(s)
           f == InOrder(s, R)
<1>1. n \in Nat /\ IsOrder(s, R)
  BY FS_CardinalityType, NumbersAreOrdered
<1>2. ASSUME NEW a \in s PROVE {b \in s : b < a} = {b \in s : <<b, a>> \in R}
  OBVIOUS
<1> HIDE DEF R
<1>3. /\ f \in [1 .. n -> s]
      /\ \A i, j \in 1 .. n : i < j => <<f[i], f[j]>> \in R
  BY <1>1, InOrderProperties
<1>4. ASSUME NEW i \in 1 .. n PROVE f[i] \in s /\ Cardinality({b \in s : b < f[i]}) = i - 1
  <2>1. f[i] \in s /\ Cardinality(Below(s, R, f[i])) = i - 1
    BY <1>1, InOrderProperties
  <2> HIDE DEF f
  <2> QED BY <1>2, <2>1 DEF Below
<1>5. f[1] \in Lower(s)
  BY <1>1, <1>4 DEF Lower
<1>6. f[n] \in s \ Lower(s)
  <2>1. n \in 1 .. n /\ ~(n - 1 < n \div 2)
    BY <1>1
  <2>2. f[n] \in s /\ Cardinality({b \in s : b < f[n]}) = n - 1
    BY <1>4, <2>1
  <2> HIDE DEF f
  <2> QED BY <2>1, <2>2 DEF Lower
<1>7. Lower(s) \in SUBSET s
  BY DEF Lower
<1> HIDE DEF f, n
<1>8. /\ IsFiniteSet(Lower(s)) /\ Cardinality(Lower(s)) <= Cardinality(s)
      /\ Cardinality(s) = Cardinality(Lower(s)) => s = Lower(s)
      /\ IsFiniteSet(s \ Lower(s)) /\ Cardinality(s \ Lower(s)) <= Cardinality(s)
      /\ Cardinality(s) = Cardinality(s \ Lower(s)) => s = s \ Lower(s)
  <2>1. s \ Lower(s) \in SUBSET s
    OBVIOUS
  <2> QED BY <1>7, <2>1, FS_Subset
<1>9. Cardinality(Lower(s)) \in Nat /\ Cardinality(s \ Lower(s)) \in Nat
  BY <1>8, FS_CardinalityType
<1> QED BY <1>1, <1>5, <1>6, <1>7, <1>8, <1>9 DEF n

LEMMA SingleSeq ==
  ASSUME NEW S, NEW x \in S
  PROVE  <<x>> \in Seq(S) /\ Len(<<x>>) = 1 /\ <<x>>[1] = x
  OBVIOUS

SplitStep(g, s) ==
  IF value_is_oversized(s) /\ Cardinality(s) >= 2
  THEN g[s \ Lower(s)] \o g[Lower(s)] ELSE <<s>>

LEMMA SplitFunctionExists ==
  ASSUME NEW as \in SUBSET Nat, IsFiniteSet(as)
  PROVE  \E g : g = [s \in SUBSET as |-> SplitStep(g, s)]
<1> DEFINE Upto(g, m) == \A s \in SUBSET as : Cardinality(s) <= m => g[s] = SplitStep(g, s)
           Fun == [SUBSET as -> Seq(SUBSET as)]
           G == {m \in Nat : \E g \in Fun : Upto(g, m)}
<1>1. ASSUME NEW s \in SUBSET as PROVE IsFiniteSet(s) /\ Cardinality(s) \in Nat
        /\ Cardinality(s) <= Cardinality(as) /\ s \in SUBSET Nat
  BY FS_Subset, FS_CardinalityType
<1>2. 0 \in G
  <2> DEFINE g == [s \in SUBSET as |-> <<s>>]
  <2>0. \A s \in SUBSET as : <<s>> \in Seq(SUBSET as)
    BY SingleSeq
  <2>1. g \in Fun
    BY <2>0
  <2>2. Upto(g, 0)
    <3> SUFFICES ASSUME NEW s \in SUBSET as, Cardinality(s) <= 0 PROVE g[s] = SplitStep(g, s)
      OBVIOUS
    <3>1. Cardinality(s) \in Nat
      BY <1>1
    <3>2. ~(Cardinality(s) >= 2)
      BY <3>1
    <3> QED BY <3>2, Zenon DEF SplitStep
  <2> HIDE DEF g, Fun, Upto
  <2> QED BY <2>1, <2>2
<1>3. \A m \in Nat : m \in G => m + 1 \in G
  <2> SUFFICES ASSUME NEW m \in Nat, m \in G PROVE m + 1 \in G
    OBVIOUS
  <2>1. PICK g \in Fun : Upto(g, m)
    OBVIOUS
  <2> DEFINE h == [s \in SUBSET as |-> IF Cardinality(s) = m + 1 THEN SplitStep(g, s) ELSE g[s]]
  <2>2. ASSUME NEW s \in SUBSET as PROVE SplitStep(g, s) \in Seq(SUBSET as)
    <3>1. s \ Lower(s) \in SUBSET as /\ Lower(s) \in SUBSET as
      BY DEF Lower
    <3>2. g[s \ Lower(s)] \in Seq(SUBSET as) /\ g[Lower(s)] \in Seq(SUBSET as)
      BY <3>1
    <3>3. g[s \ Lower(s)] \o g[Lower(s)] \in Seq(SUBSET as)
      BY <3>2, ConcatProperties
    <3>4. <<s>> \in Seq(SUBSET as)
      BY SingleSeq
    <3> QED BY <3>3, <3>4, Zenon DEF SplitStep
  <2>3. h \in Fun
    BY <2>2
  <2>4. ASSUME NEW s \in SUBSET as, Cardinality(s) <= m + 1 PROVE h[s] = SplitStep(h, s)
    <3>1. CASE Cardinality(s) >= 2
      <4>1. /\ Lower(s) \in SUBSET as /\ s \ Lower(s) \in SUBSET as
            /\ Cardinality(Lower(s)) \in Nat /\ Cardinality(Lower(s)) < Cardinality(s)
            /\ Cardinality(s \ Lower(s)) \in Nat /\ Cardinality(s \ Lower(s)) < Cardinality(s)
        BY <1>1, <3>1, HalvesAreSmaller
      <4>0. Cardinality(s) \in Nat
        BY <1>1
      <4>2. Cardinality(Lower(s)) # m + 1 /\ Cardinality(s \ Lower(s)) # m + 1
        BY <2>4, <4>0, <4>1
      <4>3. h[Lower(s)] = g[Lower(s)] /\ h[s \ Lower(s)] = g[s \ Lower(s)]
        BY <4>1, <4>2
      <4>4. SplitStep(h, s) = SplitStep(g, s)
        <5> HIDE DEF h
        <5> QED BY <4>3, Zenon DEF SplitStep
      <4>5. CASE Cardinality(s) = m + 1
        BY <4>4, <4>5
      <4>6. CASE Cardinality(s) # m + 1
        <5>0. Cardinality(s) \in Nat
          BY <1>1
        <5>1. Cardinality(s) <= m
          BY <2>4, <4>6, <5>0
        <5>2. g[s] = SplitStep(g, s)
          BY <2>1, <5>1
        <5> QED BY <4>4, <4>6, <5>2
      <4> QED BY <4>5, <4>6
    <3>2. CASE ~(Cardinality(s) >= 2)
      <4>1. SplitStep(h, s) = <<s>> /\ SplitStep(g, s) = <<s>>
        BY <3>2 DEF SplitStep
      <4>2. CASE Cardinality(s) = m + 1
        BY <4>1, <4>2
      <4>3. CASE Cardinality(s) # m + 1
        <5>0. Cardinality(s) \in Nat
          BY <1>1
        <5>1. Cardinality(s) <= m
          BY <2>4, <4>3, <5>0
        <5>2. g[s] = SplitStep(g, s)
          BY <2>1, <5>1
        <5> QED BY <4>1, <4>3, <5>2
      <4> QED BY <4>2, <4>3
    <3> QED BY <3>1, <3>2
  <2>5. Upto(h, m + 1)
    BY <2>4
  <2> HIDE DEF h, Fun, Upto
  <2> QED BY <2>3, <2>5
<1>4. Cardinality(as) \in Nat
  BY FS_CardinalityType
<1> HIDE DEF G
<1>5. Cardinality(as) \in G
  BY <1>2, <1>3, <1>4, Induction
<1>6. PICK g \in Fun : Upto(g, Cardinality(as))
  BY <1>5 DEF G
<1>7. \A s \in SUBSET as : g[s] = SplitStep(g, s)
  BY <1>1, <1>6
<1>8. g = [s \in SUBSET as |-> SplitStep(g, s)]
  BY <1>7
<1> QED BY <1>8

\* A split of an asset set: parts that are disjoint, make up the set and fit.
IsSplit(parts, s) ==
  /\ parts \in Seq(SUBSET s) /\ parts # <<>>
  /\ \A a \in s : \E i \in 1 .. Len(parts) : a \in parts[i]
  /\ \A i, j \in 1 .. Len(parts) : i # j => parts[i] \cap parts[j] = {}
  /\ \A i \in 1 .. Len(parts) : ~value_is_oversized(parts[i])

LEMMA SplitsJoin ==
  ASSUME NEW s, NEW l \in SUBSET s, NEW p, NEW q, IsSplit(p, s \ l), IsSplit(q, l)
  PROVE  IsSplit(p \o q, s)
<1>1. p \in Seq(SUBSET s) /\ q \in Seq(SUBSET s)
  BY SeqMonotonic DEF IsSplit
<1>2. /\ p \o q \in Seq(SUBSET s)
      /\ Len(p \o q) = Len(p) + Len(q) /\ Len(p) \in Nat /\ Len(q) \in Nat
      /\ \A i \in 1 .. Len(p) + Len(q) :
           (p \o q)[i] = IF i <= Len(p) THEN p[i] ELSE q[i - Len(p)]
  BY <1>1, ConcatProperties, LenProperties
<1> DEFINE r == p \o q
<1>3. \A i \in 1 .. Len(p) : i \in 1 .. Len(r) /\ r[i] = p[i] /\ p[i] \in SUBSET (s \ l)
  <2>1. \A i \in 1 .. Len(p) : p[i] \in SUBSET (s \ l)
    BY ElementOfSeq DEF IsSplit
  <2> QED BY <1>2, <2>1
<1>4. \A i \in 1 .. Len(q) : Len(p) + i \in 1 .. Len(r) /\ r[Len(p) + i] = q[i] /\ q[i] \in SUBSET l
  <2>1. \A i \in 1 .. Len(q) : q[i] \in SUBSET l
    BY ElementOfSeq DEF IsSplit
  <2>2. ASSUME NEW i \in 1 .. Len(q) PROVE Len(p) + i \in 1 .. Len(r) /\ r[Len(p) + i] = q[i]
    <3>1. Len(p) + i \in 1 .. Len(p) + Len(q) /\ ~(Len(p) + i <= Len(p)) /\ (Len(p) + i) - Len(p) = i
      BY <1>2
    <3> QED BY <1>2, <3>1
  <2> QED BY <2>1, <2>2
<1>5. \A i \in 1 .. Len(r) : i \in 1 .. Len(p) \/ \E k \in 1 .. Len(q) : i = Len(p) + k
  <2> TAKE i \in 1 .. Len(r)
  <2>1. CASE i <= Len(p)
    BY <1>2, <2>1
  <2>2. CASE ~(i <= Len(p))
    <3>1. i - Len(p) \in 1 .. Len(q) /\ i = Len(p) + (i - Len(p))
      BY <1>2, <2>2
    <3> QED BY <3>1
  <2> QED BY <2>1, <2>2
<1>6. r \in Seq(SUBSET s) /\ Len(r) \in Nat
  BY <1>2
<1> HIDE DEF r
<1>7. r # <<>>
  <2>1. Len(p) # 0
    BY <1>1, EmptySeq DEF IsSplit
  <2>2. 1 \in 1 .. Len(p)
    BY <1>2, <2>1
  <2>3. 1 \in 1 .. Len(r)
    BY <1>3, <2>2
  <2> QED BY <2>3, <1>6
<1>8. \A a \in s : \E i \in 1 .. Len(r) : a \in r[i]
  <2> TAKE a \in s
  <2>1. CASE a \in l
    <3>1. PICK i \in 1 .. Len(q) : a \in q[i]
      BY <2>1 DEF IsSplit
    <3> QED BY <1>4, <3>1
  <2>2. CASE a \notin l
    <3>1. PICK i \in 1 .. Len(p) : a \in p[i]
      BY <2>2 DEF IsSplit
    <3> QED BY <1>3, <3>1
  <2> QED BY <2>1, <2>2
<1>9. \A i, j \in 1 .. Len(r) : i # j => r[i] \cap r[j] = {}
  <2> SUFFICES ASSUME NEW i \in 1 .. Len(r), NEW j \in 1 .. Len(r), i # j PROVE r[i] \cap r[j] = {}
    OBVIOUS
  <2>1. CASE i \in 1 .. Len(p) /\ j \in 1 .. Len(p)
    BY <1>3, <2>1 DEF IsSplit
  <2>2. CASE i \in 1 .. Len(p) /\ \E k \in 1 .. Len(q) : j = Len(p) + k
    BY <1>3, <1>4, <2>2
  <2>3. CASE j \in 1 .. Len(p) /\ \E k \in 1 .. Len(q) : i = Len(p) + k
    BY <1>3, <1>4, <2>3
  <2>4. ASSUME NEW k \in 1 .. Len(q), i = Len(p) + k, NEW k2 \in 1 .. Len(q), j = Len(p) + k2
        PROVE  r[i] \cap r[j] = {}
    <3>1. k # k2
      BY <2>4
    <3>2. q[k] \cap q[k2] = {}
      BY <3>1, Zenon DEF IsSplit
    <3>3. r[i] = q[k] /\ r[j] = q[k2]
      BY <1>4, <2>4
    <3> QED BY <3>2, <3>3
  <2>5. CASE \E k \in 1 .. Len(q) : i = Len(p) + k
    <3>1. CASE \E k \in 1 .. Len(q) : j = Len(p) + k
      BY <2>4, <2>5, <3>1, Zenon
    <3> QED BY <1>5, <2>3, <2>5, <3>1, Zenon
  <2>6. CASE i \in 1 .. Len(p)
    BY <1>5, <2>1, <2>2, <2>6, Zenon
  <2> QED BY <1>5, <2>5, <2>6, Zenon
<1>10. \A i \in 1 .. Len(r) : ~value_is_oversized(r[i])
  <2> TAKE i \in 1 .. Len(r)
  <2>1. CASE i \in 1 .. Len(p)
    BY <1>3, <2>1 DEF IsSplit
  <2>2. ASSUME NEW k \in 1 .. Len(q), i = Len(p) + k PROVE ~value_is_oversized(r[i])
    BY <1>4, <2>2 DEF IsSplit
  <2> QED BY <1>5, <2>1, <2>2
<1>11. IsSplit(r, s)
  BY <1>6, <1>7, <1>8, <1>9, <1>10 DEF IsSplit
<1> QED BY <1>11 DEF r

\* split_value_assets makes a split of the set it is given.
LEMMA SplitIsSplit ==
  ASSUME NEW as \in SUBSET Nat, IsFiniteSet(as)
  PROVE  IsSplit(split_value_assets(as), as)
<1> DEFINE split == CHOOSE g : g = [s \in SUBSET as |-> SplitStep(g, s)]
<1>1. split_value_assets(as) = split[as]
  BY Zenon DEF split_value_assets, SplitStep, Lower
<1>2. split = [s \in SUBSET as |-> SplitStep(split, s)]
  BY SplitFunctionExists, Zenon
<1> HIDE DEF split
<1> DEFINE G == {m \in Nat : \A s \in SUBSET as : Cardinality(s) <= m => IsSplit(split[s], s)}
<1>3. ASSUME NEW s \in SUBSET as PROVE IsFiniteSet(s) /\ Cardinality(s) \in Nat /\ s \in SUBSET Nat
        /\ split[s] = SplitStep(split, s)
  BY <1>2, FS_Subset, FS_CardinalityType
<1>4. ASSUME NEW s \in SUBSET as, ~(value_is_oversized(s) /\ Cardinality(s) >= 2)
      PROVE  IsSplit(split[s], s)
  <2>1. split[s] = <<s>>
    BY <1>3, <1>4 DEF SplitStep
  <2>2. ~value_is_oversized(s)
    <3>1. Cardinality(s) \in Nat /\ MaxValueAssets \in Nat
      BY <1>3, ValuesAssumption
    <3>2. MaxValueAssets > 0 /\ Cardinality(s) > MaxValueAssets => Cardinality(s) >= 2
      BY <3>1
    <3> QED BY <1>4, <3>2 DEF value_is_oversized
  <2>3. <<s>> \in Seq(SUBSET s) /\ Len(<<s>>) = 1 /\ <<s>>[1] = s /\ <<s>> # <<>>
    OBVIOUS
  <2>4. \A i \in 1 .. Len(<<s>>) : i = 1
    BY <2>3
  <2> QED BY <2>1, <2>2, <2>3, <2>4 DEF IsSplit
<1>5. 0 \in G
  <2> SUFFICES ASSUME NEW s \in SUBSET as, Cardinality(s) <= 0 PROVE IsSplit(split[s], s)
    OBVIOUS
  <2>1. Cardinality(s) \in Nat
    BY <1>3
  <2>2. ~(Cardinality(s) >= 2)
    BY <2>1
  <2> QED BY <1>4, <2>2
<1>6. \A m \in Nat : m \in G => m + 1 \in G
  <2> SUFFICES ASSUME NEW m \in Nat, m \in G PROVE m + 1 \in G
    OBVIOUS
  <2> SUFFICES ASSUME NEW s \in SUBSET as, Cardinality(s) <= m + 1
               PROVE  IsSplit(split[s], s)
    <3>1. m + 1 \in Nat
      OBVIOUS
    <3> QED BY <3>1
  <2>1. CASE value_is_oversized(s) /\ Cardinality(s) >= 2
    <3>1. /\ Lower(s) \in SUBSET s /\ Lower(s) \in SUBSET as /\ s \ Lower(s) \in SUBSET as
          /\ Cardinality(Lower(s)) \in Nat /\ Cardinality(Lower(s)) < Cardinality(s)
          /\ Cardinality(s \ Lower(s)) \in Nat /\ Cardinality(s \ Lower(s)) < Cardinality(s)
      BY <1>3, <2>1, HalvesAreSmaller
    <3>0. Cardinality(s) \in Nat
      BY <1>3
    <3>2. Cardinality(Lower(s)) <= m /\ Cardinality(s \ Lower(s)) <= m
      BY <3>0, <3>1
    <3>3. IsSplit(split[Lower(s)], Lower(s)) /\ IsSplit(split[s \ Lower(s)], s \ Lower(s))
      BY <3>1, <3>2
    <3>4. split[s] = split[s \ Lower(s)] \o split[Lower(s)]
      BY <1>3, <2>1 DEF SplitStep
    <3> QED BY <3>1, <3>3, <3>4, SplitsJoin
  <2> QED BY <1>4, <2>1
<1>7. Cardinality(as) \in Nat
  BY FS_CardinalityType
<1> HIDE DEF G
<1>8. Cardinality(as) \in G
  BY <1>5, <1>6, <1>7, Induction
<1>9. IsSplit(split[as], as)
  <2> DEFINE c == Cardinality(as)
  <2>1. c \in Nat
    BY <1>7
  <2>2. c <= c
    <3> HIDE DEF c
    <3> QED BY <2>1
  <2>3. as \in SUBSET as
    OBVIOUS
  <2> QED BY <1>8, <2>2, <2>3 DEF G
<1> QED BY <1>1, <1>9
=============================================================================
