---------------------------- MODULE JsonTextProofs ----------------------------
(***************************************************************************)
(* What the JSON writer, the parser and the printer keep true, for every   *)
(* sequence of calls, every input and every limit of the depth.            *)
(***************************************************************************)
EXTENDS JsonText, FiniteSetTheorems, SequenceTheorems, WellFoundedInduction, TLAPS

-----------------------------------------------------------------------------
(* Induction, over a set of naturals or sequences.                         *)

\* A set that has 0 and with every natural the next one has them all.
LEMMA Induction ==
  ASSUME NEW S, 0 \in S, \A n \in Nat : n \in S => n + 1 \in S
  PROVE  Nat \subseteq S
<1> DEFINE Less == {ss \in Nat \X Nat : ss[1] < ss[2]}
<1>1. IsWellFoundedOn(Less, Nat)
  BY NatLessThanWellFounded DEF OpToRel
<1> HIDE DEF Less
<1> SUFFICES ASSUME Nat \ S # {} PROVE FALSE
  OBVIOUS
<1>2. PICK x \in Nat \ S : \A y \in Nat \ S : ~(<<y, x>> \in Less)
  BY <1>1, WFMin
<1>3. x # 0 /\ x - 1 \in Nat /\ x - 1 < x
  BY <1>2
<1>4. <<x - 1, x>> \in Less
  BY <1>2, <1>3 DEF Less
<1>5. x - 1 \in S
  BY <1>2, <1>3, <1>4
<1> QED BY <1>2, <1>3, <1>5

\* The last element of a sequence and what is before it.
LEMMA FrontAndLast ==
  ASSUME NEW T, NEW s \in Seq(T), s # <<>>
  PROVE  /\ Front(s) \in Seq(T) /\ Last(s) \in T
         /\ s = Append(Front(s), Last(s))
         /\ Len(Front(s)) = Len(s) - 1
<1>1. Len(s) \in Nat \ {0}
  BY EmptySeq
<1>2. \A i \in 1..Len(s) : s[i] \in T
  BY ElementOfSeq
<1>3. Front(s) \in Seq(T) /\ Len(Front(s)) = Len(s) - 1
       /\ \A i \in 1..Len(s) - 1 : Front(s)[i] = s[i]
  <2>1. \A i \in 1..Len(s) - 1 : s[i] \in T
    BY <1>1, <1>2
  <2>2. 1 \in Int /\ Len(s) - 1 \in Int
    BY <1>1
  <2> DEFINE n == Len(s) - 1
  <2>3. /\ SubSeq(s, 1, n) \in Seq(T)
        /\ Len(SubSeq(s, 1, n)) = IF 1 <= n THEN n - 1 + 1 ELSE 0
        /\ \A i \in 1 .. n - 1 + 1 : SubSeq(s, 1, n)[i] = s[1 + i - 1]
    <3> HIDE DEF n
    <3> QED BY <2>1, <2>2, SubSeqProperties DEF n
  <2>4. n \in Nat /\ n - 1 + 1 = n /\ (~(1 <= n) => n = 0) /\ \A i \in 1 .. n : 1 + i - 1 = i
    <3>1. n \in Nat
      BY <1>1
    <3> HIDE DEF n
    <3> QED BY <3>1
  <2>5. Front(s) = SubSeq(s, 1, n)
    BY DEF Front
  <2> HIDE DEF n
  <2>6. Front(s) \in Seq(T) /\ Len(Front(s)) = n /\ \A i \in 1 .. n : Front(s)[i] = s[i]
    BY <2>3, <2>4, <2>5
  <2> QED BY <2>6 DEF n
<1>4. Last(s) \in T
  BY <1>1, <1>2 DEF Last
<1>5. Append(Front(s), Last(s)) \in Seq(T)
      /\ Len(Append(Front(s), Last(s))) = Len(s)
      /\ \A i \in 1..Len(s) : Append(Front(s), Last(s))[i] = s[i]
  BY <1>1, <1>3, <1>4, AppendProperties DEF Last
<1>6. s = Append(Front(s), Last(s))
  BY <1>5, SeqEqual
<1> QED BY <1>3, <1>4, <1>6

LEMMA AppendedFrontAndLast ==
  ASSUME NEW T, NEW s \in Seq(T), NEW e \in T
  PROVE  /\ Append(s, e) \in Seq(T) /\ Append(s, e) # <<>>
         /\ Front(Append(s, e)) = s /\ Last(Append(s, e)) = e
<1>1. Append(s, e) \in Seq(T) /\ Append(s, e) # <<>>
  BY AppendProperties
<1>2. /\ Front(Append(s, e)) \in Seq(T) /\ Last(Append(s, e)) \in T
      /\ Append(s, e) = Append(Front(Append(s, e)), Last(Append(s, e)))
  BY <1>1, FrontAndLast
<1> QED BY <1>1, <1>2, AppendInjective

LEMMA ConcatAppend ==
  ASSUME NEW T, NEW s \in Seq(T), NEW t \in Seq(T), NEW e \in T
  PROVE  s \o Append(t, e) = Append(s \o t, e) /\ s \o t \in Seq(T)
<1>1. s \o t \in Seq(T)
  BY ConcatProperties
<1>2. <<e>> \in Seq(T)
  OBVIOUS
<1>3. Append(t, e) = t \o <<e>> /\ Append(s \o t, e) = (s \o t) \o <<e>>
  BY <1>1, AppendIsConcat
<1> QED BY <1>1, <1>2, <1>3, ConcatAssociative

\* A set that has the empty sequence and with every sequence the ones that are
\* longer by one has them all.
LEMMA SequenceInduction ==
  ASSUME NEW S, NEW G, <<>> \in G,
         \A s \in Seq(S), e \in S : s \in G => Append(s, e) \in G
  PROVE  Seq(S) \subseteq G
<1> DEFINE T == {n \in Nat : \A s \in Seq(S) : Len(s) = n => s \in G}
<1>1. 0 \in T
  BY EmptySeq
<1>2. ASSUME NEW n \in Nat, n \in T, NEW s \in Seq(S), Len(s) = n + 1 PROVE s \in G
  <2>1. s # <<>>
    BY <1>2, EmptySeq
  <2>2. Front(s) \in Seq(S) /\ Last(s) \in S /\ s = Append(Front(s), Last(s)) /\ Len(Front(s)) = n
    BY <1>2, <2>1, FrontAndLast, SMTT(30)
  <2>3. Front(s) \in G
    BY <1>2, <2>2
  <2> QED BY <2>2, <2>3
<1>3. \A n \in Nat : n \in T => n + 1 \in T
  BY <1>2
<1> HIDE DEF T
<1>4. Nat \subseteq T
  BY <1>1, <1>3, Induction
<1>5. ASSUME NEW s \in Seq(S) PROVE s \in G
  <2>1. Len(s) \in T
    BY <1>4, LenProperties
  <2> QED BY <2>1 DEF T
<1> QED BY <1>5

\* f is what the recursion over the last element of a sequence defines.
Recursion(f, T, s0, F) ==
    \A t \in Seq(T) : f[t] = IF t = <<>> THEN s0 ELSE F[<<f[Front(t)], t>>]

Steps(S, T) == [S \X Seq(T) -> S]

\* A function on sequences may be defined by recursion over the last element.
LEMMA SequenceRecursion ==
  ASSUME NEW T, NEW S, NEW s0 \in S, NEW F \in Steps(S, T)
  PROVE  \E f \in [Seq(T) -> S] : Recursion(f, T, s0, F)
<1> USE DEF Steps
<1> DEFINE Good(f, n) ==
      /\ f[<<>>] = s0
      /\ \A t \in Seq(T) : t # <<>> /\ Len(t) <= n => f[t] = F[<<f[Front(t)], t>>]
    P == {n \in Nat : \E f \in [Seq(T) -> S] : Good(f, n)}
<1>1. 0 \in P
  <2> DEFINE f == [t \in Seq(T) |-> s0]
  <2>1. f \in [Seq(T) -> S] /\ f[<<>>] = s0
    BY EmptySeq
  <2>2. \A t \in Seq(T) : t # <<>> => Len(t) \in Nat \ {0}
    BY EmptySeq
  <2>3. Good(f, 0)
    BY <2>1, <2>2
  <2> HIDE DEF f
  <2> QED BY <2>1, <2>3
<1>2. ASSUME NEW n \in Nat, n \in P PROVE n + 1 \in P
  <2>1. PICK f \in [Seq(T) -> S] : Good(f, n)
    BY <1>2
  <2> DEFINE g == [t \in Seq(T) |-> IF Len(t) <= n THEN f[t] ELSE F[<<f[Front(t)], t>>]]
  <2>2. ASSUME NEW t \in Seq(T), t # <<>>
        PROVE  /\ Front(t) \in Seq(T) /\ Len(Front(t)) = Len(t) - 1 /\ Len(t) \in Nat \ {0}
               /\ F[<<f[Front(t)], t>>] \in S
    <3>1. Front(t) \in Seq(T) /\ Len(Front(t)) = Len(t) - 1 /\ Len(t) \in Nat \ {0}
      BY <2>2, FrontAndLast, EmptySeq
    <3>2. <<f[Front(t)], t>> \in S \X Seq(T)
      BY <3>1
    <3> QED BY <3>1, <3>2
  <2>3. g \in [Seq(T) -> S]
    <3>1. ASSUME NEW t \in Seq(T) PROVE g[t] \in S
      <4>1. CASE Len(t) <= n
        BY <4>1
      <4>2. CASE ~(Len(t) <= n)
        <5>1. t # <<>>
          BY <4>2, EmptySeq
        <5> QED BY <4>2, <5>1, <2>2
      <4> QED BY <4>1, <4>2
    <3> QED BY <3>1
  <2>4. g[<<>>] = s0
    BY <2>1, EmptySeq
  <2>5. ASSUME NEW t \in Seq(T), t # <<>>, Len(t) <= n + 1 PROVE g[t] = F[<<g[Front(t)], t>>]
    <3>1. Front(t) \in Seq(T) /\ Len(Front(t)) <= n
      <4>1. Front(t) \in Seq(T) /\ Len(Front(t)) = Len(t) - 1 /\ Len(t) \in Nat \ {0}
        BY <2>2, <2>5
      <4> QED BY <2>5, <4>1
    <3>2. g[Front(t)] = f[Front(t)]
      BY <3>1
    <3>3. CASE Len(t) <= n
      BY <2>1, <2>5, <3>2, <3>3
    <3>4. CASE ~(Len(t) <= n)
      BY <3>2, <3>4
    <3> QED BY <3>3, <3>4
  <2>6. Good(g, n + 1)
    <3> HIDE DEF g
    <3> QED BY <2>4, <2>5
  <2> HIDE DEF g
  <2>7. \E h \in [Seq(T) -> S] : Good(h, n + 1)
    <3> HIDE DEF Good
    <3> QED BY <2>3, <2>6
  <2>8. n + 1 \in Nat
    OBVIOUS
  <2> HIDE DEF Good
  <2> QED BY <2>7, <2>8
<1>3. Nat \subseteq P
  <2> HIDE DEF P
  <2> QED BY <1>1, <1>2, Induction
<1> DEFINE g == [n \in Nat |-> CHOOSE f \in [Seq(T) -> S] : Good(f, n)]
<1>4. ASSUME NEW n \in Nat PROVE g[n] \in [Seq(T) -> S] /\ Good(g[n], n)
  <2>1. \E f \in [Seq(T) -> S] : Good(f, n)
    BY <1>3
  <2> QED BY <2>1
<1> HIDE DEF g, P
<1> DEFINE A == {t \in Seq(T) : \A m, n \in Nat : Len(t) <= m /\ Len(t) <= n => g[m][t] = g[n][t]}
<1>5. <<>> \in A
  BY <1>4, EmptySeq
<1>6. ASSUME NEW s \in Seq(T), NEW e \in T, s \in A PROVE Append(s, e) \in A
  <2> DEFINE t == Append(s, e)
  <2>1. t \in Seq(T) /\ t # <<>> /\ Front(t) = s
    BY AppendedFrontAndLast
  <2>2. Len(t) = Len(s) + 1 /\ Len(s) \in Nat
    BY AppendProperties, LenProperties
  <2> HIDE DEF t
  <2>3. ASSUME NEW m \in Nat, NEW n \in Nat, Len(t) <= m, Len(t) <= n PROVE g[m][t] = g[n][t]
    <3>1. g[m][t] = F[<<g[m][s], t>>] /\ g[n][t] = F[<<g[n][s], t>>]
      BY <1>4, <2>1, <2>3
    <3>2. g[m][s] = g[n][s]
      BY <1>6, <2>2, <2>3
    <3> QED BY <3>1, <3>2
  <2>4. t \in A
    BY <2>1, <2>3
  <2> QED BY <2>4 DEF t
<1>7. Seq(T) \subseteq A
  <2> HIDE DEF A
  <2> QED BY <1>5, <1>6, SequenceInduction
<1> DEFINE f == [t \in Seq(T) |-> g[Len(t)][t]]
<1>8. ASSUME NEW t \in Seq(T) PROVE Len(t) \in Nat /\ f[t] \in S /\ f[t] = g[Len(t)][t]
  BY <1>4, LenProperties
<1>9. f \in [Seq(T) -> S]
  BY <1>8
<1>10. ASSUME NEW t \in Seq(T), t # <<>> PROVE f[t] = F[<<f[Front(t)], t>>]
  <2>1. Front(t) \in Seq(T) /\ Len(Front(t)) = Len(t) - 1 /\ Len(t) \in Nat \ {0}
    BY <1>10, FrontAndLast, EmptySeq
  <2>2. g[Len(t)][Front(t)] = g[Len(t) - 1][Front(t)]
    BY <1>7, <2>1
  <2>3. f[t] = F[<<g[Len(t)][Front(t)], t>>]
    <3>1. Good(g[Len(t)], Len(t))
      BY <1>4, <2>1
    <3>2. g[Len(t)][t] = F[<<g[Len(t)][Front(t)], t>>]
      BY <1>10, <2>1, <3>1
    <3> QED BY <3>2
  <2>4. f[Front(t)] = g[Len(t) - 1][Front(t)]
    BY <1>8, <2>1
  <2> QED BY <2>2, <2>3, <2>4
<1>11. f[<<>>] = s0
  BY <1>4, EmptySeq
<1> HIDE DEF f
<1>12. Recursion(f, T, s0, F)
  BY <1>10, <1>11 DEF Recursion
<1> QED BY <1>9, <1>12

-----------------------------------------------------------------------------
(* The rules of JSON.                                                      *)

States == [open : Seq(Kinds), wants : Wants]

Dead(s) == Behind(s.open, "none")

\* What a state becomes, token by token.
LEMMA ReadByToken ==
  ASSUME NEW s
  PROVE  /\ Read(s, "begin_array") = IF TakesValue(s) THEN Behind(Append(s.open, "ARRAY"), "first") ELSE Dead(s)
         /\ Read(s, "begin_object") = IF TakesValue(s) THEN Behind(Append(s.open, "OBJECT"), "first") ELSE Dead(s)
         /\ Read(s, "end_array") = IF TakesEnd(s, "ARRAY") THEN Behind(Front(s.open), "next") ELSE Dead(s)
         /\ Read(s, "end_object") = IF TakesEnd(s, "OBJECT") THEN Behind(Front(s.open), "next") ELSE Dead(s)
         /\ Read(s, "str") = IF TakesName(s) THEN Behind(s.open, "colon")
                             ELSE IF TakesValue(s) THEN Behind(s.open, "next") ELSE Dead(s)
         /\ Read(s, "lit") = IF TakesValue(s) THEN Behind(s.open, "next") ELSE Dead(s)
         /\ Read(s, "raw") = IF TakesValue(s) THEN Behind(s.open, "next") ELSE Dead(s)
         /\ Read(s, "colon") = IF s.wants = "colon" THEN Behind(s.open, "value") ELSE Dead(s)
         /\ Read(s, "comma") = IF TakesComma(s)
                           THEN Behind(s.open, IF Within(s, "ARRAY") THEN "value" ELSE "name")
                           ELSE Dead(s)
BY DEF Read, Dead, Kinds, CloseOf, Opening

LEMMA TokenCases ==
  ASSUME NEW t \in Tokens
  PROVE  t \in {"begin_array", "begin_object", "end_array", "end_object", "str", "lit", "raw", "colon", "comma"}
BY DEF Tokens, Scalars, Opening, Closing

LEMMA ReadType ==
  ASSUME NEW s \in States, NEW t \in Tokens
  PROVE  Read(s, t) \in States
<1>1. s.open \in Seq(Kinds) /\ s.wants \in Wants
  BY DEF States
<1>2. \A k \in Kinds : Append(s.open, k) \in Seq(Kinds)
  BY <1>1, AppendProperties
<1>3. s.open # <<>> => Front(s.open) \in Seq(Kinds)
  BY <1>1, FrontAndLast
<1>4. \A o \in Seq(Kinds), w \in Wants : Behind(o, w) \in States
  BY DEF Behind, States
<1> QED BY <1>1, <1>2, <1>3, <1>4, ReadByToken, TokenCases DEF Kinds, Wants, Dead, TakesEnd, Within

LEMMA AfterRecursion ==
  /\ After \in [Seq(Tokens) -> States]
  /\ After[<<>>] = Behind(<<>>, "value")
  /\ \A t \in Seq(Tokens), e \in Tokens : After[Append(t, e)] = Read(After[t], e)
<1> DEFINE s0 == Behind(<<>>, "value")
           F == [x \in States \X Seq(Tokens) |->
                   IF x[2] = <<>> THEN s0 ELSE Read(x[1], Last(x[2]))]
<1>1. s0 \in States
  BY EmptySeq DEF Behind, States, Wants
<1>2. F \in [States \X Seq(Tokens) -> States]
  <2>1. ASSUME NEW x \in States \X Seq(Tokens) PROVE F[x] \in States
    <3>1. x[1] \in States /\ x[2] \in Seq(Tokens)
      OBVIOUS
    <3>2. x[2] # <<>> => Read(x[1], Last(x[2])) \in States
      BY <3>1, FrontAndLast, ReadType
    <3> HIDE DEF s0
    <3> QED BY <3>2, <1>1
  <2> QED BY <2>1
<1>3. F \in Steps(States, Tokens)
  BY <1>2 DEF Steps
<1>4. PICK f \in [Seq(Tokens) -> States] : Recursion(f, Tokens, s0, F)
  <2> HIDE DEF F, s0
  <2> QED BY <1>1, <1>3, SequenceRecursion
<1>5. f = [text \in Seq(Tokens) |->
             IF text = <<>> THEN Behind(<<>>, "value") ELSE Read(f[Front(text)], Last(text))]
  <2>1. ASSUME NEW t \in Seq(Tokens), t # <<>> PROVE F[<<f[Front(t)], t>>] = Read(f[Front(t)], Last(t))
    <3>1. Front(t) \in Seq(Tokens)
      BY <2>1, FrontAndLast
    <3>2. <<f[Front(t)], t>> \in States \X Seq(Tokens)
      BY <3>1
    <3> QED BY <2>1, <3>2
  <2>2. ASSUME NEW t \in Seq(Tokens)
        PROVE  f[t] = IF t = <<>> THEN Behind(<<>>, "value") ELSE Read(f[Front(t)], Last(t))
    <3>1. f[t] = IF t = <<>> THEN s0 ELSE F[<<f[Front(t)], t>>]
      BY <1>4 DEF Recursion
    <3> QED BY <2>1, <3>1
  <2> HIDE DEF F, s0
  <2>3. f = [t \in Seq(Tokens) |-> f[t]]
    OBVIOUS
  <2> QED BY <2>2, <2>3
<1>6. After = [text \in Seq(Tokens) |->
             IF text = <<>> THEN Behind(<<>>, "value") ELSE Read(After[Front(text)], Last(text))]
  BY <1>5, Zenon DEF After
<1> HIDE DEF F, s0
<1>7. \A t \in Seq(Tokens) :
        After[t] = IF t = <<>> THEN Behind(<<>>, "value") ELSE Read(After[Front(t)], Last(t))
  BY <1>6, Zenon
<1>8. After[<<>>] = Behind(<<>>, "value")
  BY <1>7, EmptySeq
<1>9. ASSUME NEW t \in Seq(Tokens), NEW e \in Tokens PROVE After[Append(t, e)] = Read(After[t], e)
  <2>1. Append(t, e) \in Seq(Tokens) /\ Append(t, e) # <<>> /\ Front(Append(t, e)) = t /\ Last(Append(t, e)) = e
    BY AppendedFrontAndLast
  <2> QED BY <1>7, <2>1
<1>10. After \in [Seq(Tokens) -> States]
  <2> DEFINE G == {t \in Seq(Tokens) : After[t] \in States}
  <2>1. <<>> \in G
    BY <1>1, <1>8, EmptySeq DEF s0
  <2>2. ASSUME NEW t \in Seq(Tokens), NEW e \in Tokens, t \in G PROVE Append(t, e) \in G
    BY <1>9, <2>2, ReadType, AppendProperties
  <2>3. Seq(Tokens) \subseteq G
    <3> HIDE DEF G
    <3> QED BY <2>1, <2>2, SequenceInduction
  <2>4. After = [t \in Seq(Tokens) |-> After[t]]
    BY <1>6, Zenon
  <2> QED BY <2>3, <2>4
<1> QED BY <1>8, <1>9, <1>10

LEMMA AfterType ==
  ASSUME NEW t \in Seq(Tokens)
  PROVE  After[t] \in States /\ After[t].open \in Seq(Kinds) /\ After[t].wants \in Wants
         /\ Len(After[t].open) \in Nat
<1>1. After[t] \in States
  BY AfterRecursion
<1> QED BY <1>1, LenProperties DEF States

\* No text continues one that no JSON text begins with.
LEMMA ReadDead ==
  ASSUME NEW s, NEW e \in Tokens, s.wants = "none"
  PROVE  Read(s, e).wants = "none"
<1>1. ~TakesValue(s) /\ ~TakesName(s) /\ ~TakesEnd(s, "ARRAY") /\ ~TakesEnd(s, "OBJECT") /\ ~TakesComma(s)
  BY DEF TakesValue, TakesName, TakesEnd, TakesComma
<1>2. Read(s, e) = Dead(s)
  BY <1>1, ReadByToken, TokenCases
<1> QED BY <1>2 DEF Dead, Behind

LEMMA Fields ==
  ASSUME NEW o, NEW w
  PROVE  Behind(o, w).open = o /\ Behind(o, w).wants = w
BY DEF Behind

\* The ways to continue a text.
LEMMA ReadCases ==
  ASSUME NEW s, NEW e \in Tokens, Read(s, e).wants # "none"
  PROVE  \/ \E k \in Kinds : e = OpenOf(k) /\ TakesValue(s) /\ Read(s, e) = Behind(Append(s.open, k), "first")
         \/ \E k \in Kinds : e = CloseOf(k) /\ TakesEnd(s, k) /\ Read(s, e) = Behind(Front(s.open), "next")
         \/ e = "str" /\ TakesName(s) /\ Read(s, e) = Behind(s.open, "colon")
         \/ e \in {"str", "lit", "raw"} /\ TakesValue(s) /\ Read(s, e) = Behind(s.open, "next")
         \/ e = "colon" /\ s.wants = "colon" /\ Read(s, e) = Behind(s.open, "value")
         \/ e = "comma" /\ TakesComma(s) /\ Within(s, "ARRAY") /\ Read(s, e) = Behind(s.open, "value")
         \/ e = "comma" /\ TakesComma(s) /\ ~Within(s, "ARRAY") /\ Read(s, e) = Behind(s.open, "name")
<1>1. Read(s, e) # Dead(s)
  BY Fields DEF Dead
<1>2. "ARRAY" \in Kinds /\ "OBJECT" \in Kinds /\ OpenOf("ARRAY") = "begin_array" /\ OpenOf("OBJECT") = "begin_object"
      /\ CloseOf("ARRAY") = "end_array" /\ CloseOf("OBJECT") = "end_object"
  BY DEF Kinds, OpenOf, CloseOf
<1>3. CASE e = "begin_array"
  BY <1>1, <1>2, <1>3, ReadByToken
<1>4. CASE e = "begin_object"
  BY <1>1, <1>2, <1>4, ReadByToken
<1>5. CASE e = "end_array"
  BY <1>1, <1>2, <1>5, ReadByToken
<1>6. CASE e = "end_object"
  BY <1>1, <1>2, <1>6, ReadByToken
<1>7. CASE e \in {"str", "lit", "raw", "colon", "comma"}
  BY <1>1, <1>7, ReadByToken
<1> QED BY <1>3, <1>4, <1>5, <1>6, <1>7, TokenCases

\* And what each makes of a state that allows it.
LEMMA ReadAllowed ==
  ASSUME NEW s
  PROVE  /\ TakesValue(s) => /\ \A k \in Kinds : Read(s, OpenOf(k)) = Behind(Append(s.open, k), "first")
                             /\ \A e \in {"str", "lit", "raw"} : Read(s, e) = Behind(s.open, "next")
         /\ \A k \in Kinds : TakesEnd(s, k) => Read(s, CloseOf(k)) = Behind(Front(s.open), "next")
         /\ TakesName(s) => Read(s, "str") = Behind(s.open, "colon")
         /\ s.wants = "colon" => Read(s, "colon") = Behind(s.open, "value")
         /\ TakesComma(s) => Read(s, "comma") = Behind(s.open, IF Within(s, "ARRAY") THEN "value" ELSE "name")
<1>1. ~(TakesValue(s) /\ TakesName(s))
  BY DEF TakesValue, TakesName, Within
<1> QED BY <1>1, ReadByToken DEF Kinds, OpenOf, CloseOf

\* Where a text that begins a JSON text may stand.
Standing(t, s) ==
    /\ s.wants \in {"first", "name", "colon"} => s.open # <<>>
    /\ s.wants \in {"name", "colon"} => Last(s.open) = "OBJECT"
    /\ s.wants = "value" => IF t = <<>> THEN s.open = <<>>
                             ELSE s.open # <<>> /\ (Last(t) = "comma" <=> Last(s.open) = "ARRAY")
    /\ s.wants \in {"first", "next", "colon"} => t # <<>> /\ Last(t) # "comma"
    /\ s.wants = "name" => t # <<>> /\ Last(t) = "comma"

LEMMA StandingAfter ==
  ASSUME NEW t \in Seq(Tokens), After[t].wants # "none"
  PROVE  Standing(t, After[t])
<1> DEFINE G == {x \in Seq(Tokens) : After[x].wants # "none" => Standing(x, After[x])}
<1>1. <<>> \in G
  BY AfterRecursion, EmptySeq DEF Behind, Standing
<1>2. ASSUME NEW x \in Seq(Tokens), NEW e \in Tokens, x \in G PROVE Append(x, e) \in G
  <2> DEFINE y == Append(x, e)
             s == After[x]
  <2>1. y \in Seq(Tokens) /\ y # <<>> /\ Last(y) = e
    BY AppendedFrontAndLast
  <2>2. After[y] = Read(s, e)
    BY AfterRecursion
  <2>3. s.open \in Seq(Kinds) /\ s.wants \in Wants
    BY AfterType
  <2>4. \A k \in Kinds : Append(s.open, k) # <<>> /\ Last(Append(s.open, k)) = k
    BY <2>3, AppendedFrontAndLast
  <2>5. s.open # <<>> => Last(s.open) \in Kinds
    BY <2>3, FrontAndLast
  <2>6. s.wants # "none" => Standing(x, s)
    BY <1>2
  <2> HIDE DEF y, s
  <2>7. ASSUME Read(s, e).wants # "none" PROVE Standing(y, Read(s, e))
    <3>1. s.wants # "none"
      BY <2>7, ReadDead
    <3>2. e = "str" => e # "comma"
      OBVIOUS
    <3>3. \A k \in Kinds : OpenOf(k) # "comma" /\ CloseOf(k) # "comma"
      BY DEF OpenOf, CloseOf
    <3>4. ASSUME NEW k \in Kinds, e = OpenOf(k), Read(s, e) = Behind(Append(s.open, k), "first")
          PROVE  Standing(y, Read(s, e))
      <4>1. Read(s, e).wants = "first" /\ Read(s, e).open # <<>>
        <5> DEFINE a == Append(s.open, k)
        <5>1. a # <<>>
          BY <2>4
        <5>2. Read(s, e) = Behind(a, "first")
          BY <3>4
        <5> HIDE DEF a
        <5> QED BY <5>1, <5>2, Fields
      <4> QED BY <2>1, <3>3, <3>4, <4>1 DEF Standing
    <3>5. ASSUME NEW k \in Kinds, e = CloseOf(k), Read(s, e) = Behind(Front(s.open), "next")
          PROVE  Standing(y, Read(s, e))
      BY <2>1, <3>3, <3>5, Fields DEF Standing
    <3>6. CASE e = "str" /\ TakesName(s) /\ Read(s, e) = Behind(s.open, "colon")
      <4>1. s.open # <<>> /\ Last(s.open) = "OBJECT"
        BY <2>6, <3>1, <3>6 DEF TakesName, Within, Standing
      <4> QED BY <2>1, <3>6, <4>1, Fields DEF Standing
    <3>7. CASE e \in {"str", "lit", "raw"} /\ Read(s, e) = Behind(s.open, "next")
      BY <2>1, <3>7, Fields DEF Standing
    <3>8. CASE e = "colon" /\ s.wants = "colon" /\ Read(s, e) = Behind(s.open, "value")
      <4>1. s.open # <<>> /\ Last(s.open) = "OBJECT"
        BY <2>6, <3>1, <3>8 DEF Standing
      <4> QED BY <2>1, <3>8, <4>1, Fields DEF Standing
    <3>9. CASE e = "comma" /\ TakesComma(s) /\ Within(s, "ARRAY") /\ Read(s, e) = Behind(s.open, "value")
      BY <2>1, <3>9, Fields DEF Standing, Within
    <3>10. CASE e = "comma" /\ TakesComma(s) /\ ~Within(s, "ARRAY") /\ Read(s, e) = Behind(s.open, "name")
      <4>1. s.open # <<>> /\ Last(s.open) = "OBJECT"
        BY <2>5, <3>10 DEF TakesComma, Within, Kinds
      <4> QED BY <2>1, <3>10, <4>1, Fields DEF Standing
    <3> QED BY <2>7, <3>4, <3>5, <3>6, <3>7, <3>8, <3>9, <3>10, ReadCases
  <2>8. y \in G
    BY <2>1, <2>2, <2>7
  <2> QED BY <2>8 DEF y
<1>3. Seq(Tokens) \subseteq G
  <2> HIDE DEF G
  <2> QED BY <1>1, <1>2, SequenceInduction
<1> QED BY <1>3

\* A text where a value may stand, continued by the text of a value.
LEMMA AfterNested ==
  ASSUME NEW b \in Seq(Tokens), TakesValue(After[b]),
         NEW t \in Seq(Tokens), t # <<>>, After[t].wants # "none"
  PROVE  After[b \o t] = Behind(After[b].open \o After[t].open, After[t].wants)
<1> DEFINE out == After[b].open
           Nested(s) == Behind(out \o s.open, s.wants)
           G == {x \in Seq(Tokens) : x # <<>> /\ After[x].wants # "none" => After[b \o x] = Nested(After[x])}
<1>0. out \in Seq(Kinds)
  BY AfterType
<1>1. <<>> \in G
  BY EmptySeq
<1>2. ASSUME NEW x \in Seq(Tokens), NEW e \in Tokens, x \in G PROVE Append(x, e) \in G
  <2> DEFINE y == Append(x, e)
             s == After[x]
             n == After[b \o x]
  <2>1. y \in Seq(Tokens)
    BY AppendProperties
  <2>2. After[y] = Read(s, e)
    BY AfterRecursion
  <2>3. b \o x \in Seq(Tokens) /\ b \o y = Append(b \o x, e)
    BY ConcatAppend
  <2>4. After[b \o y] = Read(n, e)
    BY <2>3, AfterRecursion
  <2>5. s.open \in Seq(Kinds) /\ s.wants \in Wants
    BY AfterType
  <2>8. x # <<>> /\ s.wants # "none" => n = Nested(s)
    BY <1>2
  <2>6. ASSUME Read(s, e).wants # "none" PROVE Read(n, e) = Nested(Read(s, e))
    <3>1. s.wants # "none"
      BY <2>6, ReadDead
    <3>2. CASE x = <<>>
      <4>1. s = Behind(<<>>, "value") /\ n = After[b]
        BY <3>2, AfterRecursion, ConcatEmptySeq
      <4>2. out \o <<>> = out /\ \A k \in Kinds : out \o Append(<<>>, k) = Append(out, k)
        BY <1>0, ConcatEmptySeq, AppendIsConcat, EmptySeq
      <4>3. s.open = <<>> /\ s.wants = "value" /\ n.open = out /\ TakesValue(n)
        BY <4>1, Fields
      <4> HIDE DEF n, s, out
      <4>4. ~TakesName(s) /\ ~TakesComma(s) /\ \A k \in Kinds : ~TakesEnd(s, k)
        BY <4>3 DEF TakesName, TakesComma, TakesEnd
      <4>5. \/ \E k \in Kinds : e = OpenOf(k) /\ Read(s, e) = Behind(Append(s.open, k), "first")
            \/ e \in {"str", "lit", "raw"} /\ Read(s, e) = Behind(s.open, "next")
        BY <2>6, <4>3, <4>4, ReadCases
      <4>6. ASSUME NEW k \in Kinds, e = OpenOf(k), Read(s, e) = Behind(Append(s.open, k), "first")
            PROVE  Read(n, e) = Nested(Read(s, e))
        <5>1. Read(n, e) = Behind(Append(out, k), "first")
          BY <4>3, <4>6, ReadAllowed
        <5>2. Nested(Read(s, e)) = Behind(out \o Append(<<>>, k), "first")
          BY <4>3, <4>6, Fields
        <5> QED BY <4>2, <5>1, <5>2
      <4>7. CASE e \in {"str", "lit", "raw"} /\ Read(s, e) = Behind(s.open, "next")
        <5>1. Read(n, e) = Behind(out, "next")
          BY <4>3, <4>7, ReadAllowed
        <5>2. Nested(Read(s, e)) = Behind(out \o <<>>, "next")
          BY <4>3, <4>7 DEF Behind
        <5> QED BY <4>2, <5>1, <5>2
      <4> QED BY <4>5, <4>6, <4>7
    <3>3. CASE x # <<>>
      <4>1. n = Nested(s) /\ n.wants = s.wants /\ n.open = out \o s.open
        <5> HIDE DEF n, s
        <5> DEFINE o == out \o s.open
        <5>1. n = Behind(o, s.wants)
          BY <2>8, <3>1, <3>3
        <5> HIDE DEF o, out
        <5>2. n.wants = s.wants /\ n.open = o
          BY <5>1, Fields
        <5> QED BY <5>1, <5>2 DEF o
      <4>2. Standing(x, s)
        BY <3>1, StandingAfter
      <4> HIDE DEF n, s, out
      <4>3. \A k \in Kinds : out \o Append(s.open, k) = Append(n.open, k)
        BY <1>0, <2>5, <4>1, ConcatAppend, SMTT(30)
      <4>4. ASSUME s.open # <<>>
            PROVE  n.open # <<>> /\ Last(n.open) = Last(s.open) /\ Front(n.open) = out \o Front(s.open)
        <5>1. Front(s.open) \in Seq(Kinds) /\ Last(s.open) \in Kinds /\ s.open = Append(Front(s.open), Last(s.open))
          BY <2>5, <4>4, FrontAndLast
        <5>2. out \o Front(s.open) \in Seq(Kinds)
          BY <1>0, <5>1, ConcatProperties
        <5>3. n.open = Append(out \o Front(s.open), Last(s.open))
          <6>1. out \o Append(Front(s.open), Last(s.open)) = Append(out \o Front(s.open), Last(s.open))
            BY <1>0, <5>1, ConcatAppend
          <6> QED BY <4>1, <5>1, <6>1
        <5> DEFINE f == out \o Front(s.open)
                   l == Last(s.open)
        <5>4. f \in Seq(Kinds) /\ l \in Kinds /\ n.open = Append(f, l)
          BY <5>1, <5>2, <5>3
        <5> HIDE DEF f, l
        <5>5. n.open # <<>> /\ Last(n.open) = l /\ Front(n.open) = f
          BY <5>4, AppendedFrontAndLast
        <5> QED BY <5>5 DEF f, l
      <4>5. s.open = <<>> => s.wants = "next"
        BY <2>5, <3>1, <3>3, <4>2 DEF Standing, Wants
      <4>6. s.open # <<>>
        <5> SUFFICES ASSUME s.open = <<>> PROVE FALSE
          OBVIOUS
        <5>1. ~TakesValue(s) /\ ~TakesName(s) /\ ~TakesComma(s) /\ \A k \in Kinds : ~TakesEnd(s, k)
          BY <4>5 DEF TakesName, TakesValue, TakesEnd, TakesComma, Within
        <5> QED BY <2>6, <4>5, <5>1, ReadCases
      <4>7. /\ TakesValue(n) <=> TakesValue(s)
            /\ TakesName(n) <=> TakesName(s)
            /\ TakesComma(n) <=> TakesComma(s)
            /\ \A k \in Kinds : (TakesEnd(n, k) <=> TakesEnd(s, k)) /\ (Within(n, k) <=> Within(s, k))
        BY <4>1, <4>4, <4>6 DEF TakesName, TakesValue, TakesEnd, TakesComma, Within
      <4>8. "ARRAY" \in Kinds
        BY DEF Kinds
      <4>9. ASSUME NEW k \in Kinds, e = OpenOf(k), TakesValue(s), Read(s, e) = Behind(Append(s.open, k), "first")
            PROVE  Read(n, e) = Nested(Read(s, e))
        <5>1. Read(n, e) = Behind(Append(n.open, k), "first")
          BY <4>7, <4>9, ReadAllowed
        <5>2. Nested(Read(s, e)) = Behind(out \o Append(s.open, k), "first")
          BY <4>9, Fields
        <5> QED BY <4>3, <5>1, <5>2
      <4>10. ASSUME NEW k \in Kinds, e = CloseOf(k), TakesEnd(s, k), Read(s, e) = Behind(Front(s.open), "next")
            PROVE  Read(n, e) = Nested(Read(s, e))
        <5>1. Read(n, e) = Behind(Front(n.open), "next")
          BY <4>7, <4>10, ReadAllowed
        <5>2. Nested(Read(s, e)) = Behind(out \o Front(s.open), "next")
          BY <4>10, Fields
        <5> QED BY <4>4, <4>6, <5>1, <5>2
      <4>11. CASE e = "str" /\ TakesName(s) /\ Read(s, e) = Behind(s.open, "colon")
        BY <4>1, <4>7, <4>11, ReadAllowed, Fields
      <4>12. CASE e \in {"str", "lit", "raw"} /\ TakesValue(s) /\ Read(s, e) = Behind(s.open, "next")
        BY <4>1, <4>7, <4>12, ReadAllowed, Fields
      <4>13. CASE e = "colon" /\ s.wants = "colon" /\ Read(s, e) = Behind(s.open, "value")
        BY <4>1, <4>13, ReadAllowed, Fields
      <4>14. CASE e = "comma" /\ TakesComma(s) /\ Within(s, "ARRAY") /\ Read(s, e) = Behind(s.open, "value")
        BY <4>1, <4>7, <4>8, <4>14, ReadAllowed, Fields
      <4>15. CASE e = "comma" /\ TakesComma(s) /\ ~Within(s, "ARRAY") /\ Read(s, e) = Behind(s.open, "name")
        BY <4>1, <4>7, <4>8, <4>15, ReadAllowed, Fields
      <4> QED BY <2>6, <4>9, <4>10, <4>11, <4>12, <4>13, <4>14, <4>15, ReadCases
    <3> QED BY <3>2, <3>3
  <2> HIDE DEF y, n
  <2>7. y \in G
    BY <2>1, <2>2, <2>4, <2>6
  <2> QED BY <2>7 DEF y
<1>3. Seq(Tokens) \subseteq G
  <2> HIDE DEF G
  <2> QED BY <1>1, <1>2, SequenceInduction
<1> QED BY <1>3

\* The first i elements of a sequence.
LEMMA Prefix ==
  ASSUME NEW T, NEW s \in Seq(T), NEW i \in 0..Len(s)
  PROVE  /\ SubSeq(s, 1, i) \in Seq(T) /\ Len(SubSeq(s, 1, i)) = i
         /\ \A j \in 1..i : SubSeq(s, 1, i)[j] = s[j]
<1>1. Len(s) \in Nat /\ i \in Int /\ 1 \in Int
  BY LenProperties
<1>2. \A j \in 1..i : s[j] \in T
  BY <1>1, ElementOfSeq
<1>3. /\ SubSeq(s, 1, i) \in Seq(T)
      /\ Len(SubSeq(s, 1, i)) = IF 1 <= i THEN i - 1 + 1 ELSE 0
      /\ \A j \in 1 .. i - 1 + 1 : SubSeq(s, 1, i)[j] = s[1 + j - 1]
  BY <1>1, <1>2, SubSeqProperties
<1>4. i - 1 + 1 = i /\ (~(1 <= i) => i = 0) /\ \A j \in 1 .. i : 1 + j - 1 = j
  BY <1>1
<1> QED BY <1>3, <1>4

LEMMA PrefixOfAppended ==
  ASSUME NEW T, NEW s \in Seq(T), NEW e \in T
  PROVE  /\ \A i \in 0..Len(s) : SubSeq(Append(s, e), 1, i) = SubSeq(s, 1, i)
         /\ SubSeq(Append(s, e), 1, Len(s) + 1) = Append(s, e)
<1> DEFINE t == Append(s, e)
<1>1. t \in Seq(T) /\ Len(t) = Len(s) + 1 /\ Len(s) \in Nat /\ \A j \in 1..Len(s) : t[j] = s[j]
  BY AppendProperties, LenProperties
<1> HIDE DEF t
<1>2. ASSUME NEW i \in 0..Len(s) PROVE SubSeq(t, 1, i) = SubSeq(s, 1, i)
  <2>1. i \in 0..Len(t)
    BY <1>1
  <2>2. SubSeq(t, 1, i) \in Seq(T) /\ Len(SubSeq(t, 1, i)) = i /\ \A j \in 1..i : SubSeq(t, 1, i)[j] = t[j]
    BY <1>1, <2>1, Prefix
  <2>3. SubSeq(s, 1, i) \in Seq(T) /\ Len(SubSeq(s, 1, i)) = i /\ \A j \in 1..i : SubSeq(s, 1, i)[j] = s[j]
    BY Prefix
  <2>4. \A j \in 1..i : t[j] = s[j]
    BY <1>1
  <2> DEFINE a == SubSeq(t, 1, i)
             b == SubSeq(s, 1, i)
  <2>5. a \in Seq(T) /\ b \in Seq(T) /\ Len(a) = Len(b) /\ \A j \in 1..Len(a) : a[j] = b[j]
    BY <2>2, <2>3, <2>4
  <2> HIDE DEF a, b
  <2>6. a = b
    BY <2>5, SeqEqual
  <2> QED BY <2>6 DEF a, b
<1>3. SubSeq(t, 1, Len(t)) = t
  <2> DEFINE a == SubSeq(t, 1, Len(t))
  <2>1. Len(t) \in 0..Len(t)
    BY <1>1
  <2>2. a \in Seq(T) /\ Len(a) = Len(t) /\ \A j \in 1..Len(t) : a[j] = t[j]
    BY <1>1, <2>1, Prefix
  <2> HIDE DEF a
  <2>3. a = t
    BY <1>1, <2>2, SeqEqual
  <2> QED BY <2>3 DEF a
<1> QED BY <1>1, <1>2, <1>3 DEF t

LEMMA FitsEmpty ==
  ASSUME NEW o \in Nat
  PROVE  Fits(<<>>, o) <=> o < MAX_JSON_DEPTH
<1>1. <<>> \in Seq(Tokens) /\ Len(<<>>) = 0
  OBVIOUS
<1>2. SubSeq(<<>>, 1, 0) = <<>>
  <2> DEFINE a == SubSeq(<<>>, 1, 0)
  <2>1. a \in Seq(Tokens) /\ Len(a) = 0
    BY <1>1, Prefix
  <2> HIDE DEF a
  <2>2. a = <<>>
    BY <2>1, EmptySeq
  <2> QED BY <2>2 DEF a
<1>3. After[<<>>].open = <<>>
  BY AfterRecursion, Fields
<1>4. \A i : i \in 0..0 <=> i = 0
  OBVIOUS
<1>5. o + Len(<<>>) = o
  OBVIOUS
<1> QED BY <1>1, <1>2, <1>3, <1>4, <1>5 DEF Fits

\* A text that is longer by one fits if it did and is not nested too deep now.
LEMMA FitsAppend ==
  ASSUME NEW t \in Seq(Tokens), NEW e \in Tokens, NEW o \in Nat
  PROVE  Fits(Append(t, e), o) <=>
           Fits(t, o) /\ o + Len(After[Append(t, e)].open) < MAX_JSON_DEPTH
<1> DEFINE y == Append(t, e)
           P(x, i) == o + Len(After[SubSeq(x, 1, i)].open) < MAX_JSON_DEPTH
<1>1. Len(y) = Len(t) + 1 /\ Len(t) \in Nat
  BY AppendProperties, LenProperties
<1>2. \A i \in 0..Len(t) : SubSeq(y, 1, i) = SubSeq(t, 1, i)
  BY PrefixOfAppended
<1>3. SubSeq(y, 1, Len(y)) = y
  BY <1>1, PrefixOfAppended
<1>4. \A i : i \in 0..Len(y) <=> i \in 0..Len(t) \/ i = Len(y)
  BY <1>1
<1>5. \A i \in 0..Len(t) : P(y, i) <=> P(t, i)
  BY <1>2
<1>6. P(y, Len(y)) <=> o + Len(After[y].open) < MAX_JSON_DEPTH
  BY <1>3
<1>7. (Fits(y, o) <=> \A i \in 0..Len(y) : P(y, i)) /\ (Fits(t, o) <=> \A i \in 0..Len(t) : P(t, i))
  BY DEF Fits
<1> HIDE DEF P, y
<1>8. Fits(y, o) <=> Fits(t, o) /\ o + Len(After[y].open) < MAX_JSON_DEPTH
  BY <1>4, <1>5, <1>6, <1>7
<1> QED BY <1>8 DEF y

\* The brackets that are open, token by token.
Bracketed(open, token) ==
    CASE token = "begin_array" -> Append(open, "ARRAY")
      [] token = "begin_object" -> Append(open, "OBJECT")
      [] token \in Closing -> Front(open)
      [] OTHER -> open

LEMMA BracketedType ==
  ASSUME NEW open \in Seq(Kinds), NEW token \in Tokens
  PROVE  Bracketed(open, token) \in Seq(Kinds)
<1>1. Append(open, "ARRAY") \in Seq(Kinds) /\ Append(open, "OBJECT") \in Seq(Kinds)
  BY AppendProperties DEF Kinds
<1>2. Front(open) \in Seq(Kinds)
  <2>1. CASE open # <<>>
    BY <2>1, FrontAndLast
  <2>2. CASE open = <<>>
    <3>1. \A i \in 1 .. -1 : open[i] \in Kinds
      OBVIOUS
    <3>2. SubSeq(open, 1, -1) \in Seq(Kinds)
      BY <3>1, SubSeqProperties
    <3>3. Len(open) - 1 = -1
      BY <2>2
    <3> QED BY <3>2, <3>3 DEF Front
  <2> QED BY <2>1, <2>2
<1> QED BY <1>1, <1>2, TokenCases DEF Bracketed, Closing

LEMMA OpenBracketsRecursion ==
  /\ OpenBrackets \in [Seq(Tokens) -> Seq(Kinds)]
  /\ OpenBrackets[<<>>] = <<>>
  /\ \A t \in Seq(Tokens), e \in Tokens : OpenBrackets[Append(t, e)] = Bracketed(OpenBrackets[t], e)
<1> DEFINE S == Seq(Kinds)
           F == [x \in S \X Seq(Tokens) |-> IF x[2] = <<>> THEN <<>> ELSE Bracketed(x[1], Last(x[2]))]
<1>1. <<>> \in S
  OBVIOUS
<1>2. F \in Steps(S, Tokens)
  <2>1. ASSUME NEW x \in S \X Seq(Tokens) PROVE F[x] \in S
    <3>1. x[1] \in S /\ x[2] \in Seq(Tokens)
      OBVIOUS
    <3>2. x[2] # <<>> => Bracketed(x[1], Last(x[2])) \in S
      BY <3>1, FrontAndLast, BracketedType
    <3> QED BY <3>2, <1>1
  <2> HIDE DEF S
  <2> QED BY <2>1 DEF Steps
<1>3. PICK f \in [Seq(Tokens) -> S] : Recursion(f, Tokens, <<>>, F)
  <2> HIDE DEF F, S
  <2> QED BY <1>1, <1>2, SequenceRecursion
<1>4. ASSUME NEW t \in Seq(Tokens), t # <<>> PROVE F[<<f[Front(t)], t>>] = Bracketed(f[Front(t)], Last(t))
  <2>1. Front(t) \in Seq(Tokens)
    BY <1>4, FrontAndLast
  <2>2. <<f[Front(t)], t>> \in S \X Seq(Tokens)
    BY <2>1
  <2> HIDE DEF S
  <2> QED BY <1>4, <2>2
<1> HIDE DEF F, S
<1>5. \A t \in Seq(Tokens) : f[t] = IF t = <<>> THEN <<>> ELSE Bracketed(f[Front(t)], Last(t))
  BY <1>3, <1>4 DEF Recursion
<1>6. f = [text \in Seq(Tokens) |-> IF text = <<>> THEN <<>>
             ELSE LET before == f[Front(text)]
                  IN  CASE Last(text) = "begin_array" -> Append(before, "ARRAY")
                        [] Last(text) = "begin_object" -> Append(before, "OBJECT")
                        [] Last(text) \in Closing -> Front(before)
                        [] OTHER -> before]
  BY <1>5, Zenon DEF Bracketed
<1>7. OpenBrackets = [text \in Seq(Tokens) |-> IF text = <<>> THEN <<>>
             ELSE LET before == OpenBrackets[Front(text)]
                  IN  CASE Last(text) = "begin_array" -> Append(before, "ARRAY")
                        [] Last(text) = "begin_object" -> Append(before, "OBJECT")
                        [] Last(text) \in Closing -> Front(before)
                        [] OTHER -> before]
  BY <1>6, Zenon DEF OpenBrackets
<1>8. \A t \in Seq(Tokens) :
        OpenBrackets[t] = IF t = <<>> THEN <<>> ELSE Bracketed(OpenBrackets[Front(t)], Last(t))
  BY <1>7, Zenon DEF Bracketed
<1>9. OpenBrackets[<<>>] = <<>>
  BY <1>8, EmptySeq
<1>10. ASSUME NEW t \in Seq(Tokens), NEW e \in Tokens
       PROVE  OpenBrackets[Append(t, e)] = Bracketed(OpenBrackets[t], e)
  <2>1. Append(t, e) \in Seq(Tokens) /\ Append(t, e) # <<>> /\ Front(Append(t, e)) = t /\ Last(Append(t, e)) = e
    BY AppendedFrontAndLast
  <2> QED BY <1>8, <2>1
<1>11. OpenBrackets \in [Seq(Tokens) -> Seq(Kinds)]
  <2> DEFINE G == {t \in Seq(Tokens) : OpenBrackets[t] \in Seq(Kinds)}
  <2>1. <<>> \in G
    <3>1. <<>> \in Seq(Tokens) /\ <<>> \in Seq(Kinds)
      OBVIOUS
    <3>2. OpenBrackets[<<>>] \in Seq(Kinds)
      BY <1>9, <3>1, Zenon
    <3> QED BY <3>1, <3>2
  <2>2. ASSUME NEW t \in Seq(Tokens), NEW e \in Tokens, t \in G PROVE Append(t, e) \in G
    BY <1>10, <2>2, BracketedType, AppendProperties
  <2>3. Seq(Tokens) \subseteq G
    <3> HIDE DEF G
    <3> QED BY <2>1, <2>2, SequenceInduction
  <2>4. OpenBrackets = [t \in Seq(Tokens) |-> OpenBrackets[t]]
    BY <1>7, Zenon
  <2> QED BY <2>3, <2>4
<1> QED BY <1>9, <1>10, <1>11

-----------------------------------------------------------------------------
(* What each function of the writer does to it.                            *)

Separators == {<<>>, <<"comma">>}

LEMMA SeparatorsType ==
  /\ Separators \subseteq Seq(Tokens)
  /\ \A frame : Comma(frame) \in Separators /\ CommaOfRaw(frame) \in Separators
<1>1. "comma" \in Tokens
  BY DEF Tokens
<1>2. <<>> \in Seq(Tokens) /\ <<"comma">> \in Seq(Tokens)
  BY <1>1
<1> QED BY <1>2 DEF Separators, Comma, CommaOfRaw

\* Separator and token behind an output.
LEMMA SeparatedToken ==
  ASSUME NEW out \in Seq(Tokens), NEW sep \in Separators, NEW token \in Tokens
  PROVE  /\ sep \o <<token>> \in Seq(Tokens) /\ sep \o <<token>> # <<>>
         /\ out \o sep \in Seq(Tokens)
         /\ out \o (sep \o <<token>>) = Append(out \o sep, token)
         /\ OpenBrackets[out \o (sep \o <<token>>)] = Bracketed(OpenBrackets[out], token)
<1>1. sep \in Seq(Tokens)
  BY SeparatorsType
<1>2. Append(sep, token) = sep \o <<token>> /\ Append(sep, token) \in Seq(Tokens) /\ Append(sep, token) # <<>>
  BY <1>1, AppendIsConcat, AppendedFrontAndLast
<1>3. out \o sep \in Seq(Tokens) /\ out \o Append(sep, token) = Append(out \o sep, token)
  BY <1>1, ConcatAppend
<1>4. OpenBrackets[out \o sep] = OpenBrackets[out]
  <2>1. CASE sep = <<>>
    BY <2>1, ConcatEmptySeq
  <2>2. CASE sep = <<"comma">>
    <3>1. "comma" \in Tokens
      BY DEF Tokens
    <3>2. out \o sep = Append(out, "comma")
      BY <2>2, <3>1, AppendIsConcat
    <3>3. Bracketed(OpenBrackets[out], "comma") = OpenBrackets[out]
      BY DEF Bracketed, Closing
    <3> QED BY <3>1, <3>2, <3>3, OpenBracketsRecursion
  <2> QED BY <2>1, <2>2 DEF Separators
<1> QED BY <1>2, <1>3, <1>4, OpenBracketsRecursion

\* Separator, name and colon behind an output.
LEMMA SeparatedName ==
  ASSUME NEW out \in Seq(Tokens), NEW sep \in Separators
  PROVE  /\ sep \o <<"str", "colon">> \in Seq(Tokens) /\ sep \o <<"str", "colon">> # <<>>
         /\ out \o (sep \o <<"str", "colon">>) = Append(Append(out \o sep, "str"), "colon")
         /\ OpenBrackets[out \o (sep \o <<"str", "colon">>)] = OpenBrackets[out]
<1>1. "str" \in Tokens /\ "colon" \in Tokens
  BY DEF Tokens, Scalars
<1>2. sep \in Seq(Tokens)
  BY SeparatorsType
<1>3. <<"str">> \in Seq(Tokens) /\ <<"colon">> \in Seq(Tokens) /\ <<"str", "colon">> = <<"str">> \o <<"colon">>
  BY <1>1
<1> DEFINE a == sep \o <<"str">>
<1>4. a \in Seq(Tokens) /\ out \o a = Append(out \o sep, "str") /\ out \o sep \in Seq(Tokens)
      /\ OpenBrackets[out \o a] = Bracketed(OpenBrackets[out], "str")
  BY <1>1, SeparatedToken
<1>5. sep \o <<"str", "colon">> = a \o <<"colon">>
  BY <1>2, <1>3, ConcatAssociative
<1> HIDE DEF a
<1>6. Append(a, "colon") = a \o <<"colon">> /\ Append(a, "colon") \in Seq(Tokens) /\ Append(a, "colon") # <<>>
  BY <1>1, <1>4, AppendIsConcat, AppendedFrontAndLast
<1>7. out \o Append(a, "colon") = Append(out \o a, "colon") /\ out \o a \in Seq(Tokens)
  BY <1>1, <1>4, ConcatAppend
<1>8. OpenBrackets[Append(out \o a, "colon")] = Bracketed(OpenBrackets[out \o a], "colon")
  BY <1>1, <1>7, OpenBracketsRecursion
<1>9. \A open : Bracketed(open, "str") = open /\ Bracketed(open, "colon") = open
  BY DEF Bracketed, Closing
<1> QED BY <1>4, <1>5, <1>6, <1>7, <1>8, <1>9

\* Tokens reach the output, or an error is recorded.
Emitted(w, v, tokens) ==
    /\ v.has_buffer = w.has_buffer
    /\ IF w.has_buffer THEN v.last_error = w.last_error /\ v.out = w.out \o tokens
                       ELSE v.last_error = "ARGUMENT" /\ v.out = w.out

LEMMA EmitFacts ==
  ASSUME NEW w \in WriterType, NEW tokens \in Seq(Tokens), tokens # <<>>
  PROVE  /\ Emit(w, tokens) \in WriterType /\ Emit(w, tokens).frames = w.frames
         /\ Emitted(w, Emit(w, tokens), tokens)
<1>1. w.out \o tokens \in Seq(Tokens)
  BY ConcatProperties DEF WriterType
<1>2. CASE w.has_buffer
  <2> DEFINE o == w.out \o tokens
  <2>1. Emit(w, tokens) = [w EXCEPT !.out = o]
    BY <1>2 DEF Emit
  <2> HIDE DEF o
  <2>2. o \in Seq(Tokens)
    BY <1>1 DEF o
  <2>3. /\ Emit(w, tokens) \in WriterType /\ Emit(w, tokens).frames = w.frames
        /\ Emit(w, tokens).has_buffer = w.has_buffer /\ Emit(w, tokens).last_error = w.last_error
        /\ Emit(w, tokens).out = o
    BY <2>1, <2>2 DEF WriterType
  <2> QED BY <1>2, <2>3 DEF Emitted, o
<1>3. CASE ~w.has_buffer
  <2>1. Emit(w, tokens) = [w EXCEPT !.last_error = "ARGUMENT"]
    BY <1>3 DEF Emit, Failed
  <2>2. /\ Emit(w, tokens) \in WriterType /\ Emit(w, tokens).frames = w.frames
        /\ Emit(w, tokens).has_buffer = w.has_buffer /\ Emit(w, tokens).last_error = "ARGUMENT"
        /\ Emit(w, tokens).out = w.out
    BY <2>1 DEF WriterType, Errors
  <2> QED BY <1>3, <2>2 DEF Emitted
<1> QED BY <1>2, <1>3

LEMMA SetFrameFacts ==
  ASSUME NEW w \in WriterType, NEW i,
         NEW frame, i \in 1..Len(w.frames) => frame \in Frame,
         NEW v, v = SetFrame(w, i, frame)
  PROVE  /\ v \in WriterType
         /\ Len(v.frames) = Len(w.frames)
         /\ \A j \in 1..Len(w.frames) : j # i => v.frames[j] = w.frames[j]
         /\ i \in 1..Len(w.frames) => v.frames[i] = frame
         /\ v.last_error = w.last_error
         /\ v.has_buffer = w.has_buffer
         /\ v.out = w.out
<1> DEFINE f == [w.frames EXCEPT ![i] = frame]
<1>1. w.frames \in Seq(Frame) /\ Len(w.frames) \in Nat /\ DOMAIN w.frames = 1..Len(w.frames)
      /\ \A j \in 1..Len(w.frames) : w.frames[j] \in Frame
  BY LenProperties, ElementOfSeq DEF WriterType
<1>2. f = [j \in 1..Len(w.frames) |-> IF j = i THEN frame ELSE w.frames[j]]
  BY <1>1
<1>3. f \in Seq(Frame) /\ Len(f) = Len(w.frames) /\ \A j \in 1..Len(w.frames) : f[j] = IF j = i THEN frame ELSE w.frames[j]
  <2>1. \A j \in 1..Len(w.frames) : (IF j = i THEN frame ELSE w.frames[j]) \in Frame
    BY <1>1
  <2>2. f \in [1..Len(w.frames) -> Frame]
    BY <1>2, <2>1
  <2>3. DOMAIN f = 1..Len(w.frames)
    BY <1>2
  <2> HIDE DEF f
  <2>4. f \in Seq(Frame)
    BY <1>1, <2>2
  <2>5. Len(f) = Len(w.frames)
    BY <1>1, <2>3, <2>4, LenProperties
  <2> QED BY <1>2, <2>4, <2>5
<1>4. v = [w EXCEPT !.frames = f]
  BY DEF SetFrame
<1> HIDE DEF f
<1>5. /\ v \in WriterType /\ v.frames = f
      /\ v.last_error = w.last_error
      /\ v.has_buffer = w.has_buffer
      /\ v.out = w.out
  BY <1>3, <1>4 DEF WriterType
<1> QED BY <1>3, <1>5

LEMMA FailedFacts ==
  ASSUME NEW w \in WriterType, NEW error \in Errors
  PROVE  /\ Failed(w, error) \in WriterType /\ Failed(w, error).frames = w.frames
         /\ Failed(w, error).last_error = error /\ error # "SUCCESS"
         /\ Failed(w, error).has_buffer = w.has_buffer /\ Failed(w, error).out = w.out
BY DEF Failed, WriterType, Errors

LEMMA FramesFacts ==
  ASSUME NEW w \in WriterType, w.frames # <<>>
  PROVE  /\ w.frames \in Seq(Frame) /\ Len(w.frames) \in Nat \ {0}
         /\ \A j \in 1..Len(w.frames) : w.frames[j] \in Frame
         /\ Top(w) = w.frames[Len(w.frames)] /\ Top(w) \in Frame
         /\ w.last_error \in {"SUCCESS"} \cup Errors /\ w.has_buffer \in BOOLEAN /\ w.out \in Seq(Tokens)
<1>1. w.frames \in Seq(Frame) /\ w.last_error \in {"SUCCESS"} \cup Errors /\ w.has_buffer \in BOOLEAN
      /\ w.out \in Seq(Tokens)
  BY DEF WriterType
<1>2. Len(w.frames) \in Nat \ {0}
  BY <1>1, EmptySeq
<1>3. \A j \in 1..Len(w.frames) : w.frames[j] \in Frame
  BY <1>1, ElementOfSeq
<1> QED BY <1>1, <1>2, <1>3 DEF Top

LEMMA WrittenFacts ==
  ASSUME NEW frame \in Frame
  PROVE  /\ Written(frame) \in Frame /\ Written(frame).context = frame.context
         /\ Written(frame).item_count = frame.item_count + 1
         /\ Written(frame).expect_value = (frame.context = "ARRAY")
<1> DEFINE b == frame.context = "ARRAY"
           c == frame.item_count + 1
<1>1. b \in BOOLEAN /\ c \in Nat
  BY DEF Frame
<1>2. Written(frame) = [frame EXCEPT !.item_count = c, !.expect_value = b]
  BY DEF Written, Frame
<1> HIDE DEF b, c
<1>3. /\ Written(frame) \in Frame /\ Written(frame).context = frame.context
      /\ Written(frame).item_count = c /\ Written(frame).expect_value = b
  BY <1>1, <1>2 DEF Frame
<1> QED BY <1>3 DEF b, c

\* The innermost frame is replaced and tokens are written.
LEMMA ReplaceFacts ==
  ASSUME NEW w \in WriterType, w.frames # <<>>, NEW frame \in Frame,
         NEW tokens \in Seq(Tokens), tokens # <<>>,
         NEW v, v = SetTop(Emit(w, tokens), frame)
  PROVE  /\ v \in WriterType /\ Len(v.frames) = Len(w.frames)
         /\ \A j \in 1..Len(w.frames) - 1 : v.frames[j] = w.frames[j]
         /\ v.frames[Len(w.frames)] = frame
         /\ Emitted(w, v, tokens)
<1> DEFINE u == Emit(w, tokens)
           n == Len(w.frames)
<1>1. u \in WriterType /\ u.frames = w.frames /\ Emitted(w, u, tokens)
  BY EmitFacts
<1>2. n \in Nat \ {0}
  BY FramesFacts
<1>3. v = SetFrame(u, n, frame)
  BY <1>1 DEF SetTop
<1> HIDE DEF u
<1>4. /\ v \in WriterType /\ Len(v.frames) = n
      /\ \A j \in 1..n : v.frames[j] = IF j = n THEN frame ELSE w.frames[j]
      /\ v.last_error = u.last_error /\ v.has_buffer = u.has_buffer /\ v.out = u.out
  <2>1. Len(u.frames) = n /\ n \in Nat
    BY <1>1, <1>2
  <2> HIDE DEF n
  <2>2. /\ v \in WriterType /\ Len(v.frames) = Len(u.frames)
        /\ \A j \in 1..Len(u.frames) : j # n => v.frames[j] = u.frames[j]
        /\ n \in 1..Len(u.frames) => v.frames[n] = frame
        /\ v.last_error = u.last_error /\ v.has_buffer = u.has_buffer /\ v.out = u.out
    <3>1. u \in WriterType /\ n \in Nat /\ frame \in Frame
      BY <1>1, <2>1
    <3> QED BY ONLY <1>3, <3>1, SetFrameFacts
  <2> QED BY <1>1, <2>1, <2>2
<1>5. \A j \in 1..n - 1 : j \in 1..n /\ j # n
  BY <1>2
<1>6. n \in 1..n
  BY <1>2
<1>7. Emitted(w, v, tokens)
  BY <1>1, <1>4 DEF Emitted
<1> HIDE DEF n
<1>8. (\A j \in 1..n - 1 : v.frames[j] = w.frames[j]) /\ v.frames[n] = frame
  BY <1>4, <1>5, <1>6
<1> QED BY <1>4, <1>7, <1>8 DEF n

LEMMA WriteValueFacts ==
  ASSUME NEW w \in WriterType, w.frames # <<>>, can_write(Top(w)),
         NEW sep \in Separators, NEW token \in Tokens,
         NEW v, v = write_value(w, sep, token)
  PROVE  /\ v \in WriterType /\ Len(v.frames) = Len(w.frames)
         /\ \A j \in 1..Len(w.frames) - 1 : v.frames[j] = w.frames[j]
         /\ v.frames[Len(w.frames)] = Written(Top(w))
         /\ Emitted(w, v, sep \o <<token>>)
<1>1. Written(Top(w)) \in Frame
  BY FramesFacts, WrittenFacts
<1>2. sep \o <<token>> \in Seq(Tokens) /\ sep \o <<token>> # <<>>
  BY SeparatedToken, EmptySeq
<1>3. v = SetTop(Emit(w, sep \o <<token>>), Written(Top(w)))
  BY DEF write_value
<1> QED BY <1>1, <1>2, <1>3, ReplaceFacts

LEMMA WriteNameFacts ==
  ASSUME NEW w \in WriterType, w.frames # <<>>, Top(w).context = "OBJECT",
         NEW v, v = write_property_name(w)
  PROVE  /\ v \in WriterType /\ Len(v.frames) = Len(w.frames)
         /\ \A j \in 1..Len(w.frames) - 1 : v.frames[j] = w.frames[j]
         /\ v.frames[Len(w.frames)] \in Frame
         /\ v.frames[Len(w.frames)].context = "OBJECT" /\ v.frames[Len(w.frames)].expect_value
         /\ v.frames[Len(w.frames)].item_count = Top(w).item_count
         /\ Emitted(w, v, CommaOfRaw(Top(w)) \o <<"str", "colon">>)
<1> DEFINE frame == [Top(w) EXCEPT !.expect_value = TRUE]
           sep == CommaOfRaw(Top(w))
<1>1. frame \in Frame /\ frame.context = "OBJECT" /\ frame.expect_value /\ frame.item_count = Top(w).item_count
  BY FramesFacts DEF Frame
<1>2. sep \in Separators
  BY SeparatorsType
<1>3. v = SetTop(Emit(w, sep \o <<"str", "colon">>), frame)
  BY DEF write_property_name
<1> HIDE DEF frame, sep
<1>4. sep \o <<"str", "colon">> \in Seq(Tokens) /\ sep \o <<"str", "colon">> # <<>>
  BY <1>2, SeparatedName, EmptySeq
<1>5. /\ v \in WriterType /\ Len(v.frames) = Len(w.frames)
      /\ \A j \in 1..Len(w.frames) - 1 : v.frames[j] = w.frames[j]
      /\ v.frames[Len(w.frames)] = frame
      /\ Emitted(w, v, sep \o <<"str", "colon">>)
  BY <1>1, <1>3, <1>4, ReplaceFacts
<1> QED BY <1>1, <1>5 DEF sep

\* A container that is not opened.
Refused(w) ==
    \/ depth(w) >= MAX_JSON_DEPTH - 1
    \/ Top(w).context = "OBJECT" /\ ~Top(w).expect_value

LEMMA NewFrameFacts ==
  ASSUME NEW kind \in Contexts
  PROVE  /\ NewFrame(kind) \in Frame /\ NewFrame(kind).context = kind
         /\ NewFrame(kind).item_count = 0 /\ NewFrame(kind).expect_value = (kind = "ARRAY")
BY DEF NewFrame, Frame

LEMMA OpenFacts ==
  ASSUME NEW w \in WriterType, w.frames # <<>>, NEW kind \in Kinds, NEW sep \in Separators,
         NEW v, v = push_context(Emit(w, sep \o <<OpenOf(kind)>>), kind)
  PROVE  /\ v \in WriterType /\ v.has_buffer = w.has_buffer
         /\ Refused(w) => v.frames = w.frames /\ v.last_error # "SUCCESS"
         /\ ~Refused(w) => /\ Len(v.frames) = Len(w.frames) + 1
                           /\ \A j \in 1..Len(w.frames) : v.frames[j] = w.frames[j]
                           /\ v.frames[Len(w.frames) + 1] = NewFrame(kind)
                           /\ Emitted(w, v, sep \o <<OpenOf(kind)>>)
<1> DEFINE tokens == sep \o <<OpenOf(kind)>>
           u == Emit(w, tokens)
<1>1. OpenOf(kind) \in Tokens
  BY DEF OpenOf, Tokens, Opening
<1>2. tokens \in Seq(Tokens) /\ tokens # <<>>
  BY <1>1, SeparatedToken, EmptySeq
<1>3. v = push_context(u, kind)
  OBVIOUS
<1> HIDE DEF tokens
<1>4. u \in WriterType /\ u.frames = w.frames /\ Emitted(w, u, tokens)
  BY <1>2, EmitFacts
<1> HIDE DEF u
<1>5. Refused(w) <=> Refused(u)
  BY <1>4 DEF Refused, depth, Top
<1>6. CASE Refused(w)
  <2>1. v = Failed(u, "ENCODING")
    BY <1>3, <1>5, <1>6 DEF push_context, Refused
  <2>2. "ENCODING" \in Errors
    BY DEF Errors
  <2>3. v \in WriterType /\ v.frames = w.frames /\ v.last_error # "SUCCESS" /\ v.has_buffer = u.has_buffer
    BY <1>4, <2>1, <2>2, FailedFacts
  <2> QED BY <1>4, <1>6, <2>3 DEF Emitted
<1>7. CASE ~Refused(w)
  <2> DEFINE f == Append(w.frames, NewFrame(kind))
  <2>1. v = [u EXCEPT !.frames = f]
    BY <1>3, <1>4, <1>5, <1>7 DEF push_context, Refused
  <2>2. NewFrame(kind) \in Frame /\ w.frames \in Seq(Frame)
    BY NewFrameFacts, FramesFacts DEF Kinds, Contexts
  <2>3. f \in Seq(Frame) /\ Len(f) = Len(w.frames) + 1 /\ (\A j \in 1..Len(w.frames) : f[j] = w.frames[j])
        /\ f[Len(w.frames) + 1] = NewFrame(kind)
    BY <2>2, AppendProperties
  <2> HIDE DEF f
  <2>4. v \in WriterType /\ v.frames = f /\ v.last_error = u.last_error /\ v.has_buffer = u.has_buffer /\ v.out = u.out
    BY <1>4, <2>1, <2>3 DEF WriterType
  <2>5. Emitted(w, v, tokens) /\ v.has_buffer = w.has_buffer
    BY <1>4, <2>4 DEF Emitted
  <2> QED BY <1>7, <2>3, <2>4, <2>5 DEF tokens
<1> QED BY <1>6, <1>7

\* The end of a container.
LEMMA CloseFacts ==
  ASSUME NEW w \in WriterType, w.frames # <<>>, Len(w.frames) # 1, NEW kind \in Kinds, Top(w).context = kind,
         NEW token \in Tokens, NEW v, v = write_end(w, kind, token)
  PROVE  /\ v \in WriterType /\ Len(v.frames) = Len(w.frames) - 1
         /\ \A j \in 1..Len(w.frames) - 2 : v.frames[j] = w.frames[j]
         /\ v.frames[Len(w.frames) - 1] \in Frame
         /\ v.frames[Len(w.frames) - 1].context = w.frames[Len(w.frames) - 1].context
         /\ v.frames[Len(w.frames) - 1].expect_value = w.frames[Len(w.frames) - 1].expect_value
         /\ v.frames[Len(w.frames) - 1].item_count = w.frames[Len(w.frames) - 1].item_count + 1
         /\ Emitted(w, v, <<token>>)
<1> DEFINE n == Len(w.frames) - 1
           p == pop_context(w)
           frame == [w.frames[n] EXCEPT !.item_count = @ + 1]
<1>1. w.frames \in Seq(Frame) /\ Len(w.frames) \in Nat \ {0, 1} /\ \A j \in 1..Len(w.frames) : w.frames[j] \in Frame
  BY FramesFacts
<1>2. n \in Nat \ {0} /\ n \in 0..Len(w.frames) /\ n \in 1..Len(w.frames) /\ n - 1 = Len(w.frames) - 2
      /\ \A j \in 1..n - 1 : j \in 1..n
  <2> DEFINE m == Len(w.frames)
  <2>1. m \in Nat \ {0, 1} /\ n = m - 1
    BY <1>1
  <2> HIDE DEF m, n
  <2>2. n \in Nat \ {0} /\ n \in 0..m /\ n \in 1..m /\ n - 1 = m - 2 /\ \A j \in 1..n - 1 : j \in 1..n
    BY <2>1
  <2> QED BY <2>2 DEF m
<1>3. p \in WriterType /\ p.frames = SubSeq(w.frames, 1, n) /\ p.last_error = w.last_error
      /\ p.has_buffer = w.has_buffer /\ p.out = w.out
  <2> DEFINE f == SubSeq(w.frames, 1, n)
  <2>1. f \in Seq(Frame)
    BY <1>1, <1>2, Prefix
  <2>2. p = [w EXCEPT !.frames = f]
    BY DEF pop_context
  <2> HIDE DEF f
  <2>3. p \in WriterType /\ p.frames = f /\ p.last_error = w.last_error
      /\ p.has_buffer = w.has_buffer /\ p.out = w.out
    BY <2>1, <2>2 DEF WriterType
  <2> QED BY <2>3 DEF f
<1> HIDE DEF n
<1>4. Len(p.frames) = n /\ \A j \in 1..n : p.frames[j] = w.frames[j]
  BY <1>1, <1>2, <1>3, Prefix
<1>5. p.frames # <<>> /\ p.frames \in Seq(Frame)
  BY <1>2, <1>3, <1>4 DEF WriterType
<1>6. w.frames[n] \in Frame
  BY <1>1, <1>2
<1>7. frame \in Frame /\ frame.context = w.frames[n].context /\ frame.expect_value = w.frames[n].expect_value
      /\ frame.item_count = w.frames[n].item_count + 1
  BY <1>6 DEF Frame
<1>8. <<token>> \in Seq(Tokens) /\ <<token>> # <<>>
  OBVIOUS
<1>9. v = SetTop(Emit(p, <<token>>), frame)
  <2>1. Emit(p, <<token>>).frames = p.frames
    BY <1>3, <1>8, EmitFacts
  <2>2. Top(Emit(p, <<token>>)) = w.frames[n]
    BY <1>2, <1>4, <2>1 DEF Top
  <2>3. v = SetTop(Emit(p, <<token>>), [Top(Emit(p, <<token>>)) EXCEPT !.item_count = @ + 1])
    BY DEF write_end
  <2> QED BY <2>2, <2>3
<1> HIDE DEF p, frame
<1>10. /\ v \in WriterType /\ Len(v.frames) = n
       /\ \A j \in 1..n - 1 : v.frames[j] = p.frames[j]
       /\ v.frames[n] = frame
       /\ Emitted(p, v, <<token>>)
  <2> DEFINE tokens == <<token>>
  <2>1. tokens \in Seq(Tokens) /\ tokens # <<>> /\ v = SetTop(Emit(p, tokens), frame)
    BY <1>8, <1>9
  <2> HIDE DEF tokens
  <2>2. /\ v \in WriterType /\ Len(v.frames) = Len(p.frames)
        /\ \A j \in 1..Len(p.frames) - 1 : v.frames[j] = p.frames[j]
        /\ v.frames[Len(p.frames)] = frame
        /\ Emitted(p, v, tokens)
    BY <1>3, <1>5, <1>7, <2>1, ReplaceFacts
  <2> QED BY <1>4, <2>2 DEF tokens
<1>11. Emitted(w, v, <<token>>)
  BY <1>3, <1>10 DEF Emitted
<1>12. \A j \in 1..n - 1 : v.frames[j] = w.frames[j]
  BY <1>2, <1>4, <1>10
<1> QED BY <1>2, <1>7, <1>10, <1>11, <1>12 DEF n

-----------------------------------------------------------------------------
(* Whatever is called, the frames are the open brackets of the output.     *)

\* The stack of frames: the root first and nowhere else, never too deep.
Shaped(w) ==
    /\ w \in WriterType
    /\ Len(w.frames) \in 1..MAX_JSON_DEPTH
    /\ \A i \in 1..Len(w.frames) : w.frames[i].context = "ROOT" <=> i = 1
    /\ ~w.frames[1].expect_value

Balanced(w) ==
    w.last_error = "SUCCESS" =>
        /\ Len(OpenBrackets[w.out]) = Len(w.frames) - 1
        /\ \A i \in 2..Len(w.frames) : OpenBrackets[w.out][i - 1] = w.frames[i].context

Sound(w) == Shaped(w) /\ Balanced(w)

LEMMA ShapedFacts ==
  ASSUME NEW w, Shaped(w)
  PROVE  /\ w \in WriterType /\ w.frames # <<>> /\ Len(w.frames) \in Nat \ {0}
         /\ w.frames \in Seq(Frame)
         /\ \A i \in 1..Len(w.frames) : w.frames[i] \in Frame
         /\ \A i \in 2..Len(w.frames) : w.frames[i].context \in Kinds
         /\ Top(w) = w.frames[Len(w.frames)] /\ Top(w) \in Frame
         /\ w.last_error \in {"SUCCESS"} \cup Errors /\ w.has_buffer \in BOOLEAN /\ w.out \in Seq(Tokens)
         /\ MAX_JSON_DEPTH \in Nat
<1>1. w \in WriterType /\ Len(w.frames) \in 1..MAX_JSON_DEPTH /\ MAX_JSON_DEPTH \in Nat
  BY DepthAssumption DEF Shaped
<1>2. w.frames \in Seq(Frame)
  BY <1>1 DEF WriterType
<1>3. w.frames # <<>>
  <2>1. Len(w.frames) # 0
    BY <1>1
  <2> QED BY <1>2, <2>1, EmptySeq
<1>4. /\ w.frames \in Seq(Frame) /\ Len(w.frames) \in Nat \ {0}
      /\ \A j \in 1..Len(w.frames) : w.frames[j] \in Frame
      /\ Top(w) = w.frames[Len(w.frames)] /\ Top(w) \in Frame
      /\ w.last_error \in {"SUCCESS"} \cup Errors /\ w.has_buffer \in BOOLEAN /\ w.out \in Seq(Tokens)
  BY <1>1, <1>3, FramesFacts
<1>5. ASSUME NEW i \in 2..Len(w.frames) PROVE w.frames[i].context \in Kinds
  <2>1. i \in 1..Len(w.frames) /\ i # 1
    BY <1>4
  <2>2. w.frames[i].context # "ROOT" /\ w.frames[i] \in Frame
    BY <1>4, <2>1 DEF Shaped
  <2> QED BY <2>2 DEF Frame, Contexts, Kinds
<1> QED BY <1>1, <1>3, <1>4, <1>5

LEMMA OpenBracketsType ==
  ASSUME NEW t \in Seq(Tokens)
  PROVE  OpenBrackets[t] \in Seq(Kinds) /\ Len(OpenBrackets[t]) \in Nat
<1>1. OpenBrackets[t] \in Seq(Kinds)
  BY OpenBracketsRecursion
<1> QED BY <1>1, LenProperties

LEMMA SoundFailed ==
  ASSUME NEW w, Shaped(w), NEW error \in Errors
  PROVE  Sound(Failed(w, error))
<1>1. w \in WriterType
  BY ShapedFacts
<1>2. /\ Failed(w, error) \in WriterType /\ Failed(w, error).frames = w.frames
      /\ Failed(w, error).last_error # "SUCCESS"
  BY <1>1, FailedFacts
<1> QED BY <1>2 DEF Sound, Shaped, Balanced

\* The innermost frame changes, the context it has does not.
LEMMA SoundReplaced ==
  ASSUME NEW w, Sound(w), NEW v \in WriterType, Len(v.frames) = Len(w.frames),
         \A j \in 1..Len(w.frames) : v.frames[j].context = w.frames[j].context,
         ~v.frames[1].expect_value,
         v.last_error = "SUCCESS" => w.last_error = "SUCCESS" /\ OpenBrackets[v.out] = OpenBrackets[w.out]
  PROVE  Sound(v)
<1>1. Len(w.frames) \in Nat \ {0}
  BY ShapedFacts DEF Sound
<1>2. Shaped(v)
  BY DEF Sound, Shaped
<1>3. \A i \in 2..Len(w.frames) : i \in 1..Len(w.frames)
  BY <1>1
<1>4. Balanced(v)
  BY <1>1, <1>3 DEF Sound, Balanced
<1> QED BY <1>2, <1>4 DEF Sound

LEMMA SoundOpened ==
  ASSUME NEW w, Sound(w), NEW v \in WriterType, NEW kind \in Kinds,
         Len(v.frames) = Len(w.frames) + 1, Len(w.frames) < MAX_JSON_DEPTH,
         \A j \in 1..Len(w.frames) : v.frames[j] = w.frames[j],
         v.frames[Len(w.frames) + 1] = NewFrame(kind),
         v.last_error = "SUCCESS" => w.last_error = "SUCCESS" /\ OpenBrackets[v.out] = Append(OpenBrackets[w.out], kind)
  PROVE  Sound(v)
<1> DEFINE n == Len(w.frames)
<1>1. n \in Nat \ {0} /\ MAX_JSON_DEPTH \in Nat /\ w.out \in Seq(Tokens)
  BY ShapedFacts DEF Sound
<1>2. v.frames[n + 1].context = kind /\ kind # "ROOT"
  BY NewFrameFacts DEF Kinds, Contexts
<1>3. Shaped(w) /\ Balanced(w)
  BY DEF Sound
<1>4. Len(v.frames) = n + 1 /\ (\A j \in 1..n : v.frames[j] = w.frames[j]) /\ n < MAX_JSON_DEPTH
  OBVIOUS
<1>5. (\A i \in 1..n : w.frames[i].context = "ROOT" <=> i = 1) /\ ~w.frames[1].expect_value
  BY <1>3 DEF Shaped
<1>6. w.last_error = "SUCCESS" => Len(OpenBrackets[w.out]) = n - 1 /\ \A i \in 2..n : OpenBrackets[w.out][i - 1] = w.frames[i].context
  BY <1>3 DEF Balanced
<1> HIDE DEF n
<1>7. Shaped(v)
  <2>1. Len(v.frames) \in 1..MAX_JSON_DEPTH
    BY <1>1, <1>4
  <2>2. ASSUME NEW i \in 1..n + 1 PROVE v.frames[i].context = "ROOT" <=> i = 1
    <3>1. CASE i = n + 1
      BY <1>1, <1>2, <3>1
    <3>2. CASE i # n + 1
      <4>1. i \in 1..n
        BY <1>1, <3>2
      <4> QED BY <1>4, <1>5, <4>1
    <3> QED BY <3>1, <3>2
  <2>3. v.frames[1] = w.frames[1]
    BY <1>1, <1>4
  <2> QED BY <1>4, <1>5, <2>1, <2>2, <2>3 DEF Shaped
<1>8. Balanced(v)
  <2> SUFFICES ASSUME v.last_error = "SUCCESS"
               PROVE  /\ Len(OpenBrackets[v.out]) = n
                      /\ \A i \in 2..n + 1 : OpenBrackets[v.out][i - 1] = v.frames[i].context
    BY <1>1, <1>4 DEF Balanced
  <2> DEFINE o == OpenBrackets[w.out]
  <2>1. o \in Seq(Kinds) /\ Len(o) = n - 1 /\ OpenBrackets[v.out] = Append(o, kind)
    BY <1>1, <1>6, OpenBracketsType
  <2>2. \A i \in 2..n : o[i - 1] = w.frames[i].context
    BY <1>6
  <2> HIDE DEF o
  <2>3. Len(Append(o, kind)) = Len(o) + 1 /\ (\A i \in 1..Len(o) : Append(o, kind)[i] = o[i]) /\ Append(o, kind)[Len(o) + 1] = kind
    BY <2>1, AppendProperties
  <2>4. Len(Append(o, kind)) = n /\ (\A i \in 1..n - 1 : Append(o, kind)[i] = o[i]) /\ Append(o, kind)[n] = kind
    BY <1>1, <2>1, <2>3
  <2>5. ASSUME NEW i \in 2..n + 1 PROVE Append(o, kind)[i - 1] = v.frames[i].context
    <3>1. CASE i = n + 1
      BY <1>1, <1>2, <2>4, <3>1
    <3>2. CASE i # n + 1
      <4>1. i \in 1..n /\ i \in 2..n /\ i - 1 \in 1..n - 1
        BY <1>1, <3>2
      <4> QED BY <1>4, <2>2, <2>4, <4>1
    <3> QED BY <3>1, <3>2
  <2> QED BY <2>1, <2>4, <2>5
<1> QED BY <1>7, <1>8 DEF Sound

LEMMA SoundClosed ==
  ASSUME NEW w, Sound(w), Len(w.frames) # 1, NEW v \in WriterType,
         Len(v.frames) = Len(w.frames) - 1,
         \A j \in 1..Len(w.frames) - 1 : /\ v.frames[j].context = w.frames[j].context
                                         /\ v.frames[j].expect_value = w.frames[j].expect_value,
         v.last_error = "SUCCESS" => w.last_error = "SUCCESS" /\ OpenBrackets[v.out] = Front(OpenBrackets[w.out])
  PROVE  Sound(v)
<1> DEFINE n == Len(w.frames)
<1>1. n \in Nat \ {0} /\ MAX_JSON_DEPTH \in Nat /\ w.out \in Seq(Tokens)
  BY ShapedFacts DEF Sound
<1>2. n # 1 /\ Len(v.frames) = n - 1 /\ \A j \in 1..n - 1 : /\ v.frames[j].context = w.frames[j].context
                                                            /\ v.frames[j].expect_value = w.frames[j].expect_value
  OBVIOUS
<1>3. Shaped(w) /\ Balanced(w)
  BY DEF Sound
<1>4. (\A i \in 1..n : w.frames[i].context = "ROOT" <=> i = 1) /\ ~w.frames[1].expect_value /\ n \in 1..MAX_JSON_DEPTH
  BY <1>3 DEF Shaped
<1>5. w.last_error = "SUCCESS" => Len(OpenBrackets[w.out]) = n - 1 /\ \A i \in 2..n : OpenBrackets[w.out][i - 1] = w.frames[i].context
  BY <1>3 DEF Balanced
<1> HIDE DEF n
<1>6. n - 1 \in 1..MAX_JSON_DEPTH /\ 1 \in 1..n - 1 /\ \A i \in 1..n - 1 : i \in 1..n
  BY <1>1, <1>2, <1>4
<1>7. Shaped(v)
  BY <1>2, <1>4, <1>6 DEF Shaped
<1>8. Balanced(v)
  <2>0. Len(v.frames) = n - 1 /\ Len(v.frames) - 1 = n - 2
    BY <1>1, <1>2
  <2> SUFFICES ASSUME v.last_error = "SUCCESS"
               PROVE  /\ Len(OpenBrackets[v.out]) = n - 2
                      /\ \A i \in 2..n - 1 : OpenBrackets[v.out][i - 1] = v.frames[i].context
    BY <2>0, Zenon DEF Balanced
  <2> DEFINE o == OpenBrackets[w.out]
  <2>1. o \in Seq(Kinds) /\ Len(o) = n - 1 /\ OpenBrackets[v.out] = Front(o)
    BY <1>1, <1>5, OpenBracketsType
  <2>2. \A i \in 2..n : o[i - 1] = w.frames[i].context
    BY <1>5
  <2> HIDE DEF o
  <2>3. n - 2 \in 0..Len(o) /\ Len(o) - 1 = n - 2
    BY <1>1, <1>2, <2>1
  <2>4. Front(o) = SubSeq(o, 1, n - 2)
    BY <2>3 DEF Front
  <2>5. Len(Front(o)) = n - 2 /\ \A i \in 1..n - 2 : Front(o)[i] = o[i]
    BY <2>1, <2>3, <2>4, Prefix
  <2>6. \A i \in 2..n - 1 : i \in 2..n /\ i \in 1..n - 1 /\ i - 1 \in 1..n - 2
    BY <1>1
  <2> QED BY <1>2, <2>1, <2>2, <2>5, <2>6
<1> QED BY <1>7, <1>8 DEF Sound

LEMMA EmittedFacts ==
  ASSUME NEW w, NEW v, NEW tokens, Emitted(w, v, tokens), w.last_error = "SUCCESS", v.last_error = "SUCCESS"
  PROVE  w.has_buffer /\ v.out = w.out \o tokens
BY DEF Emitted

LEMMA SoundValue ==
  ASSUME NEW w, Sound(w), w.last_error = "SUCCESS", NEW sep \in Separators, NEW token \in {"str", "lit", "raw"}
  PROVE  Sound(write_value(w, sep, token))
<1> DEFINE v == write_value(w, sep, token)
           n == Len(w.frames)
<1>1. Shaped(w) /\ "ENCODING" \in Errors /\ token \in Tokens
  BY DEF Sound, Errors, Tokens, Scalars
<1>2. w \in WriterType /\ w.frames # <<>> /\ Top(w) = w.frames[n] /\ Top(w) \in Frame /\ w.out \in Seq(Tokens)
      /\ n \in Nat \ {0}
  BY <1>1, ShapedFacts
<1>3. CASE ~can_write(Top(w))
  BY <1>1, <1>3, SoundFailed DEF write_value
<1>4. CASE can_write(Top(w))
  <2>1. /\ v \in WriterType /\ Len(v.frames) = n
        /\ \A j \in 1..n - 1 : v.frames[j] = w.frames[j]
        /\ v.frames[n] = Written(Top(w))
        /\ Emitted(w, v, sep \o <<token>>)
    BY <1>1, <1>2, <1>4, WriteValueFacts
  <2>2. Written(Top(w)).context = Top(w).context /\ Written(Top(w)).expect_value = (Top(w).context = "ARRAY")
    BY <1>2, WrittenFacts
  <2>3. w.frames[1].context = "ROOT" /\ ~w.frames[1].expect_value
    BY <1>1, <1>2 DEF Shaped
  <2>4. v.last_error = "SUCCESS" => OpenBrackets[v.out] = OpenBrackets[w.out]
    <3>1. OpenBrackets[w.out \o (sep \o <<token>>)] = Bracketed(OpenBrackets[w.out], token)
      BY <1>1, <1>2, SeparatedToken
    <3>2. Bracketed(OpenBrackets[w.out], token) = OpenBrackets[w.out]
      BY DEF Bracketed, Closing
    <3> DEFINE tokens == sep \o <<token>>
    <3>3. Emitted(w, v, tokens) /\ OpenBrackets[w.out \o tokens] = OpenBrackets[w.out]
      BY <2>1, <3>1, <3>2
    <3> HIDE DEF tokens, v
    <3> QED BY <3>3, EmittedFacts
  <2> HIDE DEF v, n
  <2>5. \A j \in 1..n : j = n \/ j \in 1..n - 1
    BY <1>2
  <2>6. \A j \in 1..n : v.frames[j].context = w.frames[j].context
    BY <1>2, <2>1, <2>2, <2>5
  <2>7. ~v.frames[1].expect_value
    <3>1. CASE n = 1
      BY <1>2, <2>1, <2>2, <2>3, <3>1
    <3>2. CASE n # 1
      <4>1. 1 \in 1..n - 1
        BY <1>2, <3>2
      <4> QED BY <2>1, <2>3, <4>1
    <3> QED BY <3>1, <3>2
  <2>8. Sound(v)
    BY <2>1, <2>4, <2>6, <2>7, SoundReplaced DEF n
  <2> QED BY <2>8 DEF v
<1> QED BY <1>3, <1>4

LEMMA SoundName ==
  ASSUME NEW w, Sound(w), w.last_error = "SUCCESS"
  PROVE  Sound(write_property_name(w))
<1> DEFINE v == write_property_name(w)
           n == Len(w.frames)
           sep == CommaOfRaw(Top(w))
<1>1. Shaped(w) /\ "ENCODING" \in Errors
  BY DEF Sound, Errors
<1>2. w \in WriterType /\ w.frames # <<>> /\ Top(w) = w.frames[n] /\ Top(w) \in Frame /\ w.out \in Seq(Tokens)
      /\ n \in Nat \ {0}
  BY <1>1, ShapedFacts
<1>3. CASE Top(w).context # "OBJECT"
  BY <1>1, <1>3, SoundFailed DEF write_property_name
<1>4. CASE Top(w).context = "OBJECT"
  <2>1. /\ v \in WriterType /\ Len(v.frames) = n
        /\ \A j \in 1..n - 1 : v.frames[j] = w.frames[j]
        /\ v.frames[n].context = "OBJECT"
        /\ Emitted(w, v, sep \o <<"str", "colon">>)
    BY <1>2, <1>4, WriteNameFacts
  <2>2. w.frames[1].context = "ROOT" /\ ~w.frames[1].expect_value
    BY <1>1, <1>2 DEF Shaped
  <2>3. v.last_error = "SUCCESS" => OpenBrackets[v.out] = OpenBrackets[w.out]
    <3> DEFINE tokens == sep \o <<"str", "colon">>
    <3>1. Emitted(w, v, tokens) /\ OpenBrackets[w.out \o tokens] = OpenBrackets[w.out]
      BY <1>2, <2>1, SeparatedName, SeparatorsType
    <3> HIDE DEF tokens, v
    <3> QED BY <3>1, EmittedFacts
  <2> HIDE DEF v, n
  <2>4. \A j \in 1..n : j = n \/ j \in 1..n - 1
    BY <1>2
  <2>5. \A j \in 1..n : v.frames[j].context = w.frames[j].context
    BY <1>2, <1>4, <2>1, <2>4
  <2>6. 1 \in 1..n - 1
    BY <1>2, <1>4, <2>2
  <2>7. ~v.frames[1].expect_value
    BY <2>1, <2>2, <2>6
  <2>8. Sound(v)
    BY <2>1, <2>3, <2>5, <2>7, SoundReplaced DEF n
  <2> QED BY <2>8 DEF v
<1> QED BY <1>3, <1>4

LEMMA SoundPush ==
  ASSUME NEW w, Sound(w), w.last_error = "SUCCESS", NEW kind \in Kinds
  PROVE  Sound(push_context(Emit(w, Comma(Top(w)) \o <<OpenOf(kind)>>), kind))
<1> DEFINE sep == Comma(Top(w))
           tokens == sep \o <<OpenOf(kind)>>
           v == push_context(Emit(w, tokens), kind)
<1>1. Shaped(w) /\ w \in WriterType /\ w.frames # <<>> /\ w.out \in Seq(Tokens) /\ Len(w.frames) \in Nat
      /\ MAX_JSON_DEPTH \in Nat
  BY ShapedFacts DEF Sound
<1>2. sep \in Separators
  BY SeparatorsType
<1> HIDE DEF sep
<1>3. /\ v \in WriterType /\ v.has_buffer = w.has_buffer
      /\ Refused(w) => v.frames = w.frames /\ v.last_error # "SUCCESS"
      /\ ~Refused(w) => /\ Len(v.frames) = Len(w.frames) + 1
                        /\ \A j \in 1..Len(w.frames) : v.frames[j] = w.frames[j]
                        /\ v.frames[Len(w.frames) + 1] = NewFrame(kind)
                        /\ Emitted(w, v, tokens)
  BY <1>1, <1>2, OpenFacts
<1>4. OpenBrackets[w.out \o tokens] = Append(OpenBrackets[w.out], kind)
  <2>1. OpenOf(kind) \in Tokens
    BY DEF OpenOf, Tokens, Opening
  <2>2. Bracketed(OpenBrackets[w.out], OpenOf(kind)) = Append(OpenBrackets[w.out], kind)
    <3>1. \A o : Bracketed(o, "begin_array") = Append(o, "ARRAY") /\ Bracketed(o, "begin_object") = Append(o, "OBJECT")
      BY DEF Bracketed, Closing
    <3>2. OpenOf("ARRAY") = "begin_array" /\ OpenOf("OBJECT") = "begin_object" /\ kind \in {"ARRAY", "OBJECT"}
      BY DEF OpenOf, Kinds
    <3> QED BY <3>1, <3>2
  <2> QED BY <1>1, <1>2, <2>1, <2>2, SeparatedToken
<1> HIDE DEF v, tokens
<1>5. ASSUME Refused(w) PROVE Sound(v)
  BY <1>1, <1>3, <1>5 DEF Sound, Shaped, Balanced
<1>6. ASSUME ~Refused(w) PROVE Sound(v)
  <2>1. Len(w.frames) < MAX_JSON_DEPTH
    BY <1>1, <1>6 DEF Refused, depth
  <2>2. v.last_error = "SUCCESS" => OpenBrackets[v.out] = Append(OpenBrackets[w.out], kind)
    <3>1. Emitted(w, v, tokens)
      BY <1>3, <1>6
    <3> QED BY <1>4, <3>1, EmittedFacts
  <2> QED BY <1>3, <1>6, <2>1, <2>2, SoundOpened
<1>7. Sound(v)
  BY <1>5, <1>6
<1> QED BY <1>7 DEF v, tokens, sep

LEMMA SoundStart ==
  ASSUME NEW w, Sound(w), w.last_error = "SUCCESS"
  PROVE  Sound(write_start_array(w)) /\ Sound(write_start_object(w))
<1>1. Shaped(w) /\ "ENCODING" \in Errors /\ "ARRAY" \in Kinds /\ "OBJECT" \in Kinds
      /\ OpenOf("ARRAY") = "begin_array" /\ OpenOf("OBJECT") = "begin_object"
  BY DEF Sound, Errors, Kinds, OpenOf
<1>2. Sound(Failed(w, "ENCODING"))
  BY <1>1, SoundFailed
<1>3. Sound(push_context(Emit(w, Comma(Top(w)) \o <<"begin_array">>), "ARRAY"))
  BY <1>1, SoundPush
<1>4. Sound(push_context(Emit(w, Comma(Top(w)) \o <<"begin_object">>), "OBJECT"))
  BY <1>1, SoundPush
<1> QED BY <1>2, <1>3, <1>4 DEF write_start_array, write_start_object

LEMMA SoundEnd ==
  ASSUME NEW w, Sound(w), w.last_error = "SUCCESS", NEW kind \in Kinds
  PROVE  Sound(write_end(w, kind, CloseOf(kind)))
<1> DEFINE token == CloseOf(kind)
           v == write_end(w, kind, token)
           n == Len(w.frames)
<1>1. Shaped(w) /\ "ENCODING" \in Errors /\ token \in Tokens /\ kind # "ROOT"
  BY DEF Sound, Errors, Tokens, Closing, CloseOf, Kinds
<1>2. w \in WriterType /\ w.frames # <<>> /\ Top(w) = w.frames[n] /\ Top(w) \in Frame /\ w.out \in Seq(Tokens)
      /\ n \in Nat \ {0}
  BY <1>1, ShapedFacts
<1>3. CASE Top(w).context # kind
  BY <1>1, <1>3, SoundFailed DEF write_end
<1>4. CASE Top(w).context = kind
  <2>1. n # 1
    BY <1>1, <1>2, <1>4 DEF Shaped
  <2>2. Bracketed(OpenBrackets[w.out], token) = Front(OpenBrackets[w.out])
    BY DEF Bracketed, CloseOf, Closing
  <2> HIDE DEF token
  <2>3. /\ v \in WriterType /\ Len(v.frames) = n - 1
        /\ \A j \in 1..n - 2 : v.frames[j] = w.frames[j]
        /\ v.frames[n - 1].context = w.frames[n - 1].context
        /\ v.frames[n - 1].expect_value = w.frames[n - 1].expect_value
        /\ Emitted(w, v, <<token>>)
    BY <1>1, <1>2, <1>4, <2>1, CloseFacts
  <2>4. OpenBrackets[w.out \o <<token>>] = Front(OpenBrackets[w.out])
    BY <1>1, <1>2, <2>2, AppendIsConcat, OpenBracketsRecursion
  <2>5. v.last_error = "SUCCESS" => OpenBrackets[v.out] = Front(OpenBrackets[w.out])
    <3> DEFINE tokens == <<token>>
    <3>1. Emitted(w, v, tokens) /\ OpenBrackets[w.out \o tokens] = Front(OpenBrackets[w.out])
      BY <2>3, <2>4
    <3> HIDE DEF tokens, v
    <3> QED BY <3>1, EmittedFacts
  <2> HIDE DEF v, n
  <2>6. \A j \in 1..n - 1 : j = n - 1 \/ j \in 1..n - 2
    BY <1>2
  <2>7. \A j \in 1..n - 1 : /\ v.frames[j].context = w.frames[j].context
                            /\ v.frames[j].expect_value = w.frames[j].expect_value
    BY <2>3, <2>6
  <2>8. Sound(v)
    BY <2>1, <2>3, <2>5, <2>7, SoundClosed DEF n
  <2> QED BY <2>8 DEF v, token
<1> QED BY <1>3, <1>4

LEMMA SoundToken ==
  ASSUME NEW w, Sound(w), w.last_error = "SUCCESS", NEW before, NEW token \in Tokens
  PROVE  Sound(WriteToken(w, before, token))
<1>1. Sound(write_start_array(w)) /\ Sound(write_start_object(w)) /\ Sound(write_property_name(w))
  BY SoundStart, SoundName
<1>2. Sound(write_end_array(w)) /\ Sound(write_end_object(w))
  <2>1. "ARRAY" \in Kinds /\ "OBJECT" \in Kinds /\ CloseOf("ARRAY") = "end_array" /\ CloseOf("OBJECT") = "end_object"
    BY DEF Kinds, CloseOf
  <2> QED BY <2>1, SoundEnd DEF write_end_array, write_end_object
<1>3. token \in {"str", "lit", "raw"} => Sound(write_scalar(w, token))
  BY SoundValue, SeparatorsType DEF write_scalar
<1> QED BY <1>1, <1>2, <1>3, TokenCases DEF WriteToken

\* One more token of an object.
WriteOn(v, before, token) ==
    IF v.last_error # "SUCCESS" THEN v ELSE WriteToken(v, before, token)

LEMMA SerializedRecursion ==
  ASSUME NEW w, Sound(w)
  PROVE  /\ Serialized(w, <<>>) = w
         /\ \A t \in Seq(Tokens), e \in Tokens :
              Serialized(w, Append(t, e)) = WriteOn(Serialized(w, t), After[t], e)
         /\ \A t \in Seq(Tokens) : Sound(Serialized(w, t))
<1> DEFINE S == {v \in WriterType : Sound(v)}
           F == [x \in S \X Seq(Tokens) |-> IF x[2] = <<>> THEN w
                                            ELSE WriteOn(x[1], After[Front(x[2])], Last(x[2]))]
<1>0. \A v : v \in S <=> Sound(v)
  BY ShapedFacts DEF Sound
<1>1. w \in S
  BY <1>0
<1> HIDE DEF S
<1>2. F \in Steps(S, Tokens)
  <2>1. ASSUME NEW x \in S \X Seq(Tokens) PROVE F[x] \in S
    <3>1. x[1] \in S /\ x[2] \in Seq(Tokens)
      OBVIOUS
    <3>2. Sound(x[1])
      BY <1>0, <3>1
    <3>3. ASSUME x[2] # <<>> PROVE WriteOn(x[1], After[Front(x[2])], Last(x[2])) \in S
      <4>1. Last(x[2]) \in Tokens
        BY <3>1, <3>3, FrontAndLast
      <4>2. x[1].last_error = "SUCCESS" => Sound(WriteToken(x[1], After[Front(x[2])], Last(x[2])))
        BY <3>2, <4>1, SoundToken
      <4> QED BY <1>0, <3>2, <4>2 DEF WriteOn
    <3> QED BY <1>1, <3>3
  <2> QED BY <2>1 DEF Steps
<1>3. PICK f \in [Seq(Tokens) -> S] : Recursion(f, Tokens, w, F)
  <2> HIDE DEF F
  <2> QED BY <1>1, <1>2, SequenceRecursion
<1>4. ASSUME NEW t \in Seq(Tokens), t # <<>> PROVE F[<<f[Front(t)], t>>] = WriteOn(f[Front(t)], After[Front(t)], Last(t))
  <2>1. Front(t) \in Seq(Tokens)
    BY <1>4, FrontAndLast
  <2>2. <<f[Front(t)], t>> \in S \X Seq(Tokens)
    BY <2>1
  <2> QED BY <1>4, <2>2
<1> HIDE DEF F
<1>5. \A t \in Seq(Tokens) : f[t] = IF t = <<>> THEN w ELSE WriteOn(f[Front(t)], After[Front(t)], Last(t))
  BY <1>3, <1>4 DEF Recursion
<1>6. f = [text \in Seq(Tokens) |->
            IF text = <<>> THEN w
            ELSE LET v == f[Front(text)]
                 IN  IF v.last_error # "SUCCESS" THEN v
                     ELSE WriteToken(v, After[Front(text)], Last(text))]
  BY <1>5, Zenon DEF WriteOn
<1> DEFINE g == CHOOSE h : h = [text \in Seq(Tokens) |->
            IF text = <<>> THEN w
            ELSE LET v == h[Front(text)]
                 IN  IF v.last_error # "SUCCESS" THEN v
                     ELSE WriteToken(v, After[Front(text)], Last(text))]
<1>7. g = [text \in Seq(Tokens) |->
            IF text = <<>> THEN w
            ELSE LET v == g[Front(text)]
                 IN  IF v.last_error # "SUCCESS" THEN v
                     ELSE WriteToken(v, After[Front(text)], Last(text))]
  BY <1>6, Zenon
<1>8. \A object : Serialized(w, object) = g[object]
  BY Zenon DEF Serialized
<1> HIDE DEF g
<1>9. \A t \in Seq(Tokens) : g[t] = IF t = <<>> THEN w ELSE WriteOn(g[Front(t)], After[Front(t)], Last(t))
  BY <1>7, Zenon DEF WriteOn
<1>10. g[<<>>] = w
  BY <1>9, EmptySeq
<1>11. ASSUME NEW t \in Seq(Tokens), NEW e \in Tokens
       PROVE  g[Append(t, e)] = WriteOn(g[t], After[t], e)
  <2>1. Append(t, e) \in Seq(Tokens) /\ Append(t, e) # <<>> /\ Front(Append(t, e)) = t /\ Last(Append(t, e)) = e
    BY AppendedFrontAndLast
  <2> QED BY <1>9, <2>1
<1>12. \A t \in Seq(Tokens) : Sound(g[t])
  <2> DEFINE G == {t \in Seq(Tokens) : Sound(g[t])}
  <2>1. <<>> \in G
    BY <1>10, EmptySeq
  <2>2. ASSUME NEW t \in Seq(Tokens), NEW e \in Tokens, t \in G PROVE Append(t, e) \in G
    <3>1. Append(t, e) \in Seq(Tokens)
      BY AppendProperties
    <3>2. Sound(WriteOn(g[t], After[t], e))
      BY <2>2, SoundToken DEF WriteOn
    <3> QED BY <1>11, <3>1, <3>2
  <2>3. Seq(Tokens) \subseteq G
    <3> HIDE DEF G
    <3> QED BY <2>1, <2>2, SequenceInduction
  <2> QED BY <2>3
<1> QED BY <1>8, <1>10, <1>11, <1>12

LEMMA SoundEmitSeparator ==
  ASSUME NEW w, Sound(w), NEW sep \in Separators
  PROVE  /\ Sound(Emit(w, sep)) /\ Emit(w, sep).frames = w.frames
         /\ Emit(w, sep).has_buffer = w.has_buffer
         /\ w.has_buffer => Emit(w, sep).last_error = w.last_error /\ Emit(w, sep).out = w.out \o sep
<1>1. Shaped(w) /\ w \in WriterType /\ w.out \in Seq(Tokens) /\ sep \in Seq(Tokens)
  BY ShapedFacts, SeparatorsType DEF Sound
<1>2. CASE sep = <<>>
  <2>1. w.out \o sep = w.out
    BY <1>1, <1>2, ConcatEmptySeq
  <2>2. Emit(w, sep) = w
    BY <1>1, <1>2, <2>1 DEF Emit, WriterType
  <2> QED BY <2>1, <2>2
<1>3. CASE sep # <<>>
  <2> DEFINE v == Emit(w, sep)
  <2>1. v \in WriterType /\ v.frames = w.frames /\ Emitted(w, v, sep)
    BY <1>1, <1>3, EmitFacts
  <2> HIDE DEF v
  <2>2. Shaped(v)
    BY <1>1, <2>1 DEF Shaped
  <2>3. sep = <<"comma">> /\ "comma" \in Tokens
    BY <1>3 DEF Separators, Tokens
  <2>4. OpenBrackets[w.out \o sep] = OpenBrackets[w.out]
    <3>1. w.out \o sep = Append(w.out, "comma")
      BY <1>1, <2>3, AppendIsConcat
    <3>2. Bracketed(OpenBrackets[w.out], "comma") = OpenBrackets[w.out]
      BY DEF Bracketed, Closing
    <3> QED BY <1>1, <2>3, <3>1, <3>2, OpenBracketsRecursion
  <2>5. v.last_error = "SUCCESS" => w.last_error = "SUCCESS" /\ OpenBrackets[v.out] = OpenBrackets[w.out]
    BY <2>1, <2>4 DEF Emitted
  <2>6. Balanced(v)
    BY <2>1, <2>5 DEF Sound, Balanced
  <2>7. /\ Sound(v) /\ v.frames = w.frames /\ v.has_buffer = w.has_buffer
        /\ w.has_buffer => v.last_error = w.last_error /\ v.out = w.out \o sep
    BY <2>1, <2>2, <2>6 DEF Sound, Emitted
  <2> QED BY <2>7 DEF v
<1> QED BY <1>2, <1>3

\* The frame of the call is counted.
LEMMA SoundCounted ==
  ASSUME NEW w, Sound(w), NEW n
  PROVE  Sound(SetFrame(w, n, Written(w.frames[n])))
<1> DEFINE v == SetFrame(w, n, Written(w.frames[n]))
<1>1. Shaped(w) /\ w \in WriterType /\ Len(w.frames) \in Nat \ {0} /\ \A i \in 1..Len(w.frames) : w.frames[i] \in Frame
  BY ShapedFacts DEF Sound
<1>2. n \in 1..Len(w.frames) => /\ Written(w.frames[n]) \in Frame
                                /\ Written(w.frames[n]).context = w.frames[n].context
                                /\ Written(w.frames[n]).expect_value = (w.frames[n].context = "ARRAY")
  BY <1>1, WrittenFacts
<1>3. /\ v \in WriterType
      /\ Len(v.frames) = Len(w.frames)
      /\ \A j \in 1..Len(w.frames) : j # n => v.frames[j] = w.frames[j]
      /\ n \in 1..Len(w.frames) => v.frames[n] = Written(w.frames[n])
      /\ v.last_error = w.last_error
      /\ v.out = w.out
  BY <1>1, <1>2, SetFrameFacts
<1> HIDE DEF v
<1>4. \A j \in 1..Len(w.frames) : v.frames[j].context = w.frames[j].context
  BY <1>2, <1>3
<1>5. ~v.frames[1].expect_value
  <2>1. 1 \in 1..Len(w.frames) /\ w.frames[1].context = "ROOT" /\ ~w.frames[1].expect_value
    BY <1>1 DEF Shaped
  <2>2. CASE n = 1
    BY <1>2, <1>3, <2>1, <2>2
  <2>3. CASE n # 1
    BY <1>3, <2>1, <2>3
  <2> QED BY <2>2, <2>3
<1>6. Sound(v)
  BY <1>3, <1>4, <1>5, SoundReplaced
<1> QED BY <1>6 DEF v

LEMMA SoundObject ==
  ASSUME NEW w, Sound(w), NEW object \in Seq(Tokens)
  PROVE  Sound(write_object(w, object))
<1>1. Shaped(w) /\ "ENCODING" \in Errors
  BY DEF Sound, Errors
<1>2. CASE can_write(Top(w))
  <2> DEFINE u == Emit(w, CommaOfRaw(Top(w)))
             v == Serialized(u, object)
  <2>1. Sound(u)
    BY SoundEmitSeparator, SeparatorsType
  <2>2. Sound(v)
    <3> HIDE DEF u
    <3> QED BY <2>1, SerializedRecursion
  <2>3. Sound(SetFrame(v, Len(w.frames), Written(v.frames[Len(w.frames)])))
    <3> HIDE DEF v
    <3> QED BY <2>2, SoundCounted
  <2> QED BY <1>2, <2>3 DEF write_object
<1>3. CASE ~can_write(Top(w))
  BY <1>1, <1>3, SoundFailed DEF write_object
<1> QED BY <1>2, <1>3

-----------------------------------------------------------------------------
(* An object that is written, token by token: what the calls for the       *)
(* tokens t of its text make of a writer w that can write a value.         *)

Ready(w) == Sound(w) /\ w.last_error = "SUCCESS" /\ w.has_buffer /\ can_write(Top(w))

\* The frames of the containers that are open; those below are as before.
FramesFollow(w, s, v) ==
    /\ Len(v.frames) = Len(w.frames) + Len(s.open)
    /\ \A i \in 1..Len(w.frames) - 1 : v.frames[i] = w.frames[i]
    /\ v.frames[Len(w.frames)].context = w.frames[Len(w.frames)].context
    /\ \A i \in 1..Len(s.open) :
         /\ v.frames[Len(w.frames) + i].context = s.open[i]
         /\ s.open[i] = "ARRAY" => v.frames[Len(w.frames) + i].expect_value

\* The frame of the innermost container: whether it has items, whether it is
\* behind a name.
TopFollows(s, v) ==
    /\ s.wants \in {"next", "name"} => Top(v).item_count > 0
    /\ s.open # <<>> =>
        /\ s.wants = "first" => Top(v).item_count = 0
        /\ s.wants \in {"value", "colon"} => Top(v).expect_value
        /\ s.wants = "value" /\ Last(s.open) = "ARRAY" => Top(v).item_count > 0

\* A comma is written with what follows it, a colon with the name.
Shown(t, s) == IF Last(t) = "comma" THEN Front(t)
               ELSE IF s.wants = "colon" THEN Append(t, "colon") ELSE t

OutBefore(w) == w.out \o Comma(Top(w))

OutFollows(w, t, s, v) ==
    v.out = IF t = <<>> THEN w.out ELSE OutBefore(w) \o Shown(t, s)

Follows(w, t, v) ==
    /\ Sound(v) /\ v.last_error = "SUCCESS" /\ v.has_buffer
    /\ FramesFollow(w, After[t], v)
    /\ TopFollows(After[t], v)
    /\ t = <<>> => v.frames = w.frames

\* The step from one text to the next: the frames follow, and the output if it
\* did before.
Continues(w, t, v, y, next) ==
    Follows(w, y, next) /\ (OutFollows(w, t, After[t], v) => OutFollows(w, y, After[y], next))

LEMMA OutBeforeType ==
  ASSUME NEW w, Ready(w)
  PROVE  OutBefore(w) \in Seq(Tokens)
<1>1. w.out \in Seq(Tokens)
  BY ShapedFacts DEF Ready, Sound
<1>2. Comma(Top(w)) \in Seq(Tokens)
  BY SeparatorsType
<1> QED BY <1>1, <1>2, ConcatProperties DEF OutBefore

LEMMA FollowsFacts ==
  ASSUME NEW w, Ready(w), NEW t \in Seq(Tokens), NEW v, Follows(w, t, v)
  PROVE  /\ Shaped(w) /\ Shaped(v)
         /\ Len(w.frames) \in Nat \ {0} /\ Len(v.frames) \in Nat \ {0}
         /\ After[t].open \in Seq(Kinds) /\ Len(After[t].open) \in Nat
         /\ After[t].open = <<>> <=> Len(After[t].open) = 0
         /\ Len(v.frames) = Len(w.frames) + Len(After[t].open)
         /\ Top(v) = v.frames[Len(v.frames)] /\ Top(v) \in Frame /\ v.out \in Seq(Tokens)
         /\ After[t].open # <<>> => /\ Len(v.frames) # 1
                                    /\ Top(v).context = Last(After[t].open)
                                    /\ Last(After[t].open) = "ARRAY" => Top(v).expect_value
<1> DEFINE s == After[t]
           k == Len(w.frames)
           n == Len(s.open)
           m == Len(v.frames)
<1>1. Shaped(w) /\ Shaped(v)
  BY DEF Ready, Follows, Sound
<1>2. k \in Nat \ {0} /\ m \in Nat \ {0} /\ Top(v) = v.frames[m] /\ Top(v) \in Frame /\ v.out \in Seq(Tokens)
  BY <1>1, ShapedFacts
<1>3. s.open \in Seq(Kinds) /\ n \in Nat /\ (s.open = <<>> <=> n = 0)
  BY AfterType, EmptySeq
<1>4. m = k + n /\ \A i \in 1..n : v.frames[k + i].context = s.open[i] /\ (s.open[i] = "ARRAY" => v.frames[k + i].expect_value)
  BY DEF Follows, FramesFollow
<1>5. Last(s.open) = s.open[n]
  BY DEF Last
<1> HIDE DEF k, m, n, s
<1>6. s.open # <<>> => n \in 1..n /\ m # 1
  BY <1>2, <1>3, <1>4
<1>7. s.open # <<>> => Top(v).context = Last(s.open) /\ (Last(s.open) = "ARRAY" => Top(v).expect_value)
  BY <1>2, <1>4, <1>5, <1>6
<1> QED BY <1>1, <1>2, <1>3, <1>4, <1>6, <1>7 DEF k, m, n, s

\* Where JSON wants a value the writer takes one, behind a comma if need be.
LEMMA ReadyForValue ==
  ASSUME NEW w, Ready(w), NEW t \in Seq(Tokens), NEW v, Follows(w, t, v), TakesValue(After[t])
  PROVE  /\ can_write(Top(v))
         /\ Top(v).expect_value \/ depth(v) = 0
         /\ ~(Top(v).context = "OBJECT" /\ ~Top(v).expect_value)
         /\ OutFollows(w, t, After[t], v) => v.out \o Comma(Top(v)) = OutBefore(w) \o t
<1> DEFINE s == After[t]
<1>1. /\ Shaped(w) /\ Shaped(v)
      /\ Len(w.frames) \in Nat \ {0} /\ Len(v.frames) \in Nat \ {0}
      /\ s.open \in Seq(Kinds)
      /\ Top(v) = v.frames[Len(v.frames)] /\ Top(v) \in Frame /\ v.out \in Seq(Tokens)
      /\ s.open # <<>> => /\ Len(v.frames) # 1
                          /\ Top(v).context = Last(s.open)
                          /\ Last(s.open) = "ARRAY" => Top(v).expect_value
  BY FollowsFacts
<1>2. s.wants \in {"value", "first"} /\ Standing(t, s)
  BY StandingAfter DEF TakesValue
<1>3. OutBefore(w) \in Seq(Tokens)
  BY OutBeforeType
<1>4. CASE t = <<>>
  <2>1. v.frames = w.frames /\ Top(v) = Top(w) /\ depth(v) = depth(w)
    BY <1>4 DEF Follows, Top, depth
  <2>2. can_write(Top(w)) /\ (depth(w) = 0 \/ Len(w.frames) # 1)
    BY <1>1 DEF Ready, depth
  <2>3. Top(w).context = "ROOT" <=> Len(w.frames) = 1
    <3>1. Len(w.frames) \in 1..Len(w.frames)
      BY <1>1
    <3> QED BY <1>1, <2>1, <3>1 DEF Shaped
  <2>4. Top(w).expect_value \/ depth(w) = 0
    BY <1>1, <2>1, <2>2, <2>3 DEF can_write, depth
  <2>5. ~(Top(w).context = "OBJECT" /\ ~Top(w).expect_value)
    BY <2>2 DEF can_write
  <2>6. OutBefore(w) \o t = OutBefore(w)
    BY <1>3, <1>4, ConcatEmptySeq
  <2> QED BY <1>4, <2>1, <2>2, <2>4, <2>5, <2>6 DEF OutBefore, OutFollows
<1>5. CASE t # <<>>
  <2>1. s.open # <<>>
    BY <1>2, <1>5 DEF Standing
  <2>2. Last(s.open) \in Kinds
    BY <1>1, <2>1, FrontAndLast
  <2>3. TopFollows(s, v) /\ (OutFollows(w, t, s, v) => v.out = OutBefore(w) \o Shown(t, s))
    BY <1>5 DEF Follows, OutFollows
  <2>4. Top(v).expect_value
    <3>1. s.wants = "first" => Last(s.open) = "ARRAY"
      BY DEF TakesValue, Within
    <3> QED BY <1>1, <1>2, <2>1, <2>3, <3>1 DEF TopFollows
  <2>5. CASE s.wants = "value" /\ Last(s.open) = "ARRAY"
    <3>1. Top(v).item_count > 0 /\ Top(v).context = "ARRAY" /\ Last(t) = "comma"
      BY <1>1, <1>2, <1>5, <2>1, <2>3, <2>5 DEF TopFollows, Standing
    <3>2. Comma(Top(v)) = <<"comma">> /\ Shown(t, s) = Front(t)
      BY <3>1 DEF Comma, Shown
    <3>3. Front(t) \in Seq(Tokens) /\ "comma" \in Tokens /\ t = Append(Front(t), "comma")
      BY <1>5, <3>1, FrontAndLast DEF Tokens
    <3> DEFINE f == Front(t)
               b == OutBefore(w)
    <3>4. (OutFollows(w, t, s, v) => v.out = b \o f) /\ f \in Seq(Tokens) /\ b \in Seq(Tokens)
      BY <1>3, <2>3, <3>2, <3>3
    <3>5. b \o f \in Seq(Tokens) /\ b \o Append(f, "comma") = Append(b \o f, "comma")
      <4> HIDE DEF b, f
      <4> QED BY <3>3, <3>4, ConcatAppend
    <3>6. Append(b \o f, "comma") = (b \o f) \o <<"comma">>
      BY <3>3, <3>5, AppendIsConcat
    <3>7. OutFollows(w, t, s, v) => v.out \o Comma(Top(v)) = b \o t
      BY <3>2, <3>3, <3>4, <3>5, <3>6
    <3> QED BY <2>4, <3>7 DEF can_write
  <2>6. CASE ~(s.wants = "value" /\ Last(s.open) = "ARRAY")
    <3>1. Comma(Top(v)) = <<>>
      <4>1. s.wants = "first" => Top(v).item_count = 0
        BY <2>1, <2>3 DEF TopFollows
      <4>2. s.wants = "value" => Top(v).context = "OBJECT"
        BY <1>1, <2>1, <2>2, <2>6 DEF Kinds
      <4> QED BY <1>2, <4>1, <4>2 DEF Comma
    <3>2. Last(t) # "comma"
      BY <1>2, <1>5, <2>6 DEF Standing
    <3>3. Shown(t, s) = t
      BY <1>2, <3>2 DEF Shown
    <3>4. OutFollows(w, t, s, v) => v.out \o Comma(Top(v)) = OutBefore(w) \o t
      BY <1>1, <2>3, <3>1, <3>3, ConcatEmptySeq
    <3> QED BY <2>4, <3>4 DEF can_write
  <2> QED BY <2>5, <2>6
<1> QED BY <1>4, <1>5

\* Where JSON wants a name the writer takes one.
LEMMA ReadyForName ==
  ASSUME NEW w, Ready(w), NEW t \in Seq(Tokens), NEW v, Follows(w, t, v), TakesName(After[t])
  PROVE  /\ Top(v).context = "OBJECT"
         /\ OutFollows(w, t, After[t], v) => v.out \o CommaOfRaw(Top(v)) = OutBefore(w) \o t
<1> DEFINE s == After[t]
<1>1. /\ s.open \in Seq(Kinds)
      /\ Top(v) \in Frame /\ v.out \in Seq(Tokens)
      /\ s.open # <<>> => /\ Len(v.frames) # 1
                          /\ Top(v).context = Last(s.open)
                          /\ Last(s.open) = "ARRAY" => Top(v).expect_value
  BY FollowsFacts
<1>2. s.wants \in {"name", "first"} /\ Standing(t, s)
  BY StandingAfter DEF TakesName
<1>3. OutBefore(w) \in Seq(Tokens)
  BY OutBeforeType
<1>4. s.open # <<>> /\ Last(s.open) = "OBJECT" /\ t # <<>>
  BY <1>2 DEF Standing, TakesName, Within
<1>5. TopFollows(s, v) /\ (OutFollows(w, t, s, v) => v.out = OutBefore(w) \o Shown(t, s))
  BY <1>4 DEF Follows, OutFollows
<1>6. CASE s.wants = "name"
  <2>1. Top(v).item_count > 0 /\ Last(t) = "comma"
    BY <1>2, <1>4, <1>5, <1>6 DEF TopFollows, Standing
  <2>2. CommaOfRaw(Top(v)) = <<"comma">> /\ Shown(t, s) = Front(t)
    BY <2>1 DEF CommaOfRaw, Shown
  <2>3. Front(t) \in Seq(Tokens) /\ "comma" \in Tokens /\ t = Append(Front(t), "comma")
    BY <1>4, <2>1, FrontAndLast DEF Tokens
  <2> DEFINE f == Front(t)
             b == OutBefore(w)
  <2>4. (OutFollows(w, t, s, v) => v.out = b \o f) /\ f \in Seq(Tokens) /\ b \in Seq(Tokens)
    BY <1>3, <1>5, <2>2, <2>3
  <2>5. b \o f \in Seq(Tokens) /\ b \o Append(f, "comma") = Append(b \o f, "comma")
    <3> HIDE DEF b, f
    <3> QED BY <2>3, <2>4, ConcatAppend
  <2>6. Append(b \o f, "comma") = (b \o f) \o <<"comma">>
    BY <2>3, <2>5, AppendIsConcat
  <2>7. OutFollows(w, t, s, v) => v.out \o CommaOfRaw(Top(v)) = b \o t
    BY <2>2, <2>3, <2>4, <2>5, <2>6
  <2> QED BY <1>1, <1>4, <2>7
<1>7. CASE s.wants = "first"
  <2>1. Top(v).item_count = 0 /\ Last(t) # "comma"
    BY <1>2, <1>4, <1>5, <1>7 DEF TopFollows, Standing
  <2>2. CommaOfRaw(Top(v)) = <<>> /\ Shown(t, s) = t
    BY <1>7, <2>1 DEF CommaOfRaw, Shown
  <2> QED BY <1>1, <1>4, <1>5, <2>2, ConcatEmptySeq
<1> QED BY <1>2, <1>6, <1>7

LEMMA OutStep ==
  ASSUME NEW b \in Seq(Tokens), NEW t \in Seq(Tokens), NEW o \in Seq(Tokens),
         NEW sep \in Separators, NEW e \in Tokens, o \o sep = b \o t
  PROVE  o \o (sep \o <<e>>) = b \o Append(t, e)
<1>1. o \o (sep \o <<e>>) = Append(o \o sep, e)
  BY SeparatedToken
<1>2. b \o Append(t, e) = Append(b \o t, e)
  BY ConcatAppend
<1> QED BY <1>1, <1>2

LEMMA EmittedOk ==
  ASSUME NEW w, NEW v, NEW tokens, Emitted(w, v, tokens), w.last_error = "SUCCESS", w.has_buffer
  PROVE  v.last_error = "SUCCESS" /\ v.has_buffer /\ v.out = w.out \o tokens
BY DEF Emitted

\* What is left to show when a step leaves the frames of the containers around.
LEMMA FollowsStep ==
  ASSUME NEW w, Ready(w), NEW t \in Seq(Tokens), NEW v, NEW next,
         Sound(next), next.last_error = "SUCCESS", next.has_buffer,
         NEW e \in Tokens, NEW open, NEW wants, After[Append(t, e)] = Behind(open, wants),
         FramesFollow(w, Behind(open, wants), next), TopFollows(Behind(open, wants), next),
         OutFollows(w, t, After[t], v) =>
             next.out = OutBefore(w) \o Shown(Append(t, e), Behind(open, wants))
  PROVE  Continues(w, t, v, Append(t, e), next)
<1>1. Append(t, e) # <<>>
  BY AppendedFrontAndLast
<1> QED BY <1>1 DEF Continues, Follows, OutFollows

\* An opening bracket.
LEMMA FollowsOpen ==
  ASSUME NEW w, Ready(w), NEW t \in Seq(Tokens), NEW v, Follows(w, t, v), NEW kind \in Kinds,
         TakesValue(After[t])
  PROVE  LET next == WriteToken(v, After[t], OpenOf(kind))
         IN  IF Len(w.frames) + Len(After[t].open) < MAX_JSON_DEPTH
             THEN Continues(w, t, v, Append(t, OpenOf(kind)), next)
             ELSE next.last_error # "SUCCESS"
<1> DEFINE s == After[t]
           e == OpenOf(kind)
           next == WriteToken(v, s, e)
           sep == Comma(Top(v))
           k == Len(w.frames)
           n == Len(s.open)
           m == Len(v.frames)
<1>1. /\ Shaped(w) /\ Shaped(v) /\ k \in Nat \ {0} /\ m \in Nat \ {0} /\ s.open \in Seq(Kinds) /\ n \in Nat
      /\ m = k + n /\ v.out \in Seq(Tokens)
  BY FollowsFacts
<1>2. /\ can_write(Top(v)) /\ (Top(v).expect_value \/ depth(v) = 0)
      /\ ~(Top(v).context = "OBJECT" /\ ~Top(v).expect_value)
      /\ OutFollows(w, t, s, v) => v.out \o sep = OutBefore(w) \o t
  BY ReadyForValue
<1>3. next = push_context(Emit(v, sep \o <<e>>), kind)
  <2>1. kind \in {"ARRAY", "OBJECT"}
    BY DEF Kinds
  <2>2. CASE kind = "ARRAY"
    BY <1>2, <2>2 DEF WriteToken, OpenOf, write_start_array
  <2>3. CASE kind = "OBJECT"
    BY <1>2, <2>3 DEF WriteToken, OpenOf, write_start_object
  <2> QED BY <2>1, <2>2, <2>3
<1>4. v \in WriterType /\ v.frames # <<>> /\ sep \in Separators /\ e \in Tokens /\ v.last_error = "SUCCESS" /\ v.has_buffer
      /\ Sound(v) /\ MAX_JSON_DEPTH \in Nat
  BY <1>1, ShapedFacts, SeparatorsType, DepthAssumption DEF Follows, OpenOf, Tokens, Opening
<1>5. Refused(v) <=> ~(k + n < MAX_JSON_DEPTH)
  <2>1. Refused(v) <=> m - 1 >= MAX_JSON_DEPTH - 1
    BY <1>2 DEF Refused, depth
  <2> HIDE DEF k, n, m
  <2> QED BY <1>1, <1>4, <2>1
<1>6. /\ next \in WriterType /\ next.has_buffer = v.has_buffer
      /\ Refused(v) => next.last_error # "SUCCESS"
      /\ ~Refused(v) => /\ Len(next.frames) = m + 1
                        /\ \A j \in 1..m : next.frames[j] = v.frames[j]
                        /\ next.frames[m + 1] = NewFrame(kind)
                        /\ Emitted(v, next, sep \o <<e>>)
  <2>1. v \in WriterType /\ v.frames # <<>> /\ sep \in Separators
    BY <1>4
  <2>2. next = push_context(Emit(v, sep \o <<OpenOf(kind)>>), kind)
    BY <1>3
  <2> HIDE DEF next, sep
  <2> QED BY <2>1, <2>2, OpenFacts
<1>7. ASSUME k + n < MAX_JSON_DEPTH PROVE Continues(w, t, v, Append(t, e), next)
  <2>1. /\ Len(next.frames) = m + 1
        /\ \A j \in 1..m : next.frames[j] = v.frames[j]
        /\ next.frames[m + 1] = NewFrame(kind)
        /\ Emitted(v, next, sep \o <<e>>)
    BY <1>5, <1>6, <1>7
  <2>2. Sound(next)
    BY <1>3, <1>4, SoundPush
  <2>3. next.last_error = "SUCCESS" /\ next.has_buffer /\ next.out = v.out \o (sep \o <<e>>)
    <3> DEFINE tokens == sep \o <<e>>
    <3>1. Emitted(v, next, tokens)
      BY <2>1
    <3> HIDE DEF tokens, next
    <3> QED BY <1>4, <3>1, EmittedOk DEF tokens
  <2>4. OutFollows(w, t, s, v) => next.out = OutBefore(w) \o Append(t, e)
    <3> DEFINE b == OutBefore(w)
    <3>1. b \in Seq(Tokens)
      BY OutBeforeType
    <3>2. OutFollows(w, t, s, v) => v.out \o sep = b \o t
      BY <1>2
    <3> HIDE DEF b, sep, e
    <3>3. OutFollows(w, t, s, v) => v.out \o (sep \o <<e>>) = b \o Append(t, e)
      BY <1>1, <1>4, <3>1, <3>2, OutStep, ZenonT(60)
    <3> QED BY <2>3, <3>3 DEF b
  <2> DEFINE o == Append(s.open, kind)
  <2>5. After[Append(t, e)] = Behind(o, "first")
    BY <1>4, AfterRecursion, ReadAllowed
  <2>6. Len(o) = n + 1 /\ (\A i \in 1..n : o[i] = s.open[i]) /\ o[n + 1] = kind /\ o # <<>>
    <3> DEFINE q == s.open
    <3>1. q \in Seq(Kinds) /\ o = Append(q, kind) /\ n = Len(q)
      BY <1>1
    <3> HIDE DEF q, o, n
    <3>2. Len(o) = n + 1 /\ (\A i \in 1..n : o[i] = q[i]) /\ o[n + 1] = kind /\ o # <<>>
      BY <3>1, AppendProperties
    <3> QED BY <3>2 DEF q
  <2>7. FramesFollow(w, s, v)
    BY DEF Follows
  <2>8. NewFrame(kind).context = kind /\ NewFrame(kind).item_count = 0 /\ (kind = "ARRAY" => NewFrame(kind).expect_value)
    BY NewFrameFacts DEF Kinds, Contexts
  <2>9. Top(next) = NewFrame(kind)
    BY <2>1 DEF Top
  <2>10. Shown(Append(t, e), Behind(o, "first")) = Append(t, e)
    <3>1. Last(Append(t, e)) = e /\ e # "comma"
      BY <1>4, AppendedFrontAndLast DEF OpenOf
    <3> HIDE DEF o, e
    <3> QED BY <3>1, Fields DEF Shown
  <2> HIDE DEF o, next, e, sep
  <2>11. TopFollows(Behind(o, "first"), next)
    BY <2>8, <2>9, Fields DEF TopFollows
  <2>12. FramesFollow(w, Behind(o, "first"), next)
    <3>1. /\ m = k + n
          /\ \A i \in 1..k - 1 : v.frames[i] = w.frames[i]
          /\ v.frames[k].context = w.frames[k].context
          /\ \A i \in 1..n : v.frames[k + i].context = s.open[i] /\ (s.open[i] = "ARRAY" => v.frames[k + i].expect_value)
      BY <2>7 DEF FramesFollow
    <3> HIDE DEF k, n, m, s
    <3>2. Len(next.frames) = k + Len(o)
      BY <1>1, <2>1, <2>6, <3>1
    <3>3. ASSUME NEW i \in 1..k - 1 PROVE next.frames[i] = w.frames[i]
      <4>1. i \in 1..m
        BY <1>1, <3>1
      <4> QED BY <2>1, <3>1, <4>1
    <3>4. next.frames[k].context = w.frames[k].context
      <4>1. k \in 1..m
        BY <1>1, <3>1
      <4> QED BY <2>1, <3>1, <4>1
    <3>5. ASSUME NEW i \in 1..n + 1
          PROVE  next.frames[k + i].context = o[i] /\ (o[i] = "ARRAY" => next.frames[k + i].expect_value)
      <4>1. CASE i = n + 1
        <5>1. k + i = m + 1
          BY <1>1, <3>1, <4>1
        <5> QED BY <2>1, <2>6, <2>8, <4>1, <5>1
      <4>2. CASE i # n + 1
        <5>1. i \in 1..n /\ k + i \in 1..m
          BY <1>1, <3>1, <4>2
        <5> QED BY <2>1, <2>6, <3>1, <5>1
      <4> QED BY <4>1, <4>2
    <3>6. Behind(o, "first").open = o
      BY Fields
    <3> QED BY <2>6, <3>2, <3>3, <3>4, <3>5, <3>6 DEF FramesFollow, k
  <2> QED BY <1>4, <2>2, <2>3, <2>4, <2>5, <2>10, <2>11, <2>12, FollowsStep
<1> HIDE DEF next, e
<1>8. ~(k + n < MAX_JSON_DEPTH) => next.last_error # "SUCCESS"
  BY <1>5, <1>6
<1> QED BY <1>7, <1>8 DEF next, e

\* The innermost frame changes.
LEMMA FramesFollowTop ==
  ASSUME NEW w, Ready(w), NEW t \in Seq(Tokens), NEW v, Follows(w, t, v), NEW next, NEW wants,
         Len(next.frames) = Len(v.frames),
         \A j \in 1..Len(v.frames) - 1 : next.frames[j] = v.frames[j],
         next.frames[Len(v.frames)].context = Top(v).context,
         Top(v).context = "ARRAY" => next.frames[Len(v.frames)].expect_value
  PROVE  FramesFollow(w, Behind(After[t].open, wants), next)
<1> DEFINE q == After[t].open
           k == Len(w.frames)
           n == Len(q)
           m == Len(v.frames)
<1>1. k \in Nat \ {0} /\ m \in Nat \ {0} /\ n \in Nat /\ m = k + n /\ Top(v) = v.frames[m]
  <2>1. /\ Len(w.frames) \in Nat \ {0} /\ Len(v.frames) \in Nat \ {0} /\ Len(After[t].open) \in Nat
        /\ Len(v.frames) = Len(w.frames) + Len(After[t].open)
        /\ Top(v) = v.frames[Len(v.frames)]
    <3>1. Ready(w) /\ t \in Seq(Tokens) /\ Follows(w, t, v)
      OBVIOUS
    <3> QED BY ONLY <3>1, FollowsFacts
  <2> QED BY <2>1
<1>2. FramesFollow(w, After[t], v)
  BY DEF Follows
<1>3. /\ \A i \in 1..k - 1 : v.frames[i] = w.frames[i]
      /\ v.frames[k].context = w.frames[k].context
      /\ \A i \in 1..n : v.frames[k + i].context = q[i] /\ (q[i] = "ARRAY" => v.frames[k + i].expect_value)
  BY <1>2 DEF FramesFollow
<1>4. Behind(q, wants).open = q
  <2> HIDE DEF q
  <2> QED BY Fields
<1>5. /\ Len(next.frames) = m /\ (\A j \in 1..m - 1 : next.frames[j] = v.frames[j])
      /\ next.frames[m].context = v.frames[m].context /\ (v.frames[m].context = "ARRAY" => next.frames[m].expect_value)
  BY <1>1
<1> HIDE DEF q, k, n, m
<1>6. ASSUME NEW i \in 1..k - 1 PROVE next.frames[i] = w.frames[i]
  <2>1. i \in 1..m - 1
    BY <1>1
  <2> QED BY <1>3, <1>5, <2>1
<1>7. next.frames[k].context = w.frames[k].context
  <2>1. k = m \/ k \in 1..m - 1
    BY <1>1
  <2> QED BY <1>3, <1>5, <2>1
<1>8. ASSUME NEW i \in 1..n
      PROVE  next.frames[k + i].context = q[i] /\ (q[i] = "ARRAY" => next.frames[k + i].expect_value)
  <2>1. k + i = m \/ k + i \in 1..m - 1
    <3>1. i \in Int /\ 1 <= i /\ i <= n
      BY <1>1
    <3> QED BY <1>1, <3>1
  <2> QED BY <1>3, <1>5, <2>1
<1>9. /\ Len(next.frames) = k + Len(Behind(q, wants).open)
      /\ \A i \in 1..Len(Behind(q, wants).open) :
           /\ next.frames[k + i].context = Behind(q, wants).open[i]
           /\ Behind(q, wants).open[i] = "ARRAY" => next.frames[k + i].expect_value
  BY <1>1, <1>4, <1>5, <1>8 DEF n
<1>10. FramesFollow(w, Behind(q, wants), next)
  BY <1>6, <1>7, <1>9 DEF FramesFollow, k
<1> QED BY <1>10 DEF q

\* The tokens of a writer that does nothing: colon and comma.
LEMMA FollowsSeparator ==
  ASSUME NEW w, Ready(w), NEW t \in Seq(Tokens), NEW v, Follows(w, t, v), NEW e \in {"colon", "comma"},
         IF e = "colon" THEN After[t].wants = "colon" ELSE TakesComma(After[t])
  PROVE  WriteToken(v, After[t], e) = v /\ Continues(w, t, v, Append(t, e), v)
<1> DEFINE s == After[t]
           q == s.open
           b == OutBefore(w)
<1>1. /\ Top(v) = v.frames[Len(v.frames)] /\ q \in Seq(Kinds)
      /\ q # <<>> => Top(v).context = Last(q) /\ (Last(q) = "ARRAY" => Top(v).expect_value)
  BY FollowsFacts
<1>2. Standing(t, s) /\ q # <<>> /\ t # <<>>
  <2>1. s.wants \in {"colon", "next"}
    BY DEF TakesComma
  <2> QED BY <2>1, StandingAfter DEF Standing, TakesComma
<1>3. WriteToken(v, s, e) = v
  BY DEF WriteToken
<1>4. Sound(v) /\ v.last_error = "SUCCESS" /\ v.has_buffer /\ TopFollows(s, v) /\ e \in Tokens
      /\ (OutFollows(w, t, s, v) => v.out = b \o Shown(t, s))
  BY <1>2 DEF Follows, OutFollows, Tokens
<1>5. \A wants : FramesFollow(w, Behind(q, wants), v)
  <2>1. Top(v).context = "ARRAY" => Top(v).expect_value
    BY <1>1, <1>2
  <2>2. Len(v.frames) = Len(v.frames) /\ \A j \in 1..Len(v.frames) - 1 : v.frames[j] = v.frames[j]
    OBVIOUS
  <2> QED BY <1>1, <2>1, <2>2, FramesFollowTop
<1>6. Last(Append(t, e)) = e /\ Front(Append(t, e)) = t
  BY <1>4, AppendedFrontAndLast
<1>7. After[Append(t, e)] = Read(s, e)
  BY <1>4, AfterRecursion
<1>8. CASE e = "colon"
  <2>1. s.wants = "colon"
    BY <1>8
  <2>2. After[Append(t, e)] = Behind(q, "value")
    BY <1>7, <1>8, <2>1, ReadAllowed
  <2>3. Last(t) # "comma" /\ Last(q) = "OBJECT"
    BY <1>2, <2>1 DEF Standing
  <2> HIDE DEF q, b
  <2>4. Shown(Append(t, e), Behind(q, "value")) = Append(t, e)
    BY <1>6, <1>8, Fields DEF Shown
  <2>5. Shown(t, s) = Append(t, e)
    BY <1>8, <2>1, <2>3 DEF Shown
  <2>6. TopFollows(Behind(q, "value"), v)
    <3>1. Top(v).expect_value
      BY <1>2, <1>4, <2>1 DEF TopFollows, q
    <3> QED BY <2>3, <3>1, Fields DEF TopFollows
  <2>7. OutFollows(w, t, s, v) => v.out = b \o Shown(Append(t, e), Behind(q, "value"))
    BY <1>4, <2>4, <2>5
  <2>8. Continues(w, t, v, Append(t, e), v)
    BY <1>4, <1>5, <2>2, <2>6, <2>7, FollowsStep DEF b
  <2> QED BY <1>3, <2>8
<1>9. CASE e = "comma"
  <2> DEFINE wants == IF Within(s, "ARRAY") THEN "value" ELSE "name"
  <2>1. TakesComma(s) /\ s.wants = "next"
    BY <1>9 DEF TakesComma
  <2>2. After[Append(t, e)] = Behind(q, wants)
    BY <1>7, <1>9, <2>1, ReadAllowed
  <2>3. Last(t) # "comma"
    BY <1>2, <2>1 DEF Standing
  <2>4. Shown(t, s) = t
    BY <2>1, <2>3 DEF Shown
  <2>5. TopFollows(Behind(q, wants), v)
    <3>1. Top(v).item_count > 0
      BY <1>2, <1>4, <2>1 DEF TopFollows
    <3>2. wants \in {"value", "name"} /\ (wants = "value" => Last(q) = "ARRAY")
      BY DEF Within
    <3>3. wants = "value" => Top(v).expect_value
      BY <1>1, <1>2, <3>2
    <3> HIDE DEF q, wants
    <3> QED BY <3>1, <3>2, <3>3, Fields DEF TopFollows
  <2> HIDE DEF q, b, wants
  <2>6. Shown(Append(t, e), Behind(q, wants)) = t
    BY <1>6, <1>9 DEF Shown
  <2>7. OutFollows(w, t, s, v) => v.out = b \o Shown(Append(t, e), Behind(q, wants))
    BY <1>4, <2>4, <2>6
  <2>8. Continues(w, t, v, Append(t, e), v)
    BY <1>4, <1>5, <2>2, <2>5, <2>7, FollowsStep DEF b
  <2> QED BY <1>3, <2>8
<1> QED BY <1>8, <1>9

\* A scalar.
LEMMA FollowsScalar ==
  ASSUME NEW w, Ready(w), NEW t \in Seq(Tokens), NEW v, Follows(w, t, v),
         NEW e \in {"str", "lit", "raw"}, TakesValue(After[t])
  PROVE  Continues(w, t, v, Append(t, e), WriteToken(v, After[t], e))
<1> DEFINE s == After[t]
           q == s.open
           b == OutBefore(w)
           next == WriteToken(v, s, e)
           sep == Comma(Top(v))
           m == Len(v.frames)
<1>1. /\ Shaped(v) /\ Top(v) = v.frames[m] /\ Top(v) \in Frame /\ v.out \in Seq(Tokens) /\ m \in Nat \ {0}
  BY FollowsFacts
<1>2. can_write(Top(v)) /\ (OutFollows(w, t, s, v) => v.out \o sep = b \o t)
  BY ReadyForValue
<1>3. ~TakesName(s)
  BY DEF TakesValue, TakesName, Within
<1>4. next = write_value(v, sep, e)
  BY <1>3 DEF WriteToken, write_scalar
<1>5. v \in WriterType /\ v.frames # <<>> /\ sep \in Separators /\ e \in Tokens /\ v.last_error = "SUCCESS" /\ v.has_buffer
      /\ Sound(v) /\ b \in Seq(Tokens)
  BY <1>1, ShapedFacts, SeparatorsType, OutBeforeType DEF Follows, Tokens, Scalars
<1>6. /\ next \in WriterType /\ Len(next.frames) = m
      /\ \A j \in 1..m - 1 : next.frames[j] = v.frames[j]
      /\ next.frames[m] = Written(Top(v))
      /\ Emitted(v, next, sep \o <<e>>)
  BY <1>2, <1>4, <1>5, WriteValueFacts
<1>7. Sound(next)
  BY <1>4, <1>5, SoundValue
<1>8. next.last_error = "SUCCESS" /\ next.has_buffer /\ next.out = v.out \o (sep \o <<e>>)
  <2> DEFINE tokens == sep \o <<e>>
  <2>1. Emitted(v, next, tokens)
    BY <1>6
  <2> HIDE DEF tokens, next
  <2> QED BY <1>5, <2>1, EmittedOk DEF tokens
<1> HIDE DEF b, sep, next
<1>9. OutFollows(w, t, s, v) => next.out = b \o Append(t, e)
  <2>1. v.out \in Seq(Tokens) /\ sep \in Separators /\ e \in Tokens /\ b \in Seq(Tokens)
    BY <1>1, <1>5
  <2>2. OutFollows(w, t, s, v) => v.out \o sep = b \o t
    BY <1>2
  <2> HIDE DEF s
  <2>3. ASSUME v.out \o sep = b \o t
        PROVE  v.out \o (sep \o <<e>>) = b \o Append(t, e)
    BY <2>1, <2>3, OutStep
  <2> QED BY <1>8, <2>2, <2>3
<1>10. /\ Written(Top(v)).context = Top(v).context
       /\ Written(Top(v)).item_count = Top(v).item_count + 1
       /\ Written(Top(v)).expect_value = (Top(v).context = "ARRAY")
       /\ Top(v).item_count \in Nat
  BY <1>1, WrittenFacts DEF Frame
<1>11. After[Append(t, e)] = Behind(q, "next")
  BY <1>5, AfterRecursion, ReadAllowed
<1>12. FramesFollow(w, Behind(q, "next"), next)
  BY <1>6, <1>10, FramesFollowTop
<1>13. Top(next).item_count > 0
  BY <1>6, <1>10 DEF Top
<1> HIDE DEF q
<1>14. TopFollows(Behind(q, "next"), next)
  BY <1>13, Fields DEF TopFollows
<1>15. Shown(Append(t, e), Behind(q, "next")) = Append(t, e)
  <2>1. Last(Append(t, e)) # "comma"
    BY <1>5, AppendedFrontAndLast
  <2> QED BY <2>1, Fields DEF Shown
<1>16. OutFollows(w, t, s, v) => next.out = b \o Shown(Append(t, e), Behind(q, "next"))
  BY <1>9, <1>15
<1>17. Continues(w, t, v, Append(t, e), next)
  BY <1>5, <1>7, <1>8, <1>11, <1>12, <1>14, <1>16, FollowsStep DEF b
<1> QED BY <1>17 DEF next

\* A name.
LEMMA FollowsName ==
  ASSUME NEW w, Ready(w), NEW t \in Seq(Tokens), NEW v, Follows(w, t, v), TakesName(After[t])
  PROVE  Continues(w, t, v, Append(t, "str"), WriteToken(v, After[t], "str"))
<1> DEFINE s == After[t]
           q == s.open
           b == OutBefore(w)
           e == "str"
           next == WriteToken(v, s, e)
           sep == CommaOfRaw(Top(v))
           m == Len(v.frames)
<1>1. /\ Shaped(v) /\ Top(v) = v.frames[m] /\ Top(v) \in Frame /\ v.out \in Seq(Tokens) /\ m \in Nat \ {0}
  BY FollowsFacts
<1>2. Top(v).context = "OBJECT" /\ (OutFollows(w, t, s, v) => v.out \o sep = b \o t)
  BY ReadyForName
<1>3. next = write_property_name(v)
  BY DEF WriteToken
<1>4. v \in WriterType /\ v.frames # <<>> /\ sep \in Separators /\ e \in Tokens /\ "colon" \in Tokens
      /\ v.last_error = "SUCCESS" /\ v.has_buffer /\ Sound(v) /\ b \in Seq(Tokens)
  BY <1>1, ShapedFacts, SeparatorsType, OutBeforeType DEF Follows, Tokens, Scalars
<1>5. /\ next \in WriterType /\ Len(next.frames) = m
      /\ \A j \in 1..m - 1 : next.frames[j] = v.frames[j]
      /\ next.frames[m] \in Frame
      /\ next.frames[m].context = "OBJECT" /\ next.frames[m].expect_value
      /\ next.frames[m].item_count = Top(v).item_count
      /\ Emitted(v, next, sep \o <<"str", "colon">>)
  BY <1>2, <1>3, <1>4, WriteNameFacts
<1>6. Sound(next)
  BY <1>3, <1>4, SoundName
<1>7. next.last_error = "SUCCESS" /\ next.has_buffer /\ next.out = v.out \o (sep \o <<"str", "colon">>)
  <2> DEFINE tokens == sep \o <<"str", "colon">>
  <2>1. Emitted(v, next, tokens)
    BY <1>5
  <2> HIDE DEF tokens, next
  <2> QED BY <1>4, <2>1, EmittedOk DEF tokens
<1> HIDE DEF b, sep, next
<1>8. OutFollows(w, t, s, v) => next.out = b \o Append(Append(t, e), "colon")
  <2>1. OutFollows(w, t, s, v) => next.out = Append(Append(b \o t, e), "colon")
    <3>1. v.out \o (sep \o <<"str", "colon">>) = Append(Append(v.out \o sep, "str"), "colon")
      BY <1>1, <1>4, SeparatedName
    <3> QED BY <1>2, <1>7, <3>1
  <2>2. Append(t, e) \in Seq(Tokens) /\ b \o Append(t, e) = Append(b \o t, e)
    BY <1>4, AppendProperties, ConcatAppend
  <2>3. b \o Append(Append(t, e), "colon") = Append(b \o Append(t, e), "colon")
    <3> DEFINE u == Append(t, e)
    <3>1. u \in Seq(Tokens)
      BY <2>2
    <3> HIDE DEF u
    <3>2. b \o Append(u, "colon") = Append(b \o u, "colon")
      BY <1>4, <3>1, ConcatAppend
    <3> QED BY <3>2 DEF u
  <2> QED BY <2>1, <2>2, <2>3
<1>9. After[Append(t, e)] = Behind(q, "colon")
  BY <1>4, AfterRecursion, ReadAllowed
<1>10. FramesFollow(w, Behind(q, "colon"), next)
  BY <1>2, <1>5, FramesFollowTop
<1>11. Top(next).expect_value
  BY <1>5 DEF Top
<1> HIDE DEF q, e
<1>12. TopFollows(Behind(q, "colon"), next)
  BY <1>11, Fields DEF TopFollows
<1>13. Shown(Append(t, e), Behind(q, "colon")) = Append(Append(t, e), "colon")
  <2>1. Last(Append(t, e)) # "comma"
    BY <1>4, AppendedFrontAndLast DEF e
  <2> QED BY <2>1, Fields DEF Shown
<1>14. OutFollows(w, t, s, v) => next.out = b \o Shown(Append(t, e), Behind(q, "colon"))
  BY <1>8, <1>13
<1>15. Continues(w, t, v, Append(t, e), next)
  BY <1>4, <1>6, <1>7, <1>9, <1>10, <1>12, <1>14, FollowsStep DEF b
<1> QED BY <1>15 DEF next, e

\* A closing bracket.
LEMMA FollowsClose ==
  ASSUME NEW w, Ready(w), NEW t \in Seq(Tokens), NEW v, Follows(w, t, v), NEW kind \in Kinds,
         TakesEnd(After[t], kind)
  PROVE  Continues(w, t, v, Append(t, CloseOf(kind)), WriteToken(v, After[t], CloseOf(kind)))
<1> DEFINE s == After[t]
           q == s.open
           f == Front(q)
           b == OutBefore(w)
           e == CloseOf(kind)
           next == WriteToken(v, s, e)
           k == Len(w.frames)
           n == Len(q)
           m == Len(v.frames)
<1>1. /\ Shaped(v) /\ k \in Nat \ {0} /\ m \in Nat \ {0} /\ q \in Seq(Kinds) /\ n \in Nat /\ (q = <<>> <=> n = 0)
      /\ m = k + n /\ Top(v) = v.frames[m] /\ v.out \in Seq(Tokens)
      /\ q # <<>> => m # 1 /\ Top(v).context = Last(q)
  <2>1. Ready(w) /\ t \in Seq(Tokens) /\ Follows(w, t, v)
    OBVIOUS
  <2> QED BY ONLY <2>1, FollowsFacts
<1>2. q # <<>> /\ Last(q) = kind /\ s.wants \in {"first", "next"} /\ Standing(t, s)
  BY StandingAfter DEF TakesEnd, Within
<1>3. next = write_end(v, kind, e)
  <2>1. kind \in {"ARRAY", "OBJECT"}
    BY DEF Kinds
  <2>2. CASE kind = "ARRAY"
    BY <2>2 DEF WriteToken, CloseOf, write_end_array
  <2>3. CASE kind = "OBJECT"
    BY <2>3 DEF WriteToken, CloseOf, write_end_object
  <2> QED BY <2>1, <2>2, <2>3
<1>4. v \in WriterType /\ v.frames # <<>> /\ e \in Tokens /\ e # "comma" /\ v.last_error = "SUCCESS" /\ v.has_buffer
      /\ Sound(v) /\ b \in Seq(Tokens) /\ \A j \in 1..m : v.frames[j] \in Frame
  BY <1>1, ShapedFacts, OutBeforeType DEF Follows, CloseOf, Tokens, Closing
<1>5. /\ next \in WriterType /\ Len(next.frames) = m - 1
      /\ \A j \in 1..m - 2 : next.frames[j] = v.frames[j]
      /\ next.frames[m - 1] \in Frame
      /\ next.frames[m - 1].context = v.frames[m - 1].context
      /\ next.frames[m - 1].expect_value = v.frames[m - 1].expect_value
      /\ next.frames[m - 1].item_count = v.frames[m - 1].item_count + 1
      /\ Emitted(v, next, <<e>>)
  <2>1. m # 1 /\ Top(v).context = kind
    BY <1>1, <1>2
  <2> HIDE DEF e, next
  <2> QED BY <1>3, <1>4, <2>1, CloseFacts, SMTT(30)
<1>6. Sound(next)
  BY <1>3, <1>4, SoundEnd
<1>7. next.last_error = "SUCCESS" /\ next.has_buffer /\ next.out = v.out \o <<e>>
  <2> DEFINE tokens == <<e>>
  <2>1. Emitted(v, next, tokens)
    BY <1>5
  <2> HIDE DEF tokens, next
  <2> QED BY <1>4, <2>1, EmittedOk DEF tokens
<1>8. FramesFollow(w, s, v) /\ t # <<>> /\ (OutFollows(w, t, s, v) => v.out = b \o Shown(t, s))
  BY <1>2 DEF Follows, OutFollows, Standing
<1>9. Shown(t, s) = t
  BY <1>2 DEF Standing, Shown
<1> HIDE DEF b, next, e
<1>10. OutFollows(w, t, s, v) => next.out = b \o Append(t, e)
  <2>1. Append(b \o t, e) = (b \o t) \o <<e>> /\ b \o Append(t, e) = Append(b \o t, e)
    BY <1>4, ConcatAppend, AppendIsConcat
  <2> QED BY <1>7, <1>8, <1>9, <2>1
<1>11. After[Append(t, e)] = Behind(f, "next")
  BY <1>4, AfterRecursion, ReadAllowed DEF e
<1>12. f \in Seq(Kinds) /\ Len(f) = n - 1 /\ \A i \in 1..n - 1 : f[i] = q[i]
  <2>1. n - 1 \in 0..Len(q) /\ f = SubSeq(q, 1, n - 1)
    BY <1>1, <1>2 DEF Front
  <2> HIDE DEF f, q
  <2> QED BY <1>1, <2>1, Prefix, ZenonT(60)
<1>13. /\ \A i \in 1..k - 1 : v.frames[i] = w.frames[i]
       /\ v.frames[k].context = w.frames[k].context
       /\ \A i \in 1..n : v.frames[k + i].context = q[i] /\ (q[i] = "ARRAY" => v.frames[k + i].expect_value)
  BY <1>8 DEF FramesFollow
<1>14. Top(next) = next.frames[m - 1]
  BY <1>5 DEF Top
<1> HIDE DEF f, q, k, n, m
<1>15. Behind(f, "next").open = f /\ Behind(f, "next").wants = "next" /\ n # 0
  BY <1>1, <1>2, Fields
<1>16. FramesFollow(w, Behind(f, "next"), next)
  <2>1. Len(next.frames) = k + Len(f)
    BY <1>1, <1>5, <1>12
  <2>2. ASSUME NEW i \in 1..k - 1 PROVE next.frames[i] = w.frames[i]
    <3>1. i \in 1..m - 2
      BY <1>1, <1>15
    <3> QED BY <1>5, <1>13, <3>1
  <2>3. next.frames[k].context = w.frames[k].context
    <3>1. k = m - 1 \/ k \in 1..m - 2
      BY <1>1, <1>15
    <3> QED BY <1>5, <1>13, <3>1
  <2>4. ASSUME NEW i \in 1..n - 1
        PROVE  next.frames[k + i].context = f[i] /\ (f[i] = "ARRAY" => next.frames[k + i].expect_value)
    <3>1. i \in 1..n /\ (k + i = m - 1 \/ k + i \in 1..m - 2)
      <4>1. i \in Int /\ 1 <= i /\ i <= n - 1 /\ n \in Nat /\ k \in Nat /\ m = k + n
        BY <1>1
      <4> QED BY <4>1
    <3> QED BY <1>5, <1>12, <1>13, <3>1
  <2> QED BY <1>12, <1>15, <2>1, <2>2, <2>3, <2>4 DEF FramesFollow, k
<1>17. TopFollows(Behind(f, "next"), next)
  <2>1. m - 1 \in 1..m
    BY <1>1, <1>15
  <2>2. v.frames[m - 1].item_count \in Nat
    BY <1>4, <2>1 DEF Frame
  <2>3. Top(next).item_count > 0
    BY <1>5, <1>14, <2>2
  <2> QED BY <1>15, <2>3 DEF TopFollows
<1>18. Shown(Append(t, e), Behind(f, "next")) = Append(t, e)
  <2>1. Last(Append(t, e)) # "comma"
    BY <1>4, AppendedFrontAndLast
  <2> QED BY <1>15, <2>1 DEF Shown
<1>19. OutFollows(w, t, s, v) => next.out = b \o Shown(Append(t, e), Behind(f, "next"))
  BY <1>10, <1>18
<1>20. Continues(w, t, v, Append(t, e), next)
  BY <1>4, <1>6, <1>7, <1>11, <1>16, <1>17, <1>19, FollowsStep DEF b
<1> QED BY <1>20 DEF next, e

FollowsText(w, t, v) == Follows(w, t, v) /\ OutFollows(w, t, After[t], v)

LEMMA FollowsTextStep ==
  ASSUME NEW w, NEW t, NEW v, NEW y, NEW next, FollowsText(w, t, v), Continues(w, t, v, y, next)
  PROVE  FollowsText(w, y, next)
BY DEF FollowsText, Continues

\* The writer refuses an object only where it is nested too deep, and follows
\* its text otherwise.

LEMMA SerializedFollows ==
  ASSUME NEW w, Ready(w), NEW t \in Seq(Tokens), After[t].wants # "none"
  PROVE  IF Fits(t, Len(w.frames) - 1) THEN FollowsText(w, t, Serialized(w, t))
                                       ELSE Serialized(w, t).last_error # "SUCCESS"
<1> DEFINE k == Len(w.frames)
           Holds(x) == IF Fits(x, k - 1) THEN FollowsText(w, x, Serialized(w, x))
                                         ELSE Serialized(w, x).last_error # "SUCCESS"
           G == {x \in Seq(Tokens) : After[x].wants # "none" => Holds(x)}
<1>1. Sound(w) /\ w.last_error = "SUCCESS" /\ w.has_buffer /\ k \in Nat \ {0} /\ MAX_JSON_DEPTH \in Nat /\ k <= MAX_JSON_DEPTH
      /\ k - 1 \in Nat /\ Shaped(w)
  BY ShapedFacts DEF Ready, Sound, Shaped
<1>2. /\ Serialized(w, <<>>) = w
      /\ \A x \in Seq(Tokens), e \in Tokens : Serialized(w, Append(x, e)) = WriteOn(Serialized(w, x), After[x], e)
  BY <1>1, SerializedRecursion
<1>3. <<>> \in G
  <2>1. After[<<>>] = Behind(<<>>, "value")
    BY AfterRecursion
  <2>2. FramesFollow(w, Behind(<<>>, "value"), w)
    <3>1. Behind(<<>>, "value").open = <<>> /\ Len(<<>>) = 0
      BY Fields
    <3>2. k + 0 = k /\ 1..0 = {}
      BY <1>1
    <3> QED BY <3>1, <3>2 DEF FramesFollow, k
  <2>3. TopFollows(Behind(<<>>, "value"), w)
    BY Fields DEF TopFollows
  <2>4. FollowsText(w, <<>>, w)
    BY <1>1, <2>1, <2>2, <2>3 DEF FollowsText, Follows, OutFollows
  <2>5. Fits(<<>>, k - 1)
    BY <1>1, FitsEmpty
  <2> QED BY <1>2, <2>4, <2>5, EmptySeq
<1>4. ASSUME NEW x \in Seq(Tokens), NEW e \in Tokens, x \in G PROVE Append(x, e) \in G
  <2> DEFINE s == After[x]
             v == Serialized(w, x)
             y == Append(x, e)
  <2>1. y \in Seq(Tokens) /\ After[y] = Read(s, e)
    BY AppendProperties, AfterRecursion
  <2>2. Serialized(w, y) = WriteOn(v, s, e)
    BY <1>2
  <2>3. Fits(y, k - 1) <=> Fits(x, k - 1) /\ k - 1 + Len(After[y].open) < MAX_JSON_DEPTH
    BY <1>1, FitsAppend
  <2>4. ASSUME Read(s, e).wants # "none" PROVE Holds(y)
    <3>1. s.wants # "none" /\ Holds(x)
      BY <1>4, <2>4, ReadDead
    <3>2. CASE ~Fits(x, k - 1)
      BY <2>2, <2>3, <3>1, <3>2 DEF WriteOn
    <3>3. CASE Fits(x, k - 1)
      <4>1. FollowsText(w, x, v) /\ Follows(w, x, v)
        BY <3>1, <3>3 DEF FollowsText
      <4>2. v.last_error = "SUCCESS"
        BY <4>1 DEF Follows
      <4>3. Serialized(w, y) = WriteToken(v, s, e)
        BY <2>2, <4>2 DEF WriteOn
      <4>4. Len(s.open) \in Nat /\ s.open \in Seq(Kinds) /\ Len(v.frames) = k + Len(s.open) /\ Len(v.frames) <= MAX_JSON_DEPTH
        <5>1. Ready(w) /\ x \in Seq(Tokens) /\ Follows(w, x, v)
          BY <4>1
        <5>2. Shaped(v) /\ Len(s.open) \in Nat /\ s.open \in Seq(Kinds) /\ Len(v.frames) = k + Len(s.open)
          BY ONLY <5>1, FollowsFacts
        <5>3. Len(v.frames) \in 1..MAX_JSON_DEPTH
          BY <5>2 DEF Shaped
        <5>4. Len(v.frames) <= MAX_JSON_DEPTH
          <6> HIDE DEF v
          <6> QED BY <1>1, <5>3
        <5> QED BY <5>2, <5>4
      <4>5. ASSUME Len(After[y].open) \in Nat, Len(After[y].open) <= Len(s.open),
                   Continues(w, x, v, y, Serialized(w, y))
            PROVE  Holds(y)
        <5>1. k - 1 + Len(After[y].open) < MAX_JSON_DEPTH
          <6> DEFINE a == Len(After[y].open)
                     c == Len(s.open)
          <6>1. a \in Nat /\ c \in Nat /\ a <= c /\ k + c <= MAX_JSON_DEPTH
            BY <4>4, <4>5
          <6> HIDE DEF a, c, k
          <6>2. k - 1 + a < MAX_JSON_DEPTH
            BY <1>1, <6>1
          <6> QED BY <6>2 DEF a
        <5>2. FollowsText(w, y, Serialized(w, y))
          BY <4>1, <4>5, FollowsTextStep
        <5> QED BY <2>3, <3>3, <5>1, <5>2
      <4> HIDE DEF v
      <4>6. ASSUME NEW kind \in Kinds, e = OpenOf(kind), TakesValue(s), Read(s, e) = Behind(Append(s.open, kind), "first")
            PROVE  Holds(y)
        <5>1. Len(After[y].open) = Len(s.open) + 1
          <6> DEFINE o == Append(s.open, kind)
          <6>1. Len(o) = Len(s.open) + 1
            BY <4>4, AppendProperties
          <6>2. After[y] = Behind(o, "first")
            BY <2>1, <4>6
          <6> HIDE DEF o
          <6> QED BY <6>1, <6>2, Fields
        <5>2. k - 1 + Len(After[y].open) < MAX_JSON_DEPTH <=> k + Len(s.open) < MAX_JSON_DEPTH
          <6> DEFINE a == Len(After[y].open)
                     c == Len(s.open)
          <6>1. c \in Nat /\ a = c + 1
            BY <4>4, <5>1
          <6> HIDE DEF a, c, k
          <6>2. k - 1 + a < MAX_JSON_DEPTH <=> k + c < MAX_JSON_DEPTH
            BY <1>1, <6>1
          <6> QED BY <6>2 DEF a, c
        <5>3. IF k + Len(s.open) < MAX_JSON_DEPTH
              THEN Continues(w, x, v, Append(x, OpenOf(kind)), WriteToken(v, s, OpenOf(kind)))
              ELSE WriteToken(v, s, OpenOf(kind)).last_error # "SUCCESS"
          BY <4>1, <4>6, FollowsOpen
        <5> QED BY <2>3, <3>3, <4>1, <4>3, <4>6, <5>2, <5>3, FollowsTextStep, ZenonT(60)
      <4>7. ASSUME NEW kind \in Kinds, e = CloseOf(kind), TakesEnd(s, kind), Read(s, e) = Behind(Front(s.open), "next")
            PROVE  Holds(y)
        <5>1. Continues(w, x, v, Append(x, CloseOf(kind)), WriteToken(v, s, CloseOf(kind)))
          BY <4>1, <4>7, FollowsClose
        <5>2. After[y].open = Front(s.open)
          <6> DEFINE o == Front(s.open)
          <6>1. After[y] = Behind(o, "next")
            BY <2>1, <4>7
          <6> HIDE DEF o
          <6>2. After[y].open = o
            BY <6>1, Fields
          <6> QED BY <6>2 DEF o
        <5>3. Len(Front(s.open)) = Len(s.open) - 1 /\ Len(s.open) \in Nat \ {0}
          BY <4>4, <4>7, FrontAndLast, EmptySeq DEF TakesEnd, Within
        <5> QED BY <4>3, <4>5, <4>7, <5>1, <5>2, <5>3
      <4>8. CASE e = "str" /\ TakesName(s) /\ Read(s, e) = Behind(s.open, "colon")
        BY <2>1, <4>1, <4>3, <4>4, <4>5, <4>8, FollowsName, Fields
      <4>9. CASE e \in {"str", "lit", "raw"} /\ TakesValue(s) /\ Read(s, e) = Behind(s.open, "next")
        BY <2>1, <4>1, <4>3, <4>4, <4>5, <4>9, FollowsScalar, Fields
      <4>10. CASE e = "colon" /\ s.wants = "colon" /\ Read(s, e) = Behind(s.open, "value")
        BY <2>1, <4>1, <4>3, <4>4, <4>5, <4>10, FollowsSeparator, Fields
      <4>11. CASE e = "comma" /\ TakesComma(s) /\ Read(s, e) \in {Behind(s.open, "value"), Behind(s.open, "name")}
        BY <2>1, <4>1, <4>3, <4>4, <4>5, <4>11, FollowsSeparator, Fields
      <4> HIDE DEF Holds, y, s
      <4> QED BY <2>4, <4>6, <4>7, <4>8, <4>9, <4>10, <4>11, ReadCases
    <3> QED BY <3>2, <3>3
  <2> HIDE DEF y
  <2>5. y \in G
    <3> HIDE DEF Holds
    <3> QED BY <2>1, <2>4
  <2> QED BY <2>5 DEF y
<1>5. Seq(Tokens) \subseteq G
  <2> HIDE DEF G
  <2> QED BY <1>3, <1>4, SequenceInduction
<1> QED BY <1>5

\* An object is written whole, or refused where it is nested too deep.
LEMMA WriteObjectFacts ==
  ASSUME NEW w, Ready(w), NEW object, IsJson(object), NEW v, v = write_object(w, object),
         NEW n, n = Len(w.frames)
  PROVE  IF Fits(object, n - 1)
         THEN /\ Sound(v) /\ v.last_error = "SUCCESS" /\ v.has_buffer
              /\ Len(v.frames) = n
              /\ \A j \in 1..n - 1 : v.frames[j] = w.frames[j]
              /\ v.frames[n].context = Top(w).context
              /\ v.frames[n].item_count > 0
              /\ v.frames[n].expect_value = (Top(w).context = "ARRAY")
              /\ v.out = ((w.out \o CommaOfRaw(Top(w))) \o Comma(Top(w))) \o object
         ELSE v.last_error # "SUCCESS"
<1> DEFINE u == Emit(w, CommaOfRaw(Top(w)))
           x == Serialized(u, object)
<1>w. Sound(w) /\ Shaped(w) /\ can_write(Top(w)) /\ w.last_error = "SUCCESS" /\ w.has_buffer
  BY DEF Ready, Sound
<1>o. object \in Seq(Tokens) /\ After[object] = Behind(<<>>, "next") /\ After[object].open = <<>>
      /\ After[object].wants = "next" /\ object # <<>> /\ Last(object) # "comma"
  <2>1. object \in Seq(Tokens) /\ After[object] = Behind(<<>>, "next")
    BY DEF IsJson
  <2>2. After[object].open = <<>> /\ After[object].wants = "next"
    BY <2>1, Fields
  <2>3. Standing(object, After[object])
    BY <2>1, <2>2, StandingAfter
  <2> QED BY <2>1, <2>2, <2>3 DEF Standing
<1>u. Sound(u) /\ u.frames = w.frames /\ u.has_buffer /\ u.last_error = "SUCCESS" /\ u.out = w.out \o CommaOfRaw(Top(w))
  <2>1. CommaOfRaw(Top(w)) \in Separators
    BY SeparatorsType
  <2> QED BY <1>w, <2>1, SoundEmitSeparator
<1> HIDE DEF u
<1>t. Top(u) = Top(w)
  BY <1>u DEF Top
<1>r. Ready(u)
  BY <1>u, <1>t, <1>w DEF Ready
<1> HIDE DEF x
<1>x. IF Fits(object, Len(u.frames) - 1) THEN FollowsText(u, object, x) ELSE x.last_error # "SUCCESS"
  BY <1>r, <1>o, SerializedFollows DEF x
<1>s. Sound(x)
  BY <1>u, <1>o, SerializedRecursion DEF x
<1>v. v = SetFrame(x, n, Written(x.frames[n]))
  BY <1>w DEF write_object, x, u
<1>n. n \in Nat \ {0} /\ n = Len(u.frames)
  BY <1>w, <1>u, ShapedFacts
<1>a. ASSUME ~Fits(object, n - 1) PROVE v.last_error # "SUCCESS"
  <2>1. x.last_error # "SUCCESS"
    BY <1>a, <1>x, <1>n
  <2>2. x \in WriterType /\ \A i \in 1..Len(x.frames) : x.frames[i] \in Frame
    BY <1>s, ShapedFacts DEF Sound
  <2>3. n \in 1..Len(x.frames) => Written(x.frames[n]) \in Frame
    BY <2>2, WrittenFacts
  <2>4. v.last_error = x.last_error
    BY <1>v, <2>2, <2>3, SetFrameFacts
  <2> QED BY <2>1, <2>4
<1>b. ASSUME Fits(object, n - 1)
      PROVE  /\ Sound(v) /\ v.last_error = "SUCCESS" /\ v.has_buffer
             /\ Len(v.frames) = n
             /\ \A j \in 1..n - 1 : v.frames[j] = w.frames[j]
             /\ v.frames[n].context = Top(w).context
             /\ v.frames[n].item_count > 0
             /\ v.frames[n].expect_value = (Top(w).context = "ARRAY")
             /\ v.out = ((w.out \o CommaOfRaw(Top(w))) \o Comma(Top(w))) \o object
  <2>1. Follows(u, object, x) /\ OutFollows(u, object, After[object], x)
    BY <1>b, <1>x, <1>n DEF FollowsText
  <2>2. x.last_error = "SUCCESS" /\ x.has_buffer /\ FramesFollow(u, After[object], x) /\ TopFollows(After[object], x)
    BY <2>1 DEF Follows
  <2>3. x \in WriterType /\ (\A i \in 1..Len(x.frames) : x.frames[i] \in Frame) /\ Top(x) = x.frames[Len(x.frames)]
    BY <1>s, ShapedFacts DEF Sound
  <2>4. /\ Len(x.frames) = n
        /\ \A j \in 1..n - 1 : x.frames[j] = w.frames[j]
        /\ x.frames[n].context = w.frames[n].context
    <3>1. Len(After[object].open) = 0
      BY <1>o
    <3> QED BY <2>2, <3>1, <1>n, <1>u DEF FramesFollow
  <2>5. x.frames[n].item_count > 0 /\ x.frames[n] \in Frame
    BY <2>2, <2>3, <2>4, <1>o, <1>n DEF TopFollows
  <2>6. Top(w) = w.frames[n]
    BY DEF Top
  <2>7. x.out = OutBefore(u) \o object
    BY <2>1, <1>o DEF OutFollows, Shown
  <2>8. OutBefore(u) = (w.out \o CommaOfRaw(Top(w))) \o Comma(Top(w))
    BY <1>u, <1>t DEF OutBefore
  <2> DEFINE f == Written(x.frames[n])
  <2>9. f \in Frame /\ f.context = x.frames[n].context /\ f.item_count = x.frames[n].item_count + 1
        /\ f.expect_value = (x.frames[n].context = "ARRAY")
    BY <2>5, WrittenFacts
  <2>10. v = SetFrame(x, n, f)
    BY <1>v
  <2>11. Sound(v)
    BY <1>s, <1>v, SoundCounted
  <2> HIDE DEF f
  <2>12. /\ Len(v.frames) = n
         /\ \A j \in 1..Len(x.frames) : j # n => v.frames[j] = x.frames[j]
         /\ v.frames[n] = f /\ v.last_error = x.last_error /\ v.has_buffer = x.has_buffer /\ v.out = x.out
    BY <2>3, <2>4, <2>9, <2>10, <1>n, SetFrameFacts
  <2>13. \A j \in 1..n - 1 : v.frames[j] = w.frames[j]
    BY <2>12, <2>4, <1>n
  <2>14. x.frames[n].item_count \in Nat
    BY <2>5 DEF Frame
  <2>15. v.frames[n].item_count > 0
    BY <2>14, <2>12, <2>9
  <2> QED BY <2>2, <2>4, <2>6, <2>7, <2>8, <2>9, <2>11, <2>12, <2>13, <2>15
<1> QED BY <1>a, <1>b

-----------------------------------------------------------------------------
(* A caller that keeps to JSON: the writer follows the text of its calls.  *)

LEMMA NewWriterFacts ==
  /\ Ready(NewWriter) /\ Follows(NewWriter, <<>>, NewWriter)
  /\ Len(NewWriter.frames) = 1 /\ OutBefore(NewWriter) = <<>> /\ NewWriter.out = <<>>
  /\ NewWriter.frames[1] = NewFrame("ROOT") /\ Top(NewWriter) = NewFrame("ROOT")
  /\ NewWriter.last_error = "SUCCESS" /\ NewWriter.has_buffer
<1> DEFINE w == NewWriter
<1>f. NewFrame("ROOT") \in Frame /\ NewFrame("ROOT").context = "ROOT"
      /\ NewFrame("ROOT").item_count = 0 /\ NewFrame("ROOT").expect_value = FALSE
  <2>1. "ROOT" \in Contexts
    BY DEF Contexts
  <2> QED BY <2>1, NewFrameFacts
<1>1. w.frames = <<NewFrame("ROOT")>> /\ w.last_error = "SUCCESS" /\ w.has_buffer = TRUE /\ w.out = <<>>
  BY DEF NewWriter
<1>2. w.frames \in Seq(Frame) /\ Len(w.frames) = 1 /\ w.frames[1] = NewFrame("ROOT") /\ Top(w) = NewFrame("ROOT")
  BY <1>1, <1>f DEF Top
<1>3. w \in WriterType
  <2>1. <<>> \in Seq(Tokens)
    OBVIOUS
  <2> QED BY <1>2, <2>1 DEF NewWriter, WriterType
<1>4. Shaped(w)
  BY <1>2, <1>3, <1>f, DepthAssumption DEF Shaped
<1>5. OpenBrackets[w.out] = <<>>
  BY <1>1, OpenBracketsRecursion
<1>6. Sound(w)
  BY <1>2, <1>4, <1>5 DEF Sound, Balanced
<1>7. Ready(w)
  BY <1>1, <1>2, <1>6, <1>f DEF Ready, can_write
<1>8. After[<<>>] = Behind(<<>>, "value") /\ After[<<>>].open = <<>> /\ After[<<>>].wants = "value"
  BY AfterRecursion, Fields
<1>9. FramesFollow(w, After[<<>>], w)
  BY <1>8, <1>2 DEF FramesFollow
<1>10. TopFollows(After[<<>>], w)
  BY <1>8 DEF TopFollows
<1>11. Follows(w, <<>>, w)
  BY <1>1, <1>6, <1>9, <1>10 DEF Follows
<1>12. OutBefore(w) = <<>>
  BY <1>1, <1>2, <1>f DEF OutBefore, Comma
<1> QED BY <1>1, <1>2, <1>7, <1>11, <1>12

\* The count of an object that wants the value behind a name.
CountFollows(t, v) ==
    After[t].wants = "value" /\ After[t].open # <<>> =>
        (Top(v).item_count > 0 <=> Len(t) > 2 /\ t[Len(t) - 2] = "comma")

\* The writer v is in step with the text t of a legal caller.
InStep(t, v) ==
    /\ Follows(NewWriter, t, v)
    /\ After[t].wants \in {"value", "first", "next"}
    /\ After[t].wants = "value" /\ After[t].open # <<>> => Last(After[t].open) = "OBJECT"
    /\ CountFollows(t, v)

\* The output that follows such a text is the text.
LEMMA OutIsText ==
  ASSUME NEW t \in Seq(Tokens), NEW v, After[t].wants \in {"value", "first", "next"},
         t # <<>> => Last(t) # "comma"
  PROVE  OutFollows(NewWriter, t, After[t], v) <=> v.out = t
<1>1. NewWriter.out = <<>> /\ OutBefore(NewWriter) = <<>>
  BY NewWriterFacts
<1>2. t # <<>> => Shown(t, After[t]) = t
  BY DEF Shown
<1>3. <<>> \o t = t
  OBVIOUS
<1> QED BY <1>1, <1>2, <1>3 DEF OutFollows

LEMMA InStepEnds ==
  ASSUME NEW t \in Seq(Tokens), NEW v, InStep(t, v)
  PROVE  t # <<>> => Last(t) # "comma"
<1>1. After[t].wants \in {"value", "first", "next"}
  BY DEF InStep
<1>2. Standing(t, After[t])
  BY <1>1, StandingAfter
<1> QED BY <1>1, <1>2 DEF InStep, Standing

SeparatorOfText(t) == IF TakesComma(After[t]) THEN <<"comma">> ELSE <<>>

\* Behind the comma, if there has to be one, and before what the call adds.
LEMMA LegalBefore ==
  ASSUME NEW t \in Seq(Tokens), NEW v, InStep(t, v), NEW b, b = t \o SeparatorOfText(t)
  PROVE  /\ b \in Seq(Tokens) /\ Follows(NewWriter, b, v)
         /\ v.out = t => OutFollows(NewWriter, b, After[b], v)
         /\ TakesComma(After[t]) =>
              /\ SeparatorOfText(t) = <<"comma">> /\ b = Append(t, "comma") /\ After[b].open = After[t].open
              /\ After[b].wants = IF Within(After[t], "ARRAY") THEN "value" ELSE "name"
         /\ ~TakesComma(After[t]) => SeparatorOfText(t) = <<>> /\ b = t
<1>0. Follows(NewWriter, t, v) /\ After[t].wants \in {"value", "first", "next"}
  BY DEF InStep
<1>1. Ready(NewWriter)
  BY NewWriterFacts
<1>2. v.out = t => OutFollows(NewWriter, t, After[t], v)
  BY <1>0, InStepEnds, OutIsText
<1>3. ASSUME ~TakesComma(After[t])
      PROVE  SeparatorOfText(t) = <<>> /\ b = t
  BY <1>3 DEF SeparatorOfText
<1>4. ASSUME TakesComma(After[t])
      PROVE  /\ b \in Seq(Tokens) /\ Follows(NewWriter, b, v)
             /\ OutFollows(NewWriter, t, After[t], v) => OutFollows(NewWriter, b, After[b], v)
             /\ SeparatorOfText(t) = <<"comma">> /\ b = Append(t, "comma") /\ After[b].open = After[t].open
             /\ After[b].wants = IF Within(After[t], "ARRAY") THEN "value" ELSE "name"
  <2>1. SeparatorOfText(t) = <<"comma">>
    BY <1>4 DEF SeparatorOfText
  <2>2. "comma" \in Tokens
    BY DEF Tokens
  <2>3. b = Append(t, "comma") /\ b \in Seq(Tokens)
    BY <2>1, <2>2
  <2>4. Continues(NewWriter, t, v, Append(t, "comma"), v)
    BY <1>0, <1>1, <1>4, FollowsSeparator
  <2>5. Continues(NewWriter, t, v, b, v)
    BY <2>3, <2>4
  <2>6. After[b] = Read(After[t], "comma")
    BY <2>2, <2>3, AfterRecursion
  <2>7. After[b] = Behind(After[t].open, IF Within(After[t], "ARRAY") THEN "value" ELSE "name")
    BY <2>6, <1>4, ReadAllowed
  <2>8. After[b].open = After[t].open /\ After[b].wants = IF Within(After[t], "ARRAY") THEN "value" ELSE "name"
    BY <2>7, Fields
  <2> QED BY <2>1, <2>3, <2>5, <2>8 DEF Continues
<1> QED BY <1>0, <1>2, <1>3, <1>4

\* The container has a value already.
HasValuesIn(t, b) ==
    \/ SeparatorOfText(t) # <<>>
    \/ After[b].wants = "value" /\ Len(t) > 2 /\ t[Len(t) - 2] = "comma"

\* The count of the innermost frame says whether the container has a value.
LEMMA CountMeans ==
  ASSUME NEW t \in Seq(Tokens), NEW v, InStep(t, v), NEW b, b = t \o SeparatorOfText(t)
  PROVE  /\ TakesValue(After[b]) => (Top(v).item_count > 0 <=> HasValuesIn(t, b))
         /\ TakesName(After[b]) => (Top(v).item_count > 0 <=> SeparatorOfText(t) # <<>>)
<1>0. Follows(NewWriter, t, v) /\ After[t].wants \in {"value", "first", "next"} /\ CountFollows(t, v)
  BY DEF InStep
<1>1. TopFollows(After[t], v) /\ (t = <<>> => v.frames = NewWriter.frames)
  BY <1>0 DEF Follows
<1>2. After[t].wants = "value" /\ After[t].open # <<>> => Last(After[t].open) = "OBJECT"
  BY DEF InStep
<1>3. Standing(t, After[t])
  BY <1>0, StandingAfter
<1>4. ASSUME TakesComma(After[t])
      PROVE  Top(v).item_count > 0 /\ SeparatorOfText(t) # <<>>
  <2>1. After[t].wants = "next"
    BY <1>4 DEF TakesComma
  <2> QED BY <1>1, <2>1, <1>4 DEF TopFollows, SeparatorOfText
<1>5. ASSUME ~TakesComma(After[t])
      PROVE  /\ TakesValue(After[t]) => (Top(v).item_count > 0 <=> HasValuesIn(t, b))
             /\ TakesName(After[t]) => (Top(v).item_count > 0 <=> SeparatorOfText(t) # <<>>)
             /\ b = t
  <2>1. SeparatorOfText(t) = <<>> /\ b = t
    BY <1>5, LegalBefore
  <2>2. ASSUME After[t].wants = "first"
        PROVE  ~(Top(v).item_count > 0)
    <3>1. After[t].open # <<>>
      BY <2>2, <1>3 DEF Standing
    <3>2. Top(v).item_count = 0
      BY <3>1, <2>2, <1>1 DEF TopFollows
    <3> QED BY <3>2
  <2>3. ASSUME After[t].wants = "value"
        PROVE  /\ Top(v).item_count > 0 <=> HasValuesIn(t, b)
               /\ ~TakesName(After[t])
    <3>1. CASE After[t].open # <<>>
      BY <3>1, <2>1, <2>3, <1>0 DEF CountFollows, HasValuesIn, TakesName
    <3>2. CASE After[t].open = <<>>
      <4>1. t = <<>>
        BY <3>2, <2>3, <1>3 DEF Standing
      <4>2. Top(v) = NewFrame("ROOT")
        BY <4>1, <1>1, NewWriterFacts DEF Top
      <4>3. Top(v).item_count = 0
        BY <4>2 DEF NewFrame
      <4>4. ~(Len(t) > 2)
        BY <4>1
      <4> QED BY <4>3, <4>4, <2>1, <2>3 DEF HasValuesIn, TakesName
    <3> QED BY <3>1, <3>2
  <2>4. After[t].wants = "first" => ~HasValuesIn(t, b)
    BY <2>1 DEF HasValuesIn
  <2>5. TakesValue(After[t]) => After[t].wants \in {"value", "first"}
    BY DEF TakesValue
  <2>6. TakesName(After[t]) => After[t].wants \in {"value", "first"}
    BY <1>0 DEF TakesName
  <2> QED BY <2>1, <2>2, <2>3, <2>4, <2>5, <2>6
<1> QED BY <1>4, <1>5 DEF HasValuesIn

\* What a call that writes a value leaves, when the value is counted.
LEMMA FollowsValue ==
  ASSUME NEW b \in Seq(Tokens), NEW v, Follows(NewWriter, b, v),
         NEW y \in Seq(Tokens), y # <<>>, After[y] = Behind(After[b].open, "next"),
         NEW next, Sound(next), next.last_error = "SUCCESS", next.has_buffer,
         Len(next.frames) = Len(v.frames),
         \A j \in 1..Len(v.frames) - 1 : next.frames[j] = v.frames[j],
         next.frames[Len(v.frames)].context = Top(v).context,
         next.frames[Len(v.frames)].expect_value = (Top(v).context = "ARRAY"),
         next.frames[Len(v.frames)].item_count > 0
  PROVE  InStep(y, next)
<1>1. Ready(NewWriter)
  BY NewWriterFacts
<1>2. Top(v).context = "ARRAY" => next.frames[Len(v.frames)].expect_value
  OBVIOUS
<1>3. FramesFollow(NewWriter, Behind(After[b].open, "next"), next)
  BY <1>1, <1>2, FramesFollowTop
<1>4. After[y].open = After[b].open /\ After[y].wants = "next"
  BY Fields
<1>5. Top(next) = next.frames[Len(v.frames)]
  BY DEF Top
<1>6. TopFollows(After[y], next)
  BY <1>4, <1>5 DEF TopFollows
<1>7. Follows(NewWriter, y, next)
  BY <1>3, <1>6 DEF Follows
<1> QED BY <1>4, <1>7 DEF InStep, CountFollows

\* A call that a legal caller makes: the writer stays in step, and so does the
\* output.
Obeys(t, v, y, next) == InStep(y, next) /\ (v.out = t => next.out = y)

\* From the steps of the last section to those of a caller.
LEMMA ObeysStep ==
  ASSUME NEW t \in Seq(Tokens), NEW v, InStep(t, v), NEW b, b \in {t, t \o SeparatorOfText(t)},
         NEW y \in Seq(Tokens), NEW next, Continues(NewWriter, b, v, y, next),
         NEW open, NEW wants \in {"first", "next"}, After[y] = Behind(open, wants)
  PROVE  Obeys(t, v, y, next)
<1>1. Follows(NewWriter, y, next)
  BY DEF Continues
<1>2. After[y].wants = wants
  BY Fields
<1>3. InStep(y, next)
  BY <1>1, <1>2 DEF InStep, CountFollows
<1>4. v.out = t => OutFollows(NewWriter, b, After[b], v)
  <2>1. CASE b = t \o SeparatorOfText(t)
    BY <2>1, LegalBefore
  <2>2. CASE b = t
    BY <2>2, InStepEnds, OutIsText DEF InStep
  <2> QED BY <2>1, <2>2
<1>5. v.out = t => OutFollows(NewWriter, y, After[y], next)
  BY <1>4 DEF Continues
<1>6. OutFollows(NewWriter, y, After[y], next) <=> next.out = y
  BY <1>2, <1>3, InStepEnds, OutIsText
<1> QED BY <1>3, <1>5, <1>6 DEF Obeys

LEMMA LegalScalar ==
  ASSUME NEW t \in Seq(Tokens), NEW v, InStep(t, v), NEW b, b = t \o SeparatorOfText(t),
         NEW e \in {"str", "lit", "raw"}, TakesValue(After[b])
  PROVE  Obeys(t, v, Append(b, e), write_scalar(v, e))
<1>1. b \in Seq(Tokens) /\ Follows(NewWriter, b, v)
  BY LegalBefore
<1>2. Ready(NewWriter)
  BY NewWriterFacts
<1>3. e \in Tokens
  BY DEF Tokens, Scalars
<1>4. Continues(NewWriter, b, v, Append(b, e), WriteToken(v, After[b], e))
  BY <1>1, <1>2, FollowsScalar
<1>5. ~TakesName(After[b])
  <2>1. After[b].wants = "first" => Within(After[b], "ARRAY")
    BY DEF TakesValue
  <2> QED BY <2>1 DEF TakesValue, TakesName, Within
<1>6. WriteToken(v, After[b], e) = write_scalar(v, e)
  BY <1>5 DEF WriteToken
<1>7. After[Append(b, e)] = Behind(After[b].open, "next") /\ Append(b, e) \in Seq(Tokens)
  <2>1. After[Append(b, e)] = Read(After[b], e)
    BY <1>1, <1>3, AfterRecursion
  <2>2. Read(After[b], e) = Behind(After[b].open, "next")
    BY ReadAllowed
  <2>3. Append(b, e) \in Seq(Tokens)
    BY <1>1, <1>3
  <2> QED BY <2>1, <2>2, <2>3
<1> QED BY <1>1, <1>4, <1>6, <1>7, ObeysStep

LEMMA LegalStart ==
  ASSUME NEW t \in Seq(Tokens), NEW v, InStep(t, v), NEW b, b = t \o SeparatorOfText(t),
         NEW kind \in Kinds, TakesValue(After[b]), Len(After[b].open) + 1 < MAX_JSON_DEPTH
  PROVE  Obeys(t, v, Append(b, OpenOf(kind)), WriteToken(v, After[b], OpenOf(kind)))
<1>1. b \in Seq(Tokens) /\ Follows(NewWriter, b, v)
  BY LegalBefore
<1>2. Ready(NewWriter) /\ Len(NewWriter.frames) = 1
  BY NewWriterFacts
<1>3. OpenOf(kind) \in Tokens
  BY DEF Tokens, OpenOf, Opening
<1>4. Len(NewWriter.frames) + Len(After[b].open) < MAX_JSON_DEPTH
  <2>1. Len(After[b].open) \in Nat
    BY <1>1, AfterType
  <2> QED BY <1>2, <2>1
<1>5. Continues(NewWriter, b, v, Append(b, OpenOf(kind)), WriteToken(v, After[b], OpenOf(kind)))
  BY <1>1, <1>2, <1>4, FollowsOpen
<1>6. After[Append(b, OpenOf(kind))] = Behind(Append(After[b].open, kind), "first") /\ Append(b, OpenOf(kind)) \in Seq(Tokens)
  <2>1. After[Append(b, OpenOf(kind))] = Read(After[b], OpenOf(kind))
    BY <1>1, <1>3, AfterRecursion
  <2>2. Read(After[b], OpenOf(kind)) = Behind(Append(After[b].open, kind), "first")
    BY ReadAllowed
  <2>3. Append(b, OpenOf(kind)) \in Seq(Tokens)
    BY <1>1, <1>3
  <2> QED BY <2>1, <2>2, <2>3
<1> QED BY <1>1, <1>5, <1>6, ObeysStep

LEMMA LegalEnd ==
  ASSUME NEW t \in Seq(Tokens), NEW v, InStep(t, v), NEW kind \in Kinds, TakesEnd(After[t], kind)
  PROVE  Obeys(t, v, Append(t, CloseOf(kind)), write_end(v, kind, CloseOf(kind)))
<1>1. Follows(NewWriter, t, v)
  BY DEF InStep
<1>2. Ready(NewWriter)
  BY NewWriterFacts
<1>3. CloseOf(kind) \in Tokens
  BY DEF Tokens, CloseOf, Closing
<1>4. Continues(NewWriter, t, v, Append(t, CloseOf(kind)), WriteToken(v, After[t], CloseOf(kind)))
  BY <1>1, <1>2, FollowsClose
<1>5. WriteToken(v, After[t], CloseOf(kind)) = write_end(v, kind, CloseOf(kind))
  <2>1. CASE kind = "ARRAY"
    BY <2>1 DEF WriteToken, CloseOf, write_end_array
  <2>2. CASE kind = "OBJECT"
    BY <2>2 DEF WriteToken, CloseOf, write_end_object
  <2> QED BY <2>1, <2>2 DEF Kinds
<1>6. After[Append(t, CloseOf(kind))] = Behind(Front(After[t].open), "next") /\ Append(t, CloseOf(kind)) \in Seq(Tokens)
  BY <1>3, AfterRecursion, ReadAllowed
<1> QED BY <1>4, <1>5, <1>6, ObeysStep

LEMMA LegalName ==
  ASSUME NEW t \in Seq(Tokens), NEW v, InStep(t, v), NEW b, b = t \o SeparatorOfText(t),
         TakesName(After[b])
  PROVE  Obeys(t, v, Append(Append(b, "str"), "colon"), write_property_name(v))
<1> DEFINE m == Append(b, "str")
           y == Append(m, "colon")
           next == write_property_name(v)
<1>0. Ready(NewWriter) /\ "str" \in Tokens /\ "colon" \in Tokens
  BY NewWriterFacts DEF Tokens, Scalars
<1>1. b \in Seq(Tokens) /\ Follows(NewWriter, b, v) /\ (v.out = t => OutFollows(NewWriter, b, After[b], v))
  BY LegalBefore
<1>2. m \in Seq(Tokens) /\ y \in Seq(Tokens) /\ y # <<>> /\ Last(y) = "colon"
  BY <1>0, <1>1, AppendedFrontAndLast
<1>3. WriteToken(v, After[b], "str") = next
  BY DEF WriteToken
<1>4. Continues(NewWriter, b, v, m, next)
  BY <1>0, <1>1, <1>3, FollowsName
<1>5. After[m] = Behind(After[b].open, "colon")
  <2>1. After[m] = Read(After[b], "str")
    BY <1>0, <1>1, AfterRecursion
  <2> QED BY <2>1, ReadAllowed
<1>6. After[m].open = After[b].open /\ After[m].wants = "colon"
  BY <1>5, Fields
<1>7. After[y] = Behind(After[b].open, "value")
  <2>1. After[y] = Read(After[m], "colon")
    BY <1>0, <1>2, AfterRecursion
  <2> QED BY <2>1, <1>6, ReadAllowed
<1>8. After[y].open = After[b].open /\ After[y].wants = "value"
  BY <1>7, Fields
<1>c. Top(next).item_count = Top(v).item_count
  <2>1. Top(v).context = "OBJECT"
    BY <1>0, <1>1, ReadyForName
  <2>2. v \in WriterType /\ v.frames # <<>>
    BY <1>1, ShapedFacts DEF Follows, Sound
  <2> HIDE DEF next
  <2>3. Len(next.frames) = Len(v.frames) /\ next.frames[Len(v.frames)].item_count = Top(v).item_count
    BY <2>1, <2>2, WriteNameFacts DEF next
  <2> QED BY <2>3 DEF Top
<1>l. /\ Len(y) = Len(b) + 2 /\ Len(b) \in Nat
      /\ Len(b) > 0 => y[Len(y) - 2] = b[Len(b)]
  BY <1>0, <1>1
<1> HIDE DEF m, y, next
<1>9. Follows(NewWriter, m, next) /\ (OutFollows(NewWriter, b, After[b], v) => OutFollows(NewWriter, m, After[m], next))
  BY <1>4 DEF Continues
<1>10. Continues(NewWriter, m, next, y, next)
  <2>1. Continues(NewWriter, m, next, Append(m, "colon"), next)
    BY <1>0, <1>2, <1>6, <1>9, FollowsSeparator
  <2> QED BY <2>1 DEF y
<1>11. Follows(NewWriter, y, next) /\ (OutFollows(NewWriter, m, After[m], next) => OutFollows(NewWriter, y, After[y], next))
  BY <1>10 DEF Continues
<1>12. After[b].open # <<>> /\ Last(After[b].open) = "OBJECT"
  <2>1. After[b].wants \in {"name", "first"} /\ (After[b].wants = "first" => Within(After[b], "OBJECT"))
    BY DEF TakesName
  <2>2. Standing(b, After[b])
    BY <1>1, <2>1, StandingAfter
  <2> QED BY <2>1, <2>2 DEF Standing, Within
<1>13. CountFollows(y, next)
  <2>1. Top(v).item_count > 0 <=> SeparatorOfText(t) # <<>>
    BY CountMeans
  <2>2. ASSUME TakesComma(After[t])
        PROVE  (Top(v).item_count > 0) /\ Len(y) > 2 /\ y[Len(y) - 2] = "comma"
    <3>1. SeparatorOfText(t) = <<"comma">> /\ b = Append(t, "comma")
      BY <2>2, LegalBefore
    <3>2. SeparatorOfText(t) # <<>>
      BY <3>1
    <3>3. Len(b) > 0 /\ b[Len(b)] = "comma"
      BY <3>1
    <3> QED BY <3>2, <3>3, <2>1, <1>l
  <2>3. ASSUME ~TakesComma(After[t])
        PROVE  ~(Top(v).item_count > 0) /\ ~(Len(y) > 2 /\ y[Len(y) - 2] = "comma")
    <3>1. SeparatorOfText(t) = <<>> /\ b = t
      BY <2>3, LegalBefore
    <3>2. b # <<>> => b[Len(b)] # "comma"
      BY <3>1, InStepEnds DEF Last
    <3>3. Len(b) > 0 => b # <<>>
      OBVIOUS
    <3> QED BY <3>1, <3>2, <3>3, <2>1, <1>l
  <2> QED BY <2>2, <2>3, <1>c DEF CountFollows
<1>14. InStep(y, next)
  BY <1>8, <1>11, <1>12, <1>13 DEF InStep
<1>15. v.out = t => next.out = y
  <2>1. OutFollows(NewWriter, y, After[y], next) <=> next.out = y
    BY <1>2, <1>8, OutIsText
  <2> QED BY <1>1, <1>9, <1>11, <2>1
<1>16. Obeys(t, v, y, next)
  BY <1>14, <1>15 DEF Obeys
<1> QED BY <1>16 DEF y, m, next

\* A value given as text: the writer is in step, and so is the output unless the
\* container had a value before.
LEMMA LegalRaw ==
  ASSUME NEW t \in Seq(Tokens), NEW v, InStep(t, v), NEW b, b = t \o SeparatorOfText(t),
         TakesValue(After[b])
  PROVE  /\ InStep(Append(b, "raw"), write_raw_value(v))
         /\ ~HasValuesIn(t, b) => Obeys(t, v, Append(b, "raw"), write_raw_value(v))
<1>0. Ready(NewWriter) /\ "raw" \in Tokens
  BY NewWriterFacts DEF Tokens
<1>1. b \in Seq(Tokens) /\ Follows(NewWriter, b, v)
  BY LegalBefore
<1>2. Sound(v) /\ v.last_error = "SUCCESS" /\ v.has_buffer
  BY <1>1 DEF Follows
<1>3. v \in WriterType /\ v.frames # <<>> /\ Top(v) \in Frame
  BY <1>2, ShapedFacts DEF Sound
<1>4. can_write(Top(v))
  BY <1>0, <1>1, ReadyForValue
<1>5. CommaOfRaw(Top(v)) \in Separators
  BY SeparatorsType
<1> DEFINE next == write_raw_value(v)
           y == Append(b, "raw")
<1>6. next = write_value(v, CommaOfRaw(Top(v)), "raw")
  BY DEF write_raw_value
<1>a. ASSUME ~HasValuesIn(t, b) PROVE Obeys(t, v, y, next)
  <2>1. ~(Top(v).item_count > 0)
    BY <1>a, CountMeans
  <2>2. CommaOfRaw(Top(v)) = Comma(Top(v))
    BY <2>1 DEF CommaOfRaw, Comma
  <2>3. next = write_scalar(v, "raw")
    BY <2>2, <1>6 DEF write_scalar
  <2> QED BY <2>3, LegalScalar
<1>b. y \in Seq(Tokens) /\ y # <<>> /\ After[y] = Behind(After[b].open, "next")
  <2>1. y \in Seq(Tokens) /\ y # <<>>
    BY <1>0, <1>1, AppendedFrontAndLast
  <2>2. After[y] = Read(After[b], "raw")
    BY <1>0, <1>1, AfterRecursion
  <2>3. Read(After[b], "raw") = Behind(After[b].open, "next")
    BY ReadAllowed
  <2> QED BY <2>1, <2>2, <2>3
<1>c. InStep(y, next)
  <2> HIDE DEF next, y
  <2>1. /\ Len(next.frames) = Len(v.frames)
        /\ \A j \in 1..Len(v.frames) - 1 : next.frames[j] = v.frames[j]
        /\ next.frames[Len(v.frames)] = Written(Top(v))
        /\ Emitted(v, next, CommaOfRaw(Top(v)) \o <<"raw">>)
    BY <1>0, <1>3, <1>4, <1>5, <1>6, WriteValueFacts
  <2>2. next.last_error = "SUCCESS" /\ next.has_buffer
    BY <2>1, <1>2, EmittedOk
  <2>3. Sound(next)
    BY <1>2, <1>5, <1>6, SoundValue
  <2>4. /\ Written(Top(v)).context = Top(v).context /\ Written(Top(v)).item_count > 0
        /\ Written(Top(v)).expect_value = (Top(v).context = "ARRAY")
    <3>1. Top(v).item_count \in Nat
      BY <1>3 DEF Frame
    <3> QED BY <1>3, <3>1, WrittenFacts
  <2>5. /\ next.frames[Len(v.frames)].context = Top(v).context
        /\ next.frames[Len(v.frames)].expect_value = (Top(v).context = "ARRAY")
        /\ next.frames[Len(v.frames)].item_count > 0
    BY <2>1, <2>4
  <2>6. y \in Seq(Tokens) /\ y # <<>> /\ After[y] = Behind(After[b].open, "next")
    BY <1>b
  <2> QED BY ONLY <1>1, <2>6, <2>1, <2>2, <2>3, <2>5, FollowsValue
<1> QED BY <1>a, <1>c

LEMMA LegalObject ==
  ASSUME NEW t \in Seq(Tokens), NEW v, InStep(t, v), NEW b, b = t \o SeparatorOfText(t),
         TakesValue(After[b]), NEW object, IsJson(object), Fits(object, Len(After[b].open))
  PROVE  /\ InStep(b \o object, write_object(v, object))
         /\ ~HasValuesIn(t, b) => Obeys(t, v, b \o object, write_object(v, object))
<1>0. Ready(NewWriter) /\ Len(NewWriter.frames) = 1 /\ OutBefore(NewWriter) = <<>>
  BY NewWriterFacts
<1>1. b \in Seq(Tokens) /\ Follows(NewWriter, b, v) /\ (v.out = t => OutFollows(NewWriter, b, After[b], v))
  BY LegalBefore
<1>2. Sound(v) /\ v.last_error = "SUCCESS" /\ v.has_buffer
  BY <1>1 DEF Follows
<1>3. can_write(Top(v)) /\ (OutFollows(NewWriter, b, After[b], v) => v.out \o Comma(Top(v)) = OutBefore(NewWriter) \o b)
  BY <1>0, <1>1, ReadyForValue
<1>4. Ready(v)
  BY <1>2, <1>3 DEF Ready
<1>5. object \in Seq(Tokens) /\ After[object].open = <<>> /\ After[object].wants = "next" /\ object # <<>>
  <2>1. object \in Seq(Tokens) /\ After[object].open = <<>> /\ After[object].wants = "next"
    BY Fields DEF IsJson
  <2>2. Standing(object, After[object])
    BY <2>1, StandingAfter
  <2> QED BY <2>1, <2>2 DEF Standing
<1>6. Len(v.frames) - 1 = Len(After[b].open) /\ v.out \in Seq(Tokens) /\ After[b].open \in Seq(Kinds)
  <2>1. Len(v.frames) = Len(NewWriter.frames) + Len(After[b].open) /\ v.out \in Seq(Tokens)
        /\ After[b].open \in Seq(Kinds) /\ Len(After[b].open) \in Nat
    BY <1>0, <1>1, FollowsFacts, ZenonT(60)
  <2> QED BY <2>1, <1>0
<1> DEFINE next == write_object(v, object)
           y == b \o object
           n == Len(v.frames)
<1>7. /\ Sound(next) /\ next.last_error = "SUCCESS" /\ next.has_buffer
      /\ Len(next.frames) = n
      /\ \A j \in 1..n - 1 : next.frames[j] = v.frames[j]
      /\ next.frames[n].context = Top(v).context
      /\ next.frames[n].item_count > 0
      /\ next.frames[n].expect_value = (Top(v).context = "ARRAY")
      /\ next.out = ((v.out \o CommaOfRaw(Top(v))) \o Comma(Top(v))) \o object
  <2> HIDE DEF next
  <2>1. Fits(object, n - 1)
    BY <1>6
  <2> HIDE DEF n
  <2> QED BY <2>1, <1>4, WriteObjectFacts DEF next, n
<1>8. y \in Seq(Tokens) /\ y # <<>> /\ After[y] = Behind(After[b].open, "next")
  <2>1. After[y] = Behind(After[b].open \o <<>>, "next")
    BY <1>1, <1>5, AfterNested
  <2>2. After[b].open \o <<>> = After[b].open
    BY <1>6
  <2>3. y \in Seq(Tokens) /\ y # <<>>
    BY <1>1, <1>5
  <2> QED BY <2>1, <2>2, <2>3
<1>9. InStep(y, next)
  <2> HIDE DEF next, y
  <2> QED BY <1>1, <1>7, <1>8, FollowsValue
<1>10. ASSUME ~HasValuesIn(t, b), v.out = t PROVE next.out = y
  <2>1. ~(Top(v).item_count > 0)
    BY <1>10, CountMeans
  <2>2. CommaOfRaw(Top(v)) = <<>> /\ Comma(Top(v)) = <<>>
    BY <2>1 DEF CommaOfRaw, Comma
  <2>3. v.out \o <<>> = <<>> \o b
    BY <1>0, <1>1, <1>3, <1>10, <2>2
  <2>4. v.out = b
    BY <2>3, <1>1, <1>6
  <2>5. (v.out \o <<>>) \o <<>> = b
    BY <2>4, <1>6
  <2> QED BY <1>7, <2>2, <2>5
<1> QED BY <1>9, <1>10 DEF Obeys

-----------------------------------------------------------------------------
(* The inductive invariant of the writer and its caller.                   *)

Encodings == {<<"none">>, <<"error">>} \cup ({"ok", "text"} \X Seq(Tokens))

WriterInv ==
    /\ Sound(writer)
    /\ caller \in CallerType
    /\ encoded \in Encodings
    /\ caller.legal => InStep(caller.text, writer)
    /\ OutputIsText
    /\ EncodedIsDocument

LEMMA EncodedNothing ==
  <<"none">> \in Encodings /\ <<"error">> \in Encodings /\ <<"none">>[1] # "ok" /\ <<"error">>[1] # "ok"
BY DEF Encodings

LEMMA BrokenFacts == Broken \in CallerType /\ ~Broken.legal
<1>1. <<>> \in Seq(Tokens)
  OBVIOUS
<1> QED BY <1>1 DEF Broken, NewCaller, CallerType

LEMMA NewCallerFacts ==
  NewCaller \in CallerType /\ NewCaller.legal /\ Exact(NewCaller) /\ NewCaller.text = <<>>
<1>1. <<>> \in Seq(Tokens)
  OBVIOUS
<1> QED BY <1>1 DEF NewCaller, CallerType, Exact

LEMMA NewInStep == InStep(<<>>, NewWriter)
<1>1. After[<<>>].open = <<>> /\ After[<<>>].wants = "value"
  BY AfterRecursion, Fields
<1> QED BY <1>1, NewWriterFacts DEF InStep, CountFollows

\* What is left of a writer whose buffer could not grow.
Unwritten(w, error, out) == [w EXCEPT !.last_error = error, !.out = out]

LEMMA SoundUnwritten ==
  ASSUME NEW w, Sound(w), NEW out \in Seq(Tokens), NEW error \in Errors
  PROVE  Sound(Unwritten(w, error, out))
<1> DEFINE v == Unwritten(w, error, out)
<1>1. w \in WriterType /\ Shaped(w)
  BY DEF Sound, Shaped
<1>2. v \in WriterType /\ v.frames = w.frames /\ v.last_error = error /\ error # "SUCCESS"
  BY <1>1 DEF WriterType, Errors, Unwritten
<1> HIDE DEF v
<1>3. Sound(v)
  BY <1>1, <1>2 DEF Sound, Shaped, Balanced
<1> QED BY <1>3 DEF v

\* One more token of a text, or one less.
KeepOn(kept, t, lost) == IF Len(t) \in lost THEN kept ELSE Append(kept, Last(t))

LEMMA WithoutRecursion ==
  ASSUME NEW lost
  PROVE  /\ Without(<<>>, lost) = <<>>
         /\ \A t \in Seq(Tokens), e \in Tokens :
              Without(Append(t, e), lost) = KeepOn(Without(t, lost), Append(t, e), lost)
         /\ \A t \in Seq(Tokens) : Without(t, lost) \in Seq(Tokens)
<1> DEFINE S == Seq(Tokens)
           F == [x \in S \X Seq(Tokens) |-> IF x[2] = <<>> THEN <<>> ELSE KeepOn(x[1], x[2], lost)]
<1>1. <<>> \in S
  OBVIOUS
<1>2. F \in Steps(S, Tokens)
  <2>1. ASSUME NEW x \in S \X Seq(Tokens) PROVE F[x] \in S
    <3>1. x[1] \in S /\ x[2] \in Seq(Tokens)
      OBVIOUS
    <3>2. x[2] # <<>> => KeepOn(x[1], x[2], lost) \in S
      BY <3>1, FrontAndLast, AppendProperties DEF KeepOn
    <3> QED BY <3>2, <1>1
  <2> HIDE DEF S
  <2> QED BY <2>1 DEF Steps
<1>3. PICK f \in [Seq(Tokens) -> S] : Recursion(f, Tokens, <<>>, F)
  <2> HIDE DEF F, S
  <2> QED BY <1>1, <1>2, SequenceRecursion
<1>4. ASSUME NEW t \in Seq(Tokens), t # <<>> PROVE F[<<f[Front(t)], t>>] = KeepOn(f[Front(t)], t, lost)
  <2>1. Front(t) \in Seq(Tokens)
    BY <1>4, FrontAndLast
  <2>2. <<f[Front(t)], t>> \in S \X Seq(Tokens)
    BY <2>1
  <2> HIDE DEF S
  <2> QED BY <1>4, <2>2
<1> HIDE DEF F, S
<1>5. \A t \in Seq(Tokens) : f[t] = IF t = <<>> THEN <<>> ELSE KeepOn(f[Front(t)], t, lost)
  BY <1>3, <1>4 DEF Recursion
<1>6. f = [t \in Seq(Tokens) |->
            IF t = <<>> THEN <<>>
            ELSE IF Len(t) \in lost THEN f[Front(t)]
            ELSE Append(f[Front(t)], Last(t))]
  BY <1>5, Zenon DEF KeepOn
<1> DEFINE g == CHOOSE h : h = [t \in Seq(Tokens) |->
            IF t = <<>> THEN <<>>
            ELSE IF Len(t) \in lost THEN h[Front(t)]
            ELSE Append(h[Front(t)], Last(t))]
<1>7. g = [t \in Seq(Tokens) |->
            IF t = <<>> THEN <<>>
            ELSE IF Len(t) \in lost THEN g[Front(t)]
            ELSE Append(g[Front(t)], Last(t))]
  BY <1>6, Zenon
<1>8. \A text : Without(text, lost) = g[text]
  BY Zenon DEF Without
<1> HIDE DEF g
<1>9. \A t \in Seq(Tokens) : g[t] = IF t = <<>> THEN <<>> ELSE KeepOn(g[Front(t)], t, lost)
  BY <1>7, Zenon DEF KeepOn
<1>10. g[<<>>] = <<>>
  BY <1>9, EmptySeq
<1>11. ASSUME NEW t \in Seq(Tokens), NEW e \in Tokens
       PROVE  g[Append(t, e)] = KeepOn(g[t], Append(t, e), lost)
  <2>1. Append(t, e) \in Seq(Tokens) /\ Append(t, e) # <<>> /\ Front(Append(t, e)) = t
    BY AppendedFrontAndLast
  <2> QED BY <1>9, <2>1
<1>12. \A t \in Seq(Tokens) : g[t] \in Seq(Tokens)
  <2> DEFINE G == {t \in Seq(Tokens) : g[t] \in Seq(Tokens)}
  <2>1. <<>> \in G
    BY <1>10, EmptySeq
  <2>2. ASSUME NEW t \in Seq(Tokens), NEW e \in Tokens, t \in G PROVE Append(t, e) \in G
    <3>1. Append(t, e) \in Seq(Tokens) /\ Last(Append(t, e)) = e
      BY AppendedFrontAndLast
    <3>2. KeepOn(g[t], Append(t, e), lost) \in Seq(Tokens)
      BY <2>2, <3>1, AppendProperties DEF KeepOn
    <3> QED BY <1>11, <3>1, <3>2
  <2>3. Seq(Tokens) \subseteq G
    <3> HIDE DEF G
    <3> QED BY <2>1, <2>2, SequenceInduction
  <2> QED BY <2>3
<1> QED BY <1>8, <1>10, <1>11, <1>12

\* Commas that are lost open and close nothing.
LEMMA WithoutCommas ==
  ASSUME NEW text \in Seq(Tokens), NEW lost, \A i \in 1..Len(text) : i \in lost => text[i] = "comma"
  PROVE  /\ Without(text, lost) \in Seq(Tokens)
         /\ OpenBrackets[Without(text, lost)] = OpenBrackets[text]
<1> DEFINE Lost(t) == \A i \in 1..Len(t) : i \in lost => t[i] = "comma"
           G == {t \in Seq(Tokens) : Lost(t) => OpenBrackets[Without(t, lost)] = OpenBrackets[t]}
<1>1. <<>> \in G
  BY WithoutRecursion, EmptySeq
<1>2. ASSUME NEW t \in Seq(Tokens), NEW e \in Tokens, t \in G PROVE Append(t, e) \in G
  <2> DEFINE y == Append(t, e)
             k == Without(t, lost)
  <2>1. y \in Seq(Tokens) /\ Last(y) = e
    BY AppendedFrontAndLast
  <2>2. Len(y) = Len(t) + 1 /\ y[Len(t) + 1] = e /\ Len(t) \in Nat /\ \A i \in 1..Len(t) : y[i] = t[i]
    BY AppendProperties, LenProperties
  <2>3. k \in Seq(Tokens) /\ Without(y, lost) = KeepOn(k, y, lost)
    BY WithoutRecursion
  <2>4. OpenBrackets[y] = Bracketed(OpenBrackets[t], e) /\ OpenBrackets[Append(k, e)] = Bracketed(OpenBrackets[k], e)
    BY <2>3, OpenBracketsRecursion
  <2>5. Bracketed(OpenBrackets[t], "comma") = OpenBrackets[t]
    BY DEF Bracketed, Closing
  <2> HIDE DEF y, k
  <2>6. ASSUME Lost(y) PROVE OpenBrackets[Without(y, lost)] = OpenBrackets[y]
    <3>1. Lost(t)
      BY <2>2, <2>6
    <3>2. OpenBrackets[k] = OpenBrackets[t]
      BY <1>2, <3>1 DEF k
    <3>3. CASE Len(y) \in lost
      <4>1. Len(y) \in 1..Len(y) /\ y[Len(y)] = e
        BY <2>2
      <4>2. e = "comma"
        BY <3>3, <4>1, <2>6
      <4> QED BY <3>2, <3>3, <4>2, <2>3, <2>4, <2>5 DEF KeepOn
    <3>4. CASE ~(Len(y) \in lost)
      BY <3>2, <3>4, <2>1, <2>3, <2>4 DEF KeepOn
    <3> QED BY <3>3, <3>4
  <2> QED BY <2>1, <2>6 DEF y
<1>3. Seq(Tokens) \subseteq G
  <2> HIDE DEF G
  <2> QED BY <1>1, <1>2, SequenceInduction
<1>4. text \in G /\ Lost(text)
  BY <1>3
<1> QED BY <1>4, WithoutRecursion

\* A writer whose output lacks commas stands where it stood.
LEMMA LostKeeps ==
  ASSUME NEW w, Sound(w), NEW before \in Seq(Tokens), NEW lost \in SUBSET UncheckedCommas(before, w.out),
         NEW v, v = [w EXCEPT !.out = Without(@, lost)]
  PROVE  Sound(v) /\ \A t : InStep(t, w) => InStep(t, v)
<1>1. w \in WriterType /\ Shaped(w) /\ w.out \in Seq(Tokens)
  BY ShapedFacts DEF Sound
<1>2. \A i \in 1..Len(w.out) : i \in lost => w.out[i] = "comma"
  BY DEF UncheckedCommas
<1>3. Without(w.out, lost) \in Seq(Tokens) /\ OpenBrackets[Without(w.out, lost)] = OpenBrackets[w.out]
  BY <1>1, <1>2, WithoutCommas
<1> DEFINE out == Without(w.out, lost)
<1>4. v = [w EXCEPT !.out = out]
  OBVIOUS
<1> HIDE DEF out
<1>5. /\ v \in WriterType /\ v.frames = w.frames /\ v.last_error = w.last_error
      /\ v.has_buffer = w.has_buffer /\ v.out = out
  BY <1>1, <1>3, <1>4 DEF WriterType, out
<1>6. Top(v) = Top(w)
  BY <1>5 DEF Top
<1>7. Sound(v)
  BY <1>1, <1>3, <1>5 DEF Sound, Shaped, Balanced, out
<1>8. ASSUME NEW t, InStep(t, w) PROVE InStep(t, v)
  <2>1. Follows(NewWriter, t, v)
    BY <1>5, <1>6, <1>7, <1>8 DEF InStep, Follows, FramesFollow, TopFollows
  <2> QED BY <1>6, <1>8, <2>1 DEF InStep, CountFollows
<1> QED BY <1>7, <1>8

\* A call keeps the invariant if what it does is sound, and in step with what a
\* legal caller means by it.
LEMMA CallKeeps ==
  ASSUME WriterInv, NEW w, NEW allowed, NEW meant, Call(w, allowed, meant),
         writer.last_error = "SUCCESS" => Sound(w),
         caller.legal /\ allowed => /\ meant \in CallerType
                                    /\ InStep(meant.text, w)
                                    /\ Exact(meant) => w.out = meant.text
  PROVE  WriterInv'
<1>0. encoded' = <<"none">>
  BY Zenon DEF Call
<1>1. encoded' \in Encodings /\ encoded'[1] # "ok"
  BY <1>0, EncodedNothing
<1>2. EncodedIsDocument'
  BY <1>1 DEF EncodedIsDocument
<1>3. ASSUME writer' = IF writer.last_error = "SUCCESS" THEN w ELSE writer,
             caller' = IF caller.legal /\ allowed THEN meant ELSE Broken
      PROVE  WriterInv'
  <2>1. Sound(writer')
    BY <1>3 DEF WriterInv
  <2>2. CASE caller.legal /\ allowed
    <3>1. writer.last_error = "SUCCESS"
      BY <2>2 DEF WriterInv, InStep, Follows
    <3>2. writer' = w /\ caller' = meant
      BY <3>1, <1>3, <2>2
    <3>3. caller' \in CallerType /\ InStep(caller'.text, writer') /\ (Exact(caller') => writer'.out = caller'.text)
      BY <3>2, <2>2
    <3> QED BY <1>1, <1>2, <2>1, <3>3 DEF WriterInv, OutputIsText
  <2>3. CASE ~(caller.legal /\ allowed)
    <3>1. caller' \in CallerType /\ ~caller'.legal
      BY <1>3, <2>3, BrokenFacts
    <3> QED BY <1>1, <1>2, <2>1, <3>1 DEF WriterInv, OutputIsText
  <2> QED BY <2>2, <2>3
<1>4. ASSUME writer.last_error = "SUCCESS", NEW error \in {"MEMORY", w.last_error} \ {"SUCCESS"},
             writer' = [w EXCEPT !.last_error = error, !.out = writer.out],
             caller' = Broken
      PROVE  WriterInv'
  <2>0. Sound(w) /\ error \in Errors
    <3>1. Sound(w) /\ w.last_error \in {"SUCCESS"} \cup Errors
      BY <1>4, ShapedFacts DEF Sound
    <3> QED BY <3>1, <1>4 DEF Errors
  <2>1. writer.out \in Seq(Tokens)
    BY ShapedFacts DEF WriterInv, Sound
  <2>2. Sound(writer')
    <3>1. writer' = Unwritten(w, error, writer.out)
      BY <1>4, Zenon DEF Unwritten
    <3> QED BY <3>1, <2>0, <2>1, SoundUnwritten
  <2>3. caller' \in CallerType /\ ~caller'.legal
    BY <1>4, BrokenFacts
  <2> QED BY <1>1, <1>2, <2>2, <2>3 DEF WriterInv, OutputIsText
<1>5. ASSUME writer.last_error = "SUCCESS", NEW lost \in SUBSET UncheckedCommas(writer.out, w.out),
             writer' = [w EXCEPT !.out = Without(@, lost)],
             caller' = IF caller.legal /\ allowed THEN [meant EXCEPT !.lost = TRUE] ELSE Broken
      PROVE  WriterInv'
  <2>1. Sound(w) /\ writer.out \in Seq(Tokens)
    BY <1>5, ShapedFacts DEF WriterInv, Sound
  <2>2. Sound(writer') /\ \A t : InStep(t, w) => InStep(t, writer')
    BY <1>5, <2>1, LostKeeps
  <2>3. CASE caller.legal /\ allowed
    <3>1. caller' \in CallerType /\ caller'.text = meant.text /\ ~Exact(caller')
      BY <1>5, <2>3 DEF CallerType, Exact
    <3>2. InStep(caller'.text, writer')
      BY <2>2, <2>3, <3>1
    <3> QED BY <1>1, <1>2, <2>2, <3>1, <3>2 DEF WriterInv, OutputIsText
  <2>4. CASE ~(caller.legal /\ allowed)
    <3>1. caller' \in CallerType /\ ~caller'.legal
      BY <1>5, <2>4, BrokenFacts
    <3> QED BY <1>1, <1>2, <2>2, <3>1 DEF WriterInv, OutputIsText
  <2> QED BY <2>3, <2>4
<1> QED BY <1>3, <1>4, <1>5, Zenon DEF Call

\* The caller's text and what the calls make of it.
LEMMA CallerFacts ==
  ASSUME WriterInv
  PROVE  /\ Separator = SeparatorOfText(caller.text)
         /\ Due = After[caller.text \o SeparatorOfText(caller.text)]
         /\ HasValues <=> HasValuesIn(caller.text, caller.text \o SeparatorOfText(caller.text))
         /\ \A tokens : Gave(tokens).text = (caller.text \o SeparatorOfText(caller.text)) \o tokens
                        /\ (Exact(Gave(tokens)) => Exact(caller))
                        /\ GaveText(tokens).text = Gave(tokens).text
                        /\ (Exact(GaveText(tokens)) => Exact(caller) /\ ~HasValues)
         /\ \A tokens \in Seq(Tokens) : Gave(tokens) \in CallerType /\ GaveText(tokens) \in CallerType
         /\ \A kind : Ended(kind).text = Append(caller.text, CloseOf(kind)) /\ (Exact(Ended(kind)) => Exact(caller))
         /\ \A kind \in Kinds : Ended(kind) \in CallerType
         /\ caller.text \in Seq(Tokens)
<1>1. Separator = SeparatorOfText(caller.text) /\ Separator \in Seq(Tokens)
  <2>1. <<>> \in Seq(Tokens) /\ <<"comma">> \in Seq(Tokens)
    BY DEF Tokens
  <2> QED BY <2>1 DEF Separator, SeparatorOfText
<1>2. Due = After[caller.text \o SeparatorOfText(caller.text)]
  BY <1>1 DEF Due
<1>3. HasValues <=> HasValuesIn(caller.text, caller.text \o SeparatorOfText(caller.text))
  BY <1>1, <1>2 DEF HasValues, HasValuesIn
<1>4. caller \in CallerType /\ caller.text \in Seq(Tokens)
  BY DEF WriterInv, CallerType
<1>5. \A tokens : Gave(tokens).text = (caller.text \o SeparatorOfText(caller.text)) \o tokens
                  /\ (Exact(Gave(tokens)) => Exact(caller))
  BY <1>1, <1>4 DEF Gave, CallerType, Exact
<1>6. \A tokens \in Seq(Tokens) : Gave(tokens) \in CallerType
  <2> SUFFICES ASSUME NEW tokens \in Seq(Tokens) PROVE Gave(tokens) \in CallerType
    OBVIOUS
  <2> DEFINE text == caller.text \o Separator \o tokens
  <2>1. text \in Seq(Tokens)
    BY <1>1, <1>4
  <2>2. Gave(tokens) = [caller EXCEPT !.text = text]
    BY DEF Gave
  <2> HIDE DEF text
  <2> QED BY <1>4, <2>1, <2>2 DEF CallerType
<1>7. HasValues \in BOOLEAN /\ caller.late \in BOOLEAN
  BY <1>4 DEF HasValues, CallerType
<1>8. \A tokens : GaveText(tokens).text = Gave(tokens).text /\ (Exact(GaveText(tokens)) => Exact(caller) /\ ~HasValues)
  BY <1>4 DEF GaveText, Gave, CallerType, Exact
<1>9. \A tokens \in Seq(Tokens) : GaveText(tokens) \in CallerType
  <2> SUFFICES ASSUME NEW tokens \in Seq(Tokens) PROVE GaveText(tokens) \in CallerType
    OBVIOUS
  <2>1. Gave(tokens) \in CallerType
    BY <1>6
  <2> QED BY <2>1, <1>7 DEF GaveText, CallerType
<1>10. \A kind : Ended(kind).text = Append(caller.text, CloseOf(kind)) /\ (Exact(Ended(kind)) => Exact(caller))
  BY <1>4 DEF Ended, CallerType, Exact
<1>11. \A kind \in Kinds : Ended(kind) \in CallerType
  <2>1. \A kind \in Kinds : CloseOf(kind) \in Tokens
    BY DEF CloseOf, Tokens, Closing
  <2> QED BY <1>4, <2>1 DEF Ended, CallerType
<1> QED BY <1>1, <1>2, <1>3, <1>4, <1>5, <1>6, <1>8, <1>9, <1>10, <1>11

LEMMA AppendedTokens ==
  ASSUME NEW b \in Seq(Tokens)
  PROVE  /\ \A e \in Tokens : <<e>> \in Seq(Tokens) /\ b \o <<e>> = Append(b, e)
         /\ <<"str", "colon">> \in Seq(Tokens) /\ b \o <<"str", "colon">> = Append(Append(b, "str"), "colon")
<1>1. "str" \in Tokens /\ "colon" \in Tokens
  BY DEF Tokens, Scalars
<1> QED BY <1>1

LEMMA ScalarKeeps ==
  ASSUME WriterInv, NEW token \in Scalars, WriteScalar(token)
  PROVE  WriterInv'
<1> DEFINE t == caller.text
           b == t \o SeparatorOfText(t)
           w == write_scalar(writer, token)
<1>1. token \in {"str", "lit", "raw"}
  BY DEF Scalars
<1>2. Call(w, TakesValue(After[b]), Gave(<<token>>))
  BY CallerFacts DEF WriteScalar, WantsValue
<1>3. writer.last_error = "SUCCESS" => Sound(w)
  BY <1>1, SoundValue, SeparatorsType DEF WriterInv, write_scalar
<1>4. ASSUME caller.legal, TakesValue(After[b])
      PROVE  /\ Gave(<<token>>) \in CallerType
             /\ InStep(Gave(<<token>>).text, w)
             /\ Exact(Gave(<<token>>)) => w.out = Gave(<<token>>).text
  <2>1. t \in Seq(Tokens) /\ InStep(t, writer) /\ (Exact(caller) => writer.out = t)
    BY <1>4, CallerFacts DEF WriterInv, OutputIsText
  <2>2. Obeys(t, writer, Append(b, token), w)
    BY <1>1, <1>4, <2>1, LegalScalar
  <2>3. b \in Seq(Tokens)
    BY <2>1, LegalBefore
  <2>4. <<token>> \in Seq(Tokens) /\ b \o <<token>> = Append(b, token)
    <3>1. token \in Tokens
      BY DEF Scalars, Tokens
    <3> HIDE DEF b
    <3> QED BY <2>3, <3>1, AppendedTokens
  <2>5. Gave(<<token>>) \in CallerType /\ Gave(<<token>>).text = Append(b, token) /\ (Exact(Gave(<<token>>)) => Exact(caller))
    BY <2>3, <2>4, CallerFacts
  <2> HIDE DEF b, t, w
  <2> QED BY <2>1, <2>2, <2>5 DEF Obeys
<1> HIDE DEF b, t, w
<1> QED BY <1>2, <1>3, <1>4, CallKeeps

LEMMA RawKeeps ==
  ASSUME WriterInv, WriteRawValue
  PROVE  WriterInv'
<1> DEFINE t == caller.text
           b == t \o SeparatorOfText(t)
           w == write_raw_value(writer)
           meant == GaveText(<<"raw">>)
<1>2. Call(w, TakesValue(After[b]), meant)
  BY CallerFacts DEF WriteRawValue, WantsValue
<1>3. writer.last_error = "SUCCESS" => Sound(w)
  BY SoundValue, SeparatorsType DEF WriterInv, write_raw_value
<1>4. ASSUME caller.legal, TakesValue(After[b])
      PROVE  /\ meant \in CallerType
             /\ InStep(meant.text, w)
             /\ Exact(meant) => w.out = meant.text
  <2>1. t \in Seq(Tokens) /\ InStep(t, writer) /\ (Exact(caller) => writer.out = t)
    BY <1>4, CallerFacts DEF WriterInv, OutputIsText
  <2>2. /\ InStep(Append(b, "raw"), w)
        /\ ~HasValuesIn(t, b) => Obeys(t, writer, Append(b, "raw"), w)
    BY <1>4, <2>1, LegalRaw
  <2>3. b \in Seq(Tokens)
    BY <2>1, LegalBefore
  <2>4. <<"raw">> \in Seq(Tokens) /\ b \o <<"raw">> = Append(b, "raw")
    <3>1. "raw" \in Tokens
      BY DEF Tokens
    <3> HIDE DEF b
    <3> QED BY <2>3, <3>1, AppendedTokens
  <2>5. /\ meant \in CallerType /\ meant.text = Append(b, "raw")
        /\ Exact(meant) => Exact(caller) /\ ~HasValuesIn(t, b)
    BY <2>3, <2>4, CallerFacts
  <2> HIDE DEF b, t, w, meant
  <2> QED BY <2>1, <2>2, <2>5 DEF Obeys
<1> HIDE DEF b, t, w, meant
<1> QED BY <1>2, <1>3, <1>4, CallKeeps

LEMMA ObjectKeeps ==
  ASSUME WriterInv, NEW object \in Objects, WriteObject(object)
  PROVE  WriterInv'
<1> DEFINE t == caller.text
           b == t \o SeparatorOfText(t)
           w == write_object(writer, object)
           meant == GaveText(object)
           allowed == TakesValue(After[b]) /\ Fits(object, Len(After[b].open))
<1>1. IsJson(object) /\ object \in Seq(Tokens)
  BY ObjectsAssumption DEF IsJson
<1>2. Call(w, allowed, meant)
  BY CallerFacts DEF WriteObject, MayHold, WantsValue
<1>3. writer.last_error = "SUCCESS" => Sound(w)
  BY <1>1, SoundObject DEF WriterInv
<1>4. ASSUME caller.legal, allowed
      PROVE  /\ meant \in CallerType
             /\ InStep(meant.text, w)
             /\ Exact(meant) => w.out = meant.text
  <2>1. t \in Seq(Tokens) /\ InStep(t, writer) /\ (Exact(caller) => writer.out = t)
    BY <1>4, CallerFacts DEF WriterInv, OutputIsText
  <2>2. /\ InStep(b \o object, w)
        /\ ~HasValuesIn(t, b) => Obeys(t, writer, b \o object, w)
    BY <1>1, <1>4, <2>1, LegalObject
  <2>5. /\ meant \in CallerType /\ meant.text = b \o object
        /\ Exact(meant) => Exact(caller) /\ ~HasValuesIn(t, b)
    BY <1>1, CallerFacts
  <2> HIDE DEF b, t, w, meant
  <2> QED BY <2>1, <2>2, <2>5 DEF Obeys
<1> HIDE DEF b, t, w, meant, allowed
<1> QED BY <1>2, <1>3, <1>4, CallKeeps

LEMMA StartKeeps ==
  ASSUME WriterInv, WriteStartArray \/ WriteStartObject
  PROVE  WriterInv'
<1> SUFFICES ASSUME NEW kind \in Kinds, NEW w,
                    w = IF kind = "ARRAY" THEN write_start_array(writer) ELSE write_start_object(writer),
                    Call(w, MayOpen, Gave(<<OpenOf(kind)>>))
             PROVE  WriterInv'
  BY DEF WriteStartArray, WriteStartObject, Kinds, OpenOf
<1> DEFINE t == caller.text
           b == t \o SeparatorOfText(t)
           meant == Gave(<<OpenOf(kind)>>)
           allowed == TakesValue(After[b]) /\ Len(After[b].open) + 1 < MAX_JSON_DEPTH
<1>2. Call(w, allowed, meant)
  BY CallerFacts DEF MayOpen, WantsValue
<1>3. writer.last_error = "SUCCESS" => Sound(w)
  BY SoundStart DEF WriterInv
<1>4. ASSUME caller.legal, allowed
      PROVE  /\ meant \in CallerType
             /\ InStep(meant.text, w)
             /\ Exact(meant) => w.out = meant.text
  <2>1. t \in Seq(Tokens) /\ InStep(t, writer) /\ (Exact(caller) => writer.out = t)
    BY <1>4, CallerFacts DEF WriterInv, OutputIsText
  <2>2. Obeys(t, writer, Append(b, OpenOf(kind)), WriteToken(writer, After[b], OpenOf(kind)))
    BY <1>4, <2>1, LegalStart
  <2>3. WriteToken(writer, After[b], OpenOf(kind)) = w
    BY DEF WriteToken, OpenOf, Kinds
  <2>4. b \in Seq(Tokens)
    BY <2>1, LegalBefore
  <2>5. <<OpenOf(kind)>> \in Seq(Tokens) /\ b \o <<OpenOf(kind)>> = Append(b, OpenOf(kind))
    <3>1. OpenOf(kind) \in Tokens
      BY DEF OpenOf, Opening, Tokens
    <3> HIDE DEF b
    <3> QED BY <2>4, <3>1, AppendedTokens
  <2>6. meant \in CallerType /\ meant.text = Append(b, OpenOf(kind)) /\ (Exact(meant) => Exact(caller))
    BY <2>4, <2>5, CallerFacts
  <2> HIDE DEF b, t, meant
  <2> QED BY <2>1, <2>2, <2>3, <2>6 DEF Obeys
<1> HIDE DEF b, t, meant, allowed
<1> QED BY <1>2, <1>3, <1>4, CallKeeps

LEMMA EndKeeps ==
  ASSUME WriterInv, WriteEndArray \/ WriteEndObject
  PROVE  WriterInv'
<1> SUFFICES ASSUME NEW kind \in Kinds,
                    Call(write_end(writer, kind, CloseOf(kind)), WantsEnd(kind), Ended(kind))
             PROVE  WriterInv'
  BY DEF WriteEndArray, WriteEndObject, write_end_array, write_end_object, Kinds, CloseOf
<1> DEFINE w == write_end(writer, kind, CloseOf(kind))
           meant == Ended(kind)
<1>1. Call(w, WantsEnd(kind), meant)
  OBVIOUS
<1>3. writer.last_error = "SUCCESS" => Sound(w)
  BY SoundEnd DEF WriterInv
<1>4. ASSUME caller.legal, WantsEnd(kind)
      PROVE  /\ meant \in CallerType
             /\ InStep(meant.text, w)
             /\ Exact(meant) => w.out = meant.text
  <2>1. caller.text \in Seq(Tokens) /\ InStep(caller.text, writer) /\ (Exact(caller) => writer.out = caller.text)
    BY <1>4, CallerFacts DEF WriterInv, OutputIsText
  <2>2. Obeys(caller.text, writer, Append(caller.text, CloseOf(kind)), w)
    BY <1>4, <2>1, LegalEnd DEF WantsEnd
  <2>3. meant \in CallerType /\ meant.text = Append(caller.text, CloseOf(kind)) /\ (Exact(meant) => Exact(caller))
    BY CallerFacts
  <2> HIDE DEF w, meant
  <2> QED BY <2>1, <2>2, <2>3 DEF Obeys
<1> HIDE DEF w, meant
<1> QED BY <1>1, <1>3, <1>4, CallKeeps

LEMMA NameKeeps ==
  ASSUME WriterInv, WritePropertyName
  PROVE  WriterInv'
<1> DEFINE t == caller.text
           b == t \o SeparatorOfText(t)
           w == write_property_name(writer)
           meant == Gave(<<"str", "colon">>)
           y == Append(Append(b, "str"), "colon")
<1>2. Call(w, TakesName(After[b]), meant)
  BY CallerFacts DEF WritePropertyName, WantsName
<1>3. writer.last_error = "SUCCESS" => Sound(w)
  BY SoundName DEF WriterInv
<1>4. ASSUME caller.legal, TakesName(After[b])
      PROVE  /\ meant \in CallerType
             /\ InStep(meant.text, w)
             /\ Exact(meant) => w.out = meant.text
  <2>1. t \in Seq(Tokens) /\ InStep(t, writer) /\ (Exact(caller) => writer.out = t)
    BY <1>4, CallerFacts DEF WriterInv, OutputIsText
  <2>2. Obeys(t, writer, y, w)
    BY <1>4, <2>1, LegalName
  <2>3. b \in Seq(Tokens)
    BY <2>1, LegalBefore
  <2>4. <<"str", "colon">> \in Seq(Tokens) /\ b \o <<"str", "colon">> = y
    BY <2>3, AppendedTokens
  <2>5. meant \in CallerType /\ meant.text = y /\ (Exact(meant) => Exact(caller))
    BY <2>3, <2>4, CallerFacts
  <2> HIDE DEF b, t, w, meant, y
  <2> QED BY <2>1, <2>2, <2>5 DEF Obeys
<1> HIDE DEF b, t, w, meant, y
<1> QED BY <1>2, <1>3, <1>4, CallKeeps

LEMMA RejectKeeps ==
  ASSUME WriterInv, RejectArgument
  PROVE  WriterInv'
<1>1. Sound(writer) /\ Shaped(writer)
  BY DEF WriterInv, Sound
<1>2. Sound(Failed(writer, "ARGUMENT")) /\ Sound(Failed(writer, "MEMORY"))
  BY <1>1, SoundFailed DEF Errors
<1>3. Sound(writer')
  BY <1>1, <1>2 DEF RejectArgument
<1>4. caller' \in CallerType /\ ~caller'.legal
  BY BrokenFacts DEF RejectArgument
<1>5. encoded' \in Encodings
  BY EncodedNothing DEF RejectArgument
<1> QED BY <1>3, <1>4, <1>5 DEF WriterInv, OutputIsText, EncodedIsDocument

\* At the root, the text of a legal caller is empty or complete.
LEMMA RootComplete ==
  ASSUME NEW t \in Seq(Tokens), NEW v, InStep(t, v), Top(v).context = "ROOT"
  PROVE  t = <<>> \/ IsJson(t)
<1>1. Follows(NewWriter, t, v) /\ After[t].wants \in {"value", "first", "next"}
  BY DEF InStep
<1>2. After[t].open = <<>>
  <2>1. After[t].open # <<>> => Top(v).context = Last(After[t].open)
    BY <1>1, NewWriterFacts, FollowsFacts
  <2>2. After[t].open # <<>> => Last(After[t].open) \in Kinds
    BY AfterType, FrontAndLast
  <2> QED BY <2>1, <2>2 DEF Kinds
<1>3. Standing(t, After[t])
  BY <1>1, StandingAfter
<1>4. CASE After[t].wants = "next"
  <2>1. After[t] \in States
    BY AfterType
  <2>2. After[t] = Behind(<<>>, "next")
    BY <2>1, <1>2, <1>4 DEF States, Behind
  <2> QED BY <2>2 DEF IsJson
<1> QED BY <1>1, <1>2, <1>3, <1>4 DEF Standing

LEMMA EncodeKeeps ==
  ASSUME WriterInv, Encode \/ EncodeInBuffer
  PROVE  WriterInv'
<1>1. writer' = writer /\ caller' = caller
  BY DEF Encode, EncodeInBuffer
<1>2. writer.out \in Seq(Tokens)
  BY ShapedFacts DEF WriterInv, Sound
<1>3. <<"ok", writer.out>> \in Encodings /\ <<"text", writer.out>> \in Encodings
  BY <1>2 DEF Encodings
<1>4. encoded' \in Encodings
  BY <1>3, EncodedNothing DEF Encode, EncodeInBuffer
<1>5. EncodedIsDocument'
  <2> SUFFICES ASSUME caller.legal, Exact(caller), encoded'[1] = "ok"
               PROVE  encoded'[2] = caller.text /\ (caller.text = <<>> \/ IsJson(caller.text))
    BY <1>1 DEF EncodedIsDocument
  <2>1. caller.text \in Seq(Tokens) /\ InStep(caller.text, writer) /\ writer.out = caller.text
    BY CallerFacts DEF WriterInv, OutputIsText
  <2>2. Encode
    <3>1. EncodeInBuffer => encoded' \in {<<"error">>, <<"text", writer.out>>}
      BY DEF EncodeInBuffer
    <3>2. <<"text", writer.out>>[1] # "ok"
      OBVIOUS
    <3> QED BY <3>1, <3>2, EncodedNothing
  <2>3. encoded' = <<"ok", writer.out>> /\ Top(writer).context = "ROOT"
    BY <2>2, EncodedNothing DEF Encode
  <2>4. encoded'[2] = writer.out
    BY <2>3
  <2> QED BY <2>1, <2>3, <2>4, RootComplete
<1>6. OutputIsText'
  BY <1>1 DEF WriterInv, OutputIsText
<1> QED BY <1>1, <1>4, <1>5, <1>6 DEF WriterInv

LEMMA InitKeeps == writer = NewWriter /\ caller = NewCaller /\ encoded = <<"none">> => WriterInv
<1>1. NewWriter.out = <<>> /\ Sound(NewWriter)
  BY NewWriterFacts DEF Ready
<1> QED BY <1>1, NewCallerFacts, NewInStep, EncodedNothing DEF WriterInv, OutputIsText, EncodedIsDocument

LEMMA ResetKeeps ==
  ASSUME WriterInv, Reset
  PROVE  WriterInv'
<1>1. encoded' \in Encodings /\ encoded'[1] # "ok"
  BY EncodedNothing DEF Reset
<1>2. Sound(NewWriter) /\ NewWriter.out = <<>> /\ NewWriter \in WriterType
  BY NewWriterFacts DEF Ready, Sound, Shaped
<1>3. CASE writer' = NewWriter /\ caller' = NewCaller
  BY <1>1, <1>2, <1>3, NewCallerFacts, NewInStep DEF WriterInv, OutputIsText, EncodedIsDocument
<1>4. CASE writer' = [NewWriter EXCEPT !.has_buffer = FALSE] /\ caller' = Broken
  <2>1. writer' \in WriterType /\ writer'.frames = NewWriter.frames /\ writer'.out = NewWriter.out
        /\ writer'.last_error = NewWriter.last_error
    BY <1>2, <1>4 DEF WriterType
  <2>2. Sound(writer')
    BY <1>2, <2>1 DEF Sound, Shaped, Balanced
  <2> QED BY <1>1, <1>4, <2>2, BrokenFacts DEF WriterInv, OutputIsText, EncodedIsDocument
<1> QED BY <1>3, <1>4 DEF Reset

LEMMA WriterStep == WriterInv /\ [Next]_vars => WriterInv'
<1> SUFFICES ASSUME WriterInv, [Next]_vars PROVE WriterInv'
  OBVIOUS
<1>1. CASE UNCHANGED vars
  BY <1>1 DEF vars, WriterInv, OutputIsText, EncodedIsDocument
<1>2. CASE Next
  BY <1>2, ScalarKeeps, RawKeeps, ObjectKeeps, StartKeeps, EndKeeps, NameKeeps, RejectKeeps,
     EncodeKeeps, ResetKeeps DEF Next
<1> QED BY <1>1, <1>2

LEMMA TextKeepsWriter == WriterInv /\ [TextNext]_all_vars => WriterInv'
<1>1. [TextNext]_all_vars => [Next]_vars
  BY DEF TextNext, all_vars, Write, ParseEncoded, Parse, ToJsonString, vars
<1> QED BY <1>1, WriterStep

LEMMA WriterInvariant == TextSpec => []WriterInv
<1>1. TextInit => WriterInv
  BY InitKeeps DEF TextInit, Init
<1> QED BY <1>1, TextKeepsWriter, PTL DEF TextSpec

\* The invariant is what the properties of the writer say.
LEMMA WriterInvFrames ==
  ASSUME WriterInv
  PROVE  FramesInStep
<1>1. Sound(writer) /\ Shaped(writer) /\ Balanced(writer)
  BY DEF WriterInv, Sound
<1>2. TypeOK
  BY <1>1 DEF WriterInv, Encodings, TypeOK, Shaped
<1>3. FramesMatchBrackets
  <2> SUFFICES ASSUME writer.last_error = "SUCCESS"
               PROVE  [i \in 1..depth(writer) |-> writer.frames[i + 1].context] = OpenBrackets[writer.out]
    BY DEF FramesMatchBrackets
  <2> DEFINE o == OpenBrackets[writer.out]
             n == Len(writer.frames)
  <2>1. o \in Seq(Kinds) /\ n \in Nat \ {0}
    BY <1>1, ShapedFacts, OpenBracketsType
  <2>2. Len(o) = n - 1 /\ \A i \in 2..n : o[i - 1] = writer.frames[i].context
    BY <1>1 DEF Balanced
  <2>3. depth(writer) = n - 1
    BY DEF depth
  <2> HIDE DEF o, n
  <2>4. \A i \in 1..n - 1 : o[i] = writer.frames[i + 1].context
    <3> SUFFICES ASSUME NEW i \in 1..n - 1 PROVE o[i] = writer.frames[i + 1].context
      OBVIOUS
    <3>1. i + 1 \in 2..n /\ (i + 1) - 1 = i
      BY <2>1
    <3> QED BY <3>1, <2>2
  <2>5. o = [i \in 1..n - 1 |-> o[i]]
    BY <2>1, <2>2
  <2>6. [i \in 1..n - 1 |-> writer.frames[i + 1].context] = o
    BY <2>4, <2>5
  <2> QED BY <2>3, <2>6 DEF o
<1>4. LegalCallsAccepted
  BY DEF LegalCallsAccepted, WriterInv, InStep, Follows
<1>5. WriterFollowsCaller
  <2> DEFINE t == caller.text
             now == After[t]
  <2> SUFFICES ASSUME caller.legal
               PROVE  /\ writer.last_error = "SUCCESS"
                      /\ writer.has_buffer
                      /\ depth(writer) = Len(now.open)
                      /\ writer.frames[1].context = "ROOT" /\ ~writer.frames[1].expect_value
                      /\ \A i \in 1..Len(now.open) :
                           /\ writer.frames[i + 1].context = now.open[i]
                           /\ now.open[i] = "ARRAY" => writer.frames[i + 1].expect_value
                      /\ now.wants \in {"value", "first", "next"}
                      /\ now.wants = "value" /\ now.open # <<>> => Top(writer).expect_value
                      /\ Top(writer).item_count > 0 <=> HasValues \/ now.wants = "next"
    BY DEF WriterFollowsCaller
  <2>1. InStep(t, writer) /\ t \in Seq(Tokens)
    BY CallerFacts DEF WriterInv
  <2>2. Follows(NewWriter, t, writer) /\ now.wants \in {"value", "first", "next"}
    BY <2>1 DEF InStep
  <2>3. writer.last_error = "SUCCESS" /\ writer.has_buffer /\ FramesFollow(NewWriter, now, writer) /\ TopFollows(now, writer)
    BY <2>2 DEF Follows
  <2>4. Len(NewWriter.frames) = 1
    BY NewWriterFacts
  <2>5. Len(now.open) \in Nat
    BY <2>1, AfterType
  <2> HIDE DEF t, now
  <2>6. Len(writer.frames) = 1 + Len(now.open)
        /\ \A i \in 1..Len(now.open) : /\ writer.frames[1 + i].context = now.open[i]
                                       /\ now.open[i] = "ARRAY" => writer.frames[1 + i].expect_value
    BY <2>3, <2>4 DEF FramesFollow
  <2>7. \A i \in 1..Len(now.open) : i + 1 = 1 + i
    OBVIOUS
  <2>8. writer.frames[1].context = "ROOT" /\ ~writer.frames[1].expect_value
    BY <1>1, ShapedFacts DEF Shaped
  <2>9. depth(writer) = Len(now.open)
    BY <2>5, <2>6 DEF depth
  <2>10. now.wants = "value" /\ now.open # <<>> => Top(writer).expect_value
    BY <2>3 DEF TopFollows
  <2>11. Top(writer).item_count > 0 <=> HasValues \/ now.wants = "next"
    <3> DEFINE b == t \o SeparatorOfText(t)
    <3>0. HasValues <=> HasValuesIn(t, b)
      BY CallerFacts DEF t
    <3>1. CASE now.wants = "next"
      BY <3>1, <2>3 DEF TopFollows
    <3>2. CASE now.wants # "next"
      <4>1. ~TakesComma(After[t]) /\ now = After[t]
        BY <3>2 DEF TakesComma, now
      <4>2. b = t /\ SeparatorOfText(t) = <<>>
        BY <4>1, <2>1, LegalBefore
      <4>3. CASE TakesValue(After[t])
        BY <4>2, <4>3, <3>0, <3>2, <2>1, CountMeans
      <4>4. CASE TakesName(After[t])
        <5>1. ~(Top(writer).item_count > 0)
          BY <4>2, <4>4, <2>1, CountMeans
        <5>2. now.wants # "value"
          BY <4>4, <4>1 DEF TakesName
        <5>3. ~HasValuesIn(t, b)
          BY <4>1, <4>2, <5>2 DEF HasValuesIn
        <5> QED BY <5>1, <5>3, <3>0, <3>2
      <4>5. TakesValue(After[t]) \/ TakesName(After[t])
        <5>1. Standing(t, After[t])
          BY <2>1, <2>2, <4>1, StandingAfter
        <5>2. After[t].wants = "first" => After[t].open # <<>> /\ Last(After[t].open) \in Kinds
          BY <5>1, <2>1, AfterType, FrontAndLast DEF Standing
        <5> QED BY <5>2, <4>1, <3>2, <2>2 DEF TakesValue, TakesName, Within, Kinds
      <4> QED BY <4>3, <4>4, <4>5
    <3> QED BY <3>1, <3>2
  <2> QED BY <2>2, <2>3, <2>6, <2>7, <2>8, <2>9, <2>10, <2>11
<1> QED BY <1>2, <1>3, <1>4, <1>5 DEF FramesInStep

\* The frames of the writer are in step with its output, whatever is called, and
\* with a caller that keeps to JSON, which is never refused (json_writer.c:
\* push_context, the write functions, encode, reset).
THEOREM FramesStayInStep == TextSpec => []FramesInStep
BY WriterInvariant, WriterInvFrames, PTL

\* A caller that keeps to JSON gets the text that its calls mean, and from
\* encode a complete JSON document (cardano_json_writer_encode); a write that
\* fails does not change that, but for the comma of write_signed_int.
THEOREM LegalCallerGetsDocument == TextSpec => []WritesDocument
<1>1. WriterInv => WritesDocument
  BY DEF WriterInv, WritesDocument
<1> QED BY <1>1, WriterInvariant, PTL

-----------------------------------------------------------------------------
(* The parser: what it has read of the input is what the calls in progress *)
(* have collected, up to what it forgives.                                 *)

ParserCall == [kind : Kinds, count : Nat, text : Seq(Tokens)]

KindsOf(c) == [i \in 1..Len(c) |-> c[i].kind]

\* What the calls have collected, from the outermost to the innermost.
Collected(call) == <<OpenOf(call.kind)>> \o call.text

Joined[c \in Seq(ParserCall)] ==
    IF c = <<>> THEN <<>> ELSE Joined[Front(c)] \o Collected(Last(c))

ReadUpTo(i) == SubSeq(ctx.input, 1, i)

ParserSteps == {"idle", "value", "item", "returned", "next", "done", "NULL", "OUT_OF_MEMORY", "printed"}

ParserType ==
    /\ ctx \in [input : Seq(InputTokens), offset : Nat, depth : Int]
    /\ ctx.offset <= Len(ctx.input)
    /\ calls \in Seq(ParserCall)
    /\ parsed \in Seq(Tokens)
    /\ step \in ParserSteps
    /\ step = "idle" => calls = <<>>

\* Where the collected text and the input stand, at each step of the parser.
AtValue ==
    step = "value" =>
        /\ TakesValue(After[Joined[calls]]) /\ After[Joined[calls]].open = KindsOf(calls)
        /\ Forgiven[ReadUpTo(ctx.offset)] = Joined[calls]
        /\ After[Joined[calls]].wants = "first" => ~Sees("end_array")

AtItem ==
    step = "item" =>
        /\ calls # <<>>
        /\ After[Joined[calls]] =
               Behind(KindsOf(calls), IF Running.count > 0 THEN "next" ELSE "first")
        /\ Forgiven[ReadUpTo(ctx.offset)] = Joined[calls] \o SeparatorOf(Running)

AtReturn ==
    step = "returned" =>
        /\ calls # <<>>
        /\ After[Joined[calls] \o parsed] = Behind(KindsOf(calls), "next")
        /\ Forgiven[ReadUpTo(ctx.offset)] = Joined[calls] \o parsed

AtNext ==
    step = "next" =>
        /\ calls # <<>> /\ Running.count > 0
        /\ After[Joined[calls]] = Behind(KindsOf(calls), "next")
        /\ Forgiven[ReadUpTo(ctx.offset)] = Joined[calls]

\* The depth counts the containers that are open, and those that were empty.
DepthCounts ==
    step \in {"value", "item", "returned", "next"} =>
        ctx.depth <= Len(calls) + Cardinality(Empties(ReadUpTo(ctx.offset)))

\* A parse that ends returns all of its input.
ReturnsInput == step = "done" => parsed = Forgiven[ctx.input] /\ IsJson(parsed)

ParserInv ==
    /\ ParserType /\ AtValue /\ AtItem /\ AtReturn /\ AtNext
    /\ DepthCounts
    /\ ReturnsInput
    /\ JsonIsAccepted
    /\ PrintedIsParsed

-----------------------------------------------------------------------------
(* The functions of the parser's invariant, token by token.                *)

\* What is kept of the input when one more token is read.
Forgive(before, token) ==
    Append(IF token \in Closing /\ before # <<>> /\ Last(before) = "comma"
           THEN Front(before) ELSE before,
           IF token = "cut" THEN "str" ELSE token)

LEMMA ForgiveType ==
  ASSUME NEW before \in Seq(Tokens), NEW token \in InputTokens
  PROVE  Forgive(before, token) \in Seq(Tokens)
<1>1. before # <<>> => Front(before) \in Seq(Tokens)
  BY FrontAndLast
<1>2. (IF token = "cut" THEN "str" ELSE token) \in Tokens
  BY DEF InputTokens, Tokens, Scalars
<1> DEFINE s == IF token \in Closing /\ before # <<>> /\ Last(before) = "comma" THEN Front(before) ELSE before
           e == IF token = "cut" THEN "str" ELSE token
<1>3. s \in Seq(Tokens)
  BY <1>1
<1> HIDE DEF s, e
<1>4. Append(s, e) \in Seq(Tokens)
  BY <1>2, <1>3 DEF e
<1> QED BY <1>4 DEF Forgive, s, e

LEMMA ForgivenRecursion ==
  /\ Forgiven \in [Seq(InputTokens) -> Seq(Tokens)]
  /\ Forgiven[<<>>] = <<>>
  /\ \A t \in Seq(InputTokens), e \in InputTokens : Forgiven[Append(t, e)] = Forgive(Forgiven[t], e)
<1> DEFINE S == Seq(Tokens)
           F == [x \in S \X Seq(InputTokens) |-> IF x[2] = <<>> THEN <<>> ELSE Forgive(x[1], Last(x[2]))]
<1>1. <<>> \in S
  OBVIOUS
<1>2. F \in Steps(S, InputTokens)
  <2>1. ASSUME NEW x \in S \X Seq(InputTokens) PROVE F[x] \in S
    <3>1. x[1] \in S /\ x[2] \in Seq(InputTokens)
      OBVIOUS
    <3>2. x[2] # <<>> => Forgive(x[1], Last(x[2])) \in S
      BY <3>1, FrontAndLast, ForgiveType
    <3> QED BY <3>2, <1>1
  <2> HIDE DEF S
  <2> QED BY <2>1 DEF Steps
<1>3. PICK f \in [Seq(InputTokens) -> S] : Recursion(f, InputTokens, <<>>, F)
  <2> HIDE DEF F, S
  <2> QED BY <1>1, <1>2, SequenceRecursion
<1>4. ASSUME NEW t \in Seq(InputTokens), t # <<>> PROVE F[<<f[Front(t)], t>>] = Forgive(f[Front(t)], Last(t))
  <2>1. Front(t) \in Seq(InputTokens)
    BY <1>4, FrontAndLast
  <2>2. <<f[Front(t)], t>> \in S \X Seq(InputTokens)
    BY <2>1
  <2> HIDE DEF S
  <2> QED BY <1>4, <2>2
<1> HIDE DEF F, S
<1>5. \A t \in Seq(InputTokens) : f[t] = IF t = <<>> THEN <<>> ELSE Forgive(f[Front(t)], Last(t))
  BY <1>3, <1>4 DEF Recursion
<1>6. f = [input \in Seq(InputTokens) |-> IF input = <<>> THEN <<>>
             ELSE LET before == f[Front(input)]
                      token  == Last(input)
                      late   == token \in Closing /\ before # <<>> /\ Last(before) = "comma"
                  IN  Append(IF late THEN Front(before) ELSE before,
                             IF token = "cut" THEN "str" ELSE token)]
  BY <1>5, Zenon DEF Forgive
<1>7. Forgiven = [input \in Seq(InputTokens) |-> IF input = <<>> THEN <<>>
             ELSE LET before == Forgiven[Front(input)]
                      token  == Last(input)
                      late   == token \in Closing /\ before # <<>> /\ Last(before) = "comma"
                  IN  Append(IF late THEN Front(before) ELSE before,
                             IF token = "cut" THEN "str" ELSE token)]
  BY <1>6, Zenon DEF Forgiven
<1>8. \A t \in Seq(InputTokens) : Forgiven[t] = IF t = <<>> THEN <<>> ELSE Forgive(Forgiven[Front(t)], Last(t))
  BY <1>7, Zenon DEF Forgive
<1>0. Forgiven[<<>>] = <<>> /\ <<>> \in Seq(InputTokens)
  BY <1>8, EmptySeq
<1>9. Forgiven \in [Seq(InputTokens) -> S]
  <2> DEFINE G == {t \in Seq(InputTokens) : Forgiven[t] \in S}
  <2>1. <<>> \in G
    BY <1>0, <1>1
  <2>2. ASSUME NEW t \in Seq(InputTokens), NEW e \in InputTokens, t \in G PROVE Append(t, e) \in G
    <3>1. /\ Append(t, e) \in Seq(InputTokens) /\ Append(t, e) # <<>>
          /\ Front(Append(t, e)) = t /\ Last(Append(t, e)) = e
      BY AppendedFrontAndLast
    <3>2. Forgiven[Append(t, e)] = Forgive(Forgiven[t], e)
      BY <3>1, <1>8
    <3> QED BY <2>2, <3>1, <3>2, ForgiveType DEF S
  <2> HIDE DEF G
  <2>3. Seq(InputTokens) \subseteq G
    BY <2>1, <2>2, SequenceInduction
  <2> QED BY <2>3, <1>7 DEF G
<1>10. ASSUME NEW t \in Seq(InputTokens), NEW e \in InputTokens
       PROVE  Forgiven[Append(t, e)] = Forgive(Forgiven[t], e)
  <2>1. /\ Append(t, e) \in Seq(InputTokens) /\ Append(t, e) # <<>>
        /\ Front(Append(t, e)) = t /\ Last(Append(t, e)) = e
    BY AppendedFrontAndLast
  <2> QED BY <2>1, <1>8
<1> QED BY <1>0, <1>9, <1>10 DEF S

LEMMA CollectedType ==
  ASSUME NEW call \in ParserCall
  PROVE  Collected(call) \in Seq(Tokens) /\ call.text \in Seq(Tokens) /\ call.kind \in Kinds /\ call.count \in Nat
<1>1. OpenOf(call.kind) \in Tokens
  BY DEF ParserCall, OpenOf, Tokens, Opening
<1> QED BY <1>1 DEF ParserCall, Collected

LEMMA JoinedRecursion ==
  /\ Joined \in [Seq(ParserCall) -> Seq(Tokens)]
  /\ Joined[<<>>] = <<>>
  /\ \A c \in Seq(ParserCall), x \in ParserCall : Joined[Append(c, x)] = Joined[c] \o Collected(x)
<1> DEFINE S == Seq(Tokens)
           F == [x \in S \X Seq(ParserCall) |-> IF x[2] = <<>> THEN <<>> ELSE x[1] \o Collected(Last(x[2]))]
<1>1. <<>> \in S
  OBVIOUS
<1>2. F \in Steps(S, ParserCall)
  <2>1. ASSUME NEW x \in S \X Seq(ParserCall) PROVE F[x] \in S
    <3>1. x[1] \in S /\ x[2] \in Seq(ParserCall)
      OBVIOUS
    <3>2. x[2] # <<>> => Collected(Last(x[2])) \in S
      BY <3>1, FrontAndLast, CollectedType
    <3>3. x[2] # <<>> => x[1] \o Collected(Last(x[2])) \in S
      BY <3>1, <3>2
    <3> QED BY <3>3, <1>1
  <2> HIDE DEF S
  <2> QED BY <2>1 DEF Steps
<1>3. PICK f \in [Seq(ParserCall) -> S] : Recursion(f, ParserCall, <<>>, F)
  <2> HIDE DEF F, S
  <2> QED BY <1>1, <1>2, SequenceRecursion
<1>4. ASSUME NEW t \in Seq(ParserCall), t # <<>> PROVE F[<<f[Front(t)], t>>] = f[Front(t)] \o Collected(Last(t))
  <2>1. Front(t) \in Seq(ParserCall)
    BY <1>4, FrontAndLast
  <2>2. <<f[Front(t)], t>> \in S \X Seq(ParserCall)
    BY <2>1
  <2> HIDE DEF S
  <2> QED BY <1>4, <2>2
<1> HIDE DEF F, S
<1>5. \A t \in Seq(ParserCall) : f[t] = IF t = <<>> THEN <<>> ELSE f[Front(t)] \o Collected(Last(t))
  BY <1>3, <1>4 DEF Recursion
<1>6. f = [c \in Seq(ParserCall) |-> IF c = <<>> THEN <<>> ELSE f[Front(c)] \o Collected(Last(c))]
  BY <1>5, Zenon
<1>7. Joined = [c \in Seq(ParserCall) |-> IF c = <<>> THEN <<>> ELSE Joined[Front(c)] \o Collected(Last(c))]
  BY <1>6, Zenon DEF Joined
<1>8. \A t \in Seq(ParserCall) : Joined[t] = IF t = <<>> THEN <<>> ELSE Joined[Front(t)] \o Collected(Last(t))
  BY <1>7, Zenon
<1>0. Joined[<<>>] = <<>> /\ <<>> \in Seq(ParserCall)
  BY <1>8, EmptySeq
<1>9. Joined \in [Seq(ParserCall) -> S]
  <2> DEFINE G == {t \in Seq(ParserCall) : Joined[t] \in S}
  <2>1. <<>> \in G
    BY <1>0, <1>1
  <2>2. ASSUME NEW t \in Seq(ParserCall), NEW e \in ParserCall, t \in G PROVE Append(t, e) \in G
    <3>1. /\ Append(t, e) \in Seq(ParserCall) /\ Append(t, e) # <<>>
          /\ Front(Append(t, e)) = t /\ Last(Append(t, e)) = e
      BY AppendedFrontAndLast
    <3>2. Joined[Append(t, e)] = Joined[t] \o Collected(e)
      BY <3>1, <1>8
    <3>3. Joined[t] \o Collected(e) \in S
      BY <2>2, CollectedType DEF S
    <3> QED BY <3>1, <3>2, <3>3
  <2> HIDE DEF G
  <2>3. Seq(ParserCall) \subseteq G
    BY <2>1, <2>2, SequenceInduction
  <2> QED BY <2>3, <1>7 DEF G
<1>10. ASSUME NEW t \in Seq(ParserCall), NEW e \in ParserCall
       PROVE  Joined[Append(t, e)] = Joined[t] \o Collected(e)
  <2>1. /\ Append(t, e) \in Seq(ParserCall) /\ Append(t, e) # <<>>
        /\ Front(Append(t, e)) = t /\ Last(Append(t, e)) = e
    BY AppendedFrontAndLast
  <2> QED BY <2>1, <1>8
<1> QED BY <1>0, <1>9, <1>10 DEF S

\* One more element.
LEMMA OneMore ==
  ASSUME NEW T, NEW s \in Seq(T), NEW i \in Nat, i < Len(s)
  PROVE  /\ SubSeq(s, 1, i) \in Seq(T) /\ s[i + 1] \in T
         /\ SubSeq(s, 1, i + 1) = Append(SubSeq(s, 1, i), s[i + 1])
<1>1. i \in 0..Len(s) /\ i + 1 \in 0..Len(s) /\ i + 1 \in 1..Len(s)
  OBVIOUS
<1>2. /\ SubSeq(s, 1, i) \in Seq(T) /\ Len(SubSeq(s, 1, i)) = i
      /\ \A j \in 1..i : SubSeq(s, 1, i)[j] = s[j]
  BY <1>1, Prefix
<1>3. /\ SubSeq(s, 1, i + 1) \in Seq(T) /\ Len(SubSeq(s, 1, i + 1)) = i + 1
      /\ \A j \in 1..(i + 1) : SubSeq(s, 1, i + 1)[j] = s[j]
  BY <1>1, Prefix
<1>4. s[i + 1] \in T
  BY <1>1
<1> DEFINE a == SubSeq(s, 1, i)
           c == SubSeq(s, 1, i + 1)
           e == s[i + 1]
<1> HIDE DEF a, c, e
<1>5. /\ a \in Seq(T) /\ Len(a) = i /\ e \in T /\ c \in Seq(T) /\ Len(c) = i + 1
      /\ \A j \in 1..i : c[j] = a[j]
      /\ c[i + 1] = e
  BY <1>2, <1>3, <1>4 DEF a, c, e
<1>6. Append(a, e) \in Seq(T) /\ Len(Append(a, e)) = i + 1
      /\ \A j \in 1..(i + 1) : Append(a, e)[j] = IF j = i + 1 THEN e ELSE a[j]
  BY <1>5
<1>7. \A j \in 1..(i + 1) : c[j] = Append(a, e)[j]
  BY <1>5, <1>6
<1>8. c = Append(a, e)
  <2> DEFINE d == Append(a, e)
  <2>1. d \in Seq(T) /\ Len(c) = Len(d) /\ \A j \in 1..Len(c) : c[j] = d[j]
    BY <1>5, <1>6, <1>7
  <2> HIDE DEF d
  <2>2. c = d
    BY <1>5, <2>1, SeqEqual
  <2> QED BY <2>2 DEF d
<1> QED BY <1>2, <1>4, <1>8 DEF a, c, e

\* What the parser has read, and what it forgives, one token further.
LEMMA ForgivenOneMore ==
  ASSUME NEW input \in Seq(InputTokens), NEW i \in Nat, i < Len(input),
         NEW before, Forgiven[SubSeq(input, 1, i)] = before
  PROVE  /\ before \in Seq(Tokens) /\ input[i + 1] \in InputTokens
         /\ Forgiven[SubSeq(input, 1, i + 1)] = Forgive(before, input[i + 1])
<1>1. /\ SubSeq(input, 1, i) \in Seq(InputTokens) /\ input[i + 1] \in InputTokens
      /\ SubSeq(input, 1, i + 1) = Append(SubSeq(input, 1, i), input[i + 1])
  BY OneMore
<1> DEFINE p == SubSeq(input, 1, i)
           e == input[i + 1]
<1> HIDE DEF p, e
<1>2. p \in Seq(InputTokens) /\ e \in InputTokens /\ SubSeq(input, 1, i + 1) = Append(p, e) /\ Forgiven[p] = before
  BY <1>1 DEF p, e
<1>3. Forgiven[Append(p, e)] = Forgive(Forgiven[p], e) /\ Forgiven[p] \in Seq(Tokens)
  BY <1>2, ForgivenRecursion
<1> QED BY <1>2, <1>3 DEF e

LEMMA ForgiveFacts ==
  ASSUME NEW before, NEW e
  PROVE  /\ e \in Tokens \ Closing => Forgive(before, e) = Append(before, e)
         /\ Forgive(before, "cut") = Append(before, "str")
         /\ e \in Closing /\ (before = <<>> \/ Last(before) # "comma") => Forgive(before, e) = Append(before, e)
         /\ e \in Closing /\ before # <<>> /\ Last(before) = "comma" => Forgive(before, e) = Append(Front(before), e)
BY DEF Forgive, Closing, Tokens, Scalars, Opening

\* The innermost call.
LEMMA CallFacts ==
  ASSUME NEW c \in Seq(ParserCall), c # <<>>, NEW x \in ParserCall, x.kind = Last(c).kind,
         NEW s \in Seq(Tokens), x.text = Last(c).text \o s,
         NEW next, next = Append(Front(c), x)
  PROVE  /\ next \in Seq(ParserCall) /\ next # <<>> /\ Last(next) = x
         /\ Joined[next] = Joined[c] \o s
         /\ KindsOf(next) = KindsOf(c) /\ Len(next) = Len(c)
<1>1. Front(c) \in Seq(ParserCall) /\ Last(c) \in ParserCall /\ c = Append(Front(c), Last(c)) /\ Len(Front(c)) = Len(c) - 1
  BY FrontAndLast
<1> DEFINE o == Front(c)
           l == Last(c)
<1> HIDE DEF o, l
<1>2. o \in Seq(ParserCall) /\ l \in ParserCall /\ c = Append(o, l) /\ next = Append(o, x) /\ x.kind = l.kind /\ x.text = l.text \o s
  BY <1>1 DEF o, l
<1>3. next \in Seq(ParserCall) /\ next # <<>> /\ Last(next) = x
  BY <1>2, AppendedFrontAndLast
<1>4. Joined[next] = Joined[o] \o Collected(x) /\ Joined[c] = Joined[o] \o Collected(l) /\ Joined[o] \in Seq(Tokens)
  BY <1>2, JoinedRecursion
<1>5. Collected(l) \in Seq(Tokens) /\ l.text \in Seq(Tokens) /\ <<OpenOf(l.kind)>> \in Seq(Tokens)
  <2>1. OpenOf(l.kind) \in Tokens
    BY <1>2 DEF ParserCall, OpenOf, Tokens, Opening
  <2> QED BY <1>2, <2>1, CollectedType
<1>6. Collected(x) = Collected(l) \o s
  <2>1. Collected(x) = <<OpenOf(l.kind)>> \o (l.text \o s) /\ Collected(l) = <<OpenOf(l.kind)>> \o l.text
    BY <1>2 DEF Collected
  <2> DEFINE h == <<OpenOf(l.kind)>>
             m == l.text
  <2>2. h \in Seq(Tokens) /\ m \in Seq(Tokens)
    BY <1>5
  <2> HIDE DEF h, m
  <2>3. (h \o m) \o s = h \o (m \o s)
    BY <2>2, ConcatAssociative, SMTT(30)
  <2> QED BY <2>1, <2>3 DEF h, m
<1>7. Joined[next] = Joined[c] \o s
  <2> DEFINE h == Joined[o]
             m == Collected(l)
  <2>1. h \in Seq(Tokens) /\ m \in Seq(Tokens)
    BY <1>4, <1>5
  <2> HIDE DEF h, m
  <2>2. (h \o m) \o s = h \o (m \o s)
    BY <2>1, ConcatAssociative, SMTT(30)
  <2> QED BY <2>2, <1>4, <1>6 DEF h, m
<1>8. Len(next) = Len(c) /\ \A i \in 1..Len(c) : next[i].kind = c[i].kind
  <2>1. /\ Len(c) = Len(o) + 1 /\ Len(next) = Len(o) + 1 /\ Len(o) \in Nat
        /\ \A i \in 1..Len(o) : c[i] = o[i] /\ next[i] = o[i]
        /\ c[Len(o) + 1] = l /\ next[Len(o) + 1] = x
    <3>1. \A e \in ParserCall : /\ Len(Append(o, e)) = Len(o) + 1
                                /\ \A i \in 1..Len(o) : Append(o, e)[i] = o[i]
                                /\ Append(o, e)[Len(o) + 1] = e
      BY <1>2, AppendProperties
    <3>2. Len(o) \in Nat
      BY <1>2
    <3> QED BY <1>2, <3>1, <3>2
  <2>2. \A i \in 1..Len(c) : i \in 1..Len(o) \/ i = Len(o) + 1
    BY <2>1
  <2> QED BY <2>1, <2>2, <1>2
<1>9. KindsOf(next) = KindsOf(c)
  BY <1>8 DEF KindsOf
<1> QED BY <1>3, <1>7, <1>8, <1>9

LEMMA KindsOfFacts ==
  ASSUME NEW c \in Seq(ParserCall)
  PROVE  /\ KindsOf(c) \in Seq(Kinds) /\ Len(KindsOf(c)) = Len(c)
         /\ c # <<>> => /\ KindsOf(c) # <<>> /\ Last(KindsOf(c)) = Last(c).kind
                        /\ Front(KindsOf(c)) = KindsOf(Front(c))
         /\ c = <<>> => KindsOf(c) = <<>>
         /\ \A x \in ParserCall : KindsOf(Append(c, x)) = Append(KindsOf(c), x.kind)
<1>1. \A i \in 1..Len(c) : c[i] \in ParserCall /\ c[i].kind \in Kinds
  BY ElementOfSeq, CollectedType
<1>2. KindsOf(c) \in Seq(Kinds) /\ Len(KindsOf(c)) = Len(c)
  BY <1>1 DEF KindsOf
<1>3. c = <<>> => KindsOf(c) = <<>>
  BY <1>2
<1>4. \A x \in ParserCall : KindsOf(Append(c, x)) = Append(KindsOf(c), x.kind)
  <2> SUFFICES ASSUME NEW x \in ParserCall PROVE KindsOf(Append(c, x)) = Append(KindsOf(c), x.kind)
    OBVIOUS
  <2> DEFINE a == KindsOf(Append(c, x))
             b == Append(KindsOf(c), x.kind)
  <2>1. x.kind \in Kinds
    BY DEF ParserCall
  <2>2. Append(c, x) \in Seq(ParserCall) /\ Len(Append(c, x)) = Len(c) + 1
    OBVIOUS
  <2>3. b \in Seq(Kinds) /\ Len(b) = Len(c) + 1 /\ \A i \in 1..Len(c) + 1 : b[i] = Append(c, x)[i].kind
    <3>1. \A i \in 1..Len(c) : KindsOf(c)[i] = c[i].kind
      BY DEF KindsOf
    <3> QED BY <1>2, <2>1, <3>1
  <2>4. a = [i \in 1..Len(c) + 1 |-> Append(c, x)[i].kind]
    BY <2>2 DEF KindsOf
  <2>5. b = [i \in 1..Len(c) + 1 |-> b[i]]
    BY <2>3
  <2> HIDE DEF a, b
  <2>6. a = b
    BY <2>3, <2>4, <2>5
  <2> QED BY <2>6 DEF a, b
<1>5. ASSUME c # <<>>
      PROVE  KindsOf(c) # <<>> /\ Last(KindsOf(c)) = Last(c).kind /\ Front(KindsOf(c)) = KindsOf(Front(c))
  <2>1. Front(c) \in Seq(ParserCall) /\ Last(c) \in ParserCall /\ c = Append(Front(c), Last(c))
    BY <1>5, FrontAndLast
  <2> DEFINE o == Front(c)
             l == Last(c)
  <2> HIDE DEF o, l
  <2>2. o \in Seq(ParserCall) /\ l \in ParserCall /\ c = Append(o, l)
    BY <2>1 DEF o, l
  <2>3. KindsOf(o) \in Seq(Kinds) /\ l.kind \in Kinds
    <3>1. \A i \in 1..Len(o) : o[i].kind \in Kinds
      BY <2>2, ElementOfSeq, CollectedType
    <3>2. l.kind \in Kinds
      BY <2>2, CollectedType
    <3> QED BY <2>2, <3>1, <3>2 DEF KindsOf
  <2>4. KindsOf(c) = Append(KindsOf(o), l.kind)
    <3> DEFINE a == KindsOf(c)
               b == Append(KindsOf(o), l.kind)
    <3>1. Len(c) = Len(o) + 1 /\ \A i \in 1..Len(c) : c[i] = IF i = Len(o) + 1 THEN l ELSE o[i]
      BY <2>2
    <3>2. \A i \in 1..Len(o) : KindsOf(o)[i] = o[i].kind
      BY DEF KindsOf
    <3>3. Len(KindsOf(o)) = Len(o)
      BY <2>2, <2>3 DEF KindsOf
    <3>4. b \in Seq(Kinds) /\ Len(b) = Len(c) /\ \A i \in 1..Len(c) : b[i] = c[i].kind
      BY <2>2, <2>3, <3>1, <3>2, <3>3
    <3>5. a = [i \in 1..Len(c) |-> c[i].kind] /\ b = [i \in 1..Len(c) |-> b[i]]
      BY <3>4 DEF KindsOf
    <3> HIDE DEF a, b
    <3>6. a = b
      BY <3>4, <3>5
    <3> QED BY <3>6 DEF a, b
  <2>5. KindsOf(c) # <<>> /\ Last(KindsOf(c)) = l.kind /\ Front(KindsOf(c)) = KindsOf(o)
    BY <2>3, <2>4, AppendedFrontAndLast
  <2> QED BY <2>5 DEF o, l
<1> QED BY <1>2, <1>3, <1>4, <1>5

\* The empty containers of a part of a text are those of the whole.
LEMMA EmptiesFinite ==
  ASSUME NEW T, NEW t \in Seq(T)
  PROVE  IsFiniteSet(Empties(t)) /\ Cardinality(Empties(t)) \in Nat
<1>1. Empties(t) \subseteq 1..Len(t)
  BY DEF Empties
<1>2. IsFiniteSet(1..Len(t))
  BY FS_Interval
<1> QED BY <1>1, <1>2, FS_Subset, FS_CardinalityType

LEMMA EmptiesOfPrefix ==
  ASSUME NEW T, NEW s \in Seq(T), NEW i \in 0..Len(s), NEW j \in 0..Len(s), i <= j
  PROVE  /\ Empties(SubSeq(s, 1, i)) \subseteq Empties(SubSeq(s, 1, j))
         /\ Cardinality(Empties(SubSeq(s, 1, i))) <= Cardinality(Empties(SubSeq(s, 1, j)))
         /\ Cardinality(Empties(SubSeq(s, 1, i))) \in Nat /\ Cardinality(Empties(SubSeq(s, 1, j))) \in Nat
<1> DEFINE a == SubSeq(s, 1, i)
           b == SubSeq(s, 1, j)
<1>1. a \in Seq(T) /\ Len(a) = i /\ \A k \in 1..i : a[k] = s[k]
  BY Prefix
<1>2. b \in Seq(T) /\ Len(b) = j /\ \A k \in 1..j : b[k] = s[k]
  BY Prefix
<1> HIDE DEF a, b
<1>3. \A k \in Empties(a) : k \in Empties(b)
  <2> SUFFICES ASSUME NEW k \in 1..Len(a) - 1, a[k] \in Opening, a[k + 1] \in Closing
               PROVE  k \in 1..Len(b) - 1 /\ b[k] \in Opening /\ b[k + 1] \in Closing
    BY DEF Empties
  <2>1. k \in 1..i /\ k + 1 \in 1..i /\ k \in 1..j /\ k + 1 \in 1..j
    BY <1>1
  <2> QED BY <1>1, <1>2, <2>1
<1>4. IsFiniteSet(Empties(b)) /\ Cardinality(Empties(b)) \in Nat /\ Cardinality(Empties(a)) \in Nat
  BY <1>1, <1>2, EmptiesFinite
<1>5. Empties(a) \subseteq Empties(b)
  BY <1>3
<1>6. Cardinality(Empties(a)) <= Cardinality(Empties(b))
  BY <1>4, <1>5, FS_Subset
<1> QED BY <1>4, <1>5, <1>6 DEF a, b

LEMMA EmptiesNew ==
  ASSUME NEW T, NEW s \in Seq(T), NEW i \in Nat, i + 2 <= Len(s), s[i + 1] \in Opening, s[i + 2] \in Closing
  PROVE  /\ Cardinality(Empties(SubSeq(s, 1, i))) + 1 <= Cardinality(Empties(SubSeq(s, 1, i + 2)))
         /\ Cardinality(Empties(SubSeq(s, 1, i))) \in Nat
<1> DEFINE a == SubSeq(s, 1, i)
           b == SubSeq(s, 1, i + 2)
<1>1. i \in 0..Len(s) /\ i + 2 \in 0..Len(s)
  OBVIOUS
<1>2. a \in Seq(T) /\ Len(a) = i
  BY <1>1, Prefix
<1>3. b \in Seq(T) /\ Len(b) = i + 2 /\ \A k \in 1..(i + 2) : b[k] = s[k]
  BY <1>1, Prefix
<1>4. Empties(a) \subseteq Empties(b)
  BY <1>1, EmptiesOfPrefix
<1> HIDE DEF a, b
<1>5. i + 1 \in Empties(b)
  <2>1. i + 1 \in 1..Len(b) - 1 /\ i + 1 \in 1..(i + 2) /\ (i + 1) + 1 \in 1..(i + 2) /\ (i + 1) + 1 = i + 2
    BY <1>3
  <2>2. b[i + 1] = s[i + 1] /\ b[(i + 1) + 1] = s[i + 2]
    BY <1>3, <2>1
  <2> QED BY <2>1, <2>2 DEF Empties
<1>6. i + 1 \notin Empties(a)
  BY <1>2 DEF Empties
<1>7. IsFiniteSet(Empties(a)) /\ IsFiniteSet(Empties(b)) /\ Cardinality(Empties(a)) \in Nat /\ Cardinality(Empties(b)) \in Nat
  BY <1>2, <1>3, EmptiesFinite
<1>8. Cardinality(Empties(a) \cup {i + 1}) = Cardinality(Empties(a)) + 1 /\ IsFiniteSet(Empties(a) \cup {i + 1})
  BY <1>6, <1>7, FS_AddElement
<1>9. Empties(a) \cup {i + 1} \subseteq Empties(b)
  BY <1>4, <1>5 DEF a, b
<1>10. Cardinality(Empties(a) \cup {i + 1}) <= Cardinality(Empties(b))
  BY <1>7, <1>9, FS_Subset
<1> QED BY <1>7, <1>8, <1>10 DEF a, b

\* Every part of a text that begins a JSON text does so, and nothing of it is
\* forgiven.
LEMMA LivePrefix ==
  ASSUME NEW t \in Seq(Tokens), After[t].wants # "none", NEW i \in 0..Len(t)
  PROVE  After[SubSeq(t, 1, i)].wants # "none"
<1> DEFINE G == {x \in Seq(Tokens) : After[x].wants # "none" =>
                     \A k \in 0..Len(x) : After[SubSeq(x, 1, k)].wants # "none"}
<1>1. <<>> \in G
  <2>1. <<>> \in Seq(Tokens) /\ Len(<<>>) = 0 /\ SubSeq(<<>>, 1, 0) = <<>>
    OBVIOUS
  <2>2. \A k \in 0..Len(<<>>) : k = 0
    BY <2>1
  <2> QED BY <2>1, <2>2
<1>2. ASSUME NEW x \in Seq(Tokens), NEW e \in Tokens, x \in G PROVE Append(x, e) \in G
  <2> DEFINE y == Append(x, e)
  <2> SUFFICES ASSUME After[y].wants # "none", NEW k \in 0..Len(y)
               PROVE  After[SubSeq(y, 1, k)].wants # "none"
    OBVIOUS
  <2>1. After[y] = Read(After[x], e)
    BY AfterRecursion
  <2>2. After[x].wants # "none"
    BY <2>1, ReadDead
  <2>3. Len(y) = Len(x) + 1 /\ Len(x) \in Nat
    OBVIOUS
  <2>4. CASE k \in 0..Len(x)
    <3>1. SubSeq(y, 1, k) = SubSeq(x, 1, k)
      BY <2>4, PrefixOfAppended
    <3> QED BY <3>1, <2>2, <2>4, <1>2
  <2>5. CASE k = Len(x) + 1
    <3>1. SubSeq(y, 1, k) = y
      BY <2>5, PrefixOfAppended
    <3> QED BY <3>1
  <2> QED BY <2>3, <2>4, <2>5
<1> HIDE DEF G
<1>3. t \in G
  BY <1>1, <1>2, SequenceInduction
<1> QED BY <1>3 DEF G

LEMMA ForgivenLive ==
  ASSUME NEW t \in Seq(Tokens), After[t].wants # "none"
  PROVE  Forgiven[t] = t
<1> DEFINE G == {x \in Seq(Tokens) : After[x].wants # "none" => Forgiven[x] = x}
<1>1. <<>> \in G
  BY ForgivenRecursion, EmptySeq
<1>2. ASSUME NEW x \in Seq(Tokens), NEW e \in Tokens, x \in G PROVE Append(x, e) \in G
  <2> DEFINE y == Append(x, e)
  <2> SUFFICES ASSUME After[y].wants # "none"
               PROVE  Forgiven[y] = y
    BY AppendedFrontAndLast
  <2>1. After[y] = Read(After[x], e)
    BY AfterRecursion
  <2>2. After[x].wants # "none" /\ Read(After[x], e).wants # "none"
    BY <2>1, ReadDead
  <2>3. x \in Seq(InputTokens) /\ e \in InputTokens
    BY DEF InputTokens
  <2>4. Forgiven[y] = Forgive(x, e)
    BY <2>2, <2>3, <1>2, ForgivenRecursion
  <2>5. e \in Closing => x = <<>> \/ Last(x) # "comma"
    <3> SUFFICES ASSUME e \in Closing PROVE x = <<>> \/ Last(x) # "comma"
      OBVIOUS
    <3>1. \E k \in Kinds : TakesEnd(After[x], k)
      BY <2>2, ReadCases DEF Closing, OpenOf
    <3>2. After[x].wants \in {"first", "next"}
      BY <3>1 DEF TakesEnd
    <3>3. Standing(x, After[x])
      BY <2>2, StandingAfter
    <3> QED BY <3>2, <3>3 DEF Standing
  <2>6. Forgive(x, e) = Append(x, e)
    BY <2>5, ForgiveFacts
  <2> QED BY <2>4, <2>6
<1> HIDE DEF G
<1>3. t \in G
  BY <1>1, <1>2, SequenceInduction
<1> QED BY <1>3 DEF G

\* A place in an input that is JSON.
LEMMA WithinJson ==
  ASSUME IsJson(ctx.input), NEW i \in 0..Len(ctx.input)
  PROVE  /\ ReadUpTo(i) \in Seq(Tokens) /\ Forgiven[ReadUpTo(i)] = ReadUpTo(i) /\ After[ReadUpTo(i)].wants # "none"
         /\ i = Len(ctx.input) => After[ReadUpTo(i)].open = <<>> /\ After[ReadUpTo(i)].wants = "next"
         /\ i < Len(ctx.input) => /\ ctx.input[i + 1] \in Tokens
                                  /\ After[ReadUpTo(i + 1)] = Read(After[ReadUpTo(i)], ctx.input[i + 1])
                                  /\ Read(After[ReadUpTo(i)], ctx.input[i + 1]).wants # "none"
<1> DEFINE input == ctx.input
           p == ReadUpTo(i)
<1>1. input \in Seq(Tokens) /\ After[input].open = <<>> /\ After[input].wants = "next"
  BY Fields DEF IsJson
<1>2. p \in Seq(Tokens)
  BY <1>1, Prefix DEF ReadUpTo
<1>3. After[p].wants # "none"
  BY <1>1, LivePrefix DEF ReadUpTo
<1>5. i = Len(input) => p = input
  BY <1>1 DEF ReadUpTo
<1>6. ASSUME i < Len(input)
      PROVE  /\ input[i + 1] \in Tokens
             /\ After[ReadUpTo(i + 1)] = Read(After[p], input[i + 1])
             /\ Read(After[p], input[i + 1]).wants # "none"
  <2>1. i \in Nat /\ i + 1 \in 0..Len(input)
    BY <1>6, <1>1
  <2>2. input[i + 1] \in Tokens /\ ReadUpTo(i + 1) = Append(p, input[i + 1])
    BY <1>1, <1>6, <2>1, OneMore DEF ReadUpTo
  <2>4. After[ReadUpTo(i + 1)].wants # "none"
    BY <1>1, <2>1, LivePrefix DEF ReadUpTo
  <2> HIDE DEF p
  <2>3. After[Append(p, input[i + 1])] = Read(After[p], input[i + 1])
    BY <1>2, <2>2, AfterRecursion
  <2> QED BY <2>2, <2>3, <2>4
<1> HIDE DEF p
<1>4. Forgiven[p] = p
  BY <1>2, <1>3, ForgivenLive
<1> QED BY <1>1, <1>2, <1>3, <1>4, <1>5, <1>6 DEF p

-----------------------------------------------------------------------------
(* The steps of the parser.                                                *)

ContextType == [input : Seq(InputTokens), offset : Nat, depth : Int]

LEMMA ContextFacts ==
  ASSUME ParserInv
  PROVE  /\ ctx \in ContextType /\ ctx.input \in Seq(InputTokens) /\ ctx.offset \in Nat /\ ctx.depth \in Int
         /\ Len(ctx.input) \in Nat /\ ctx.offset \in 0..Len(ctx.input) /\ ctx.offset <= Len(ctx.input)
         /\ calls \in Seq(ParserCall) /\ parsed \in Seq(Tokens) /\ Len(calls) \in Nat
         /\ Joined[calls] \in Seq(Tokens) /\ KindsOf(calls) \in Seq(Kinds) /\ Len(KindsOf(calls)) = Len(calls)
         /\ calls # <<>> => /\ Running = Last(calls) /\ Running \in ParserCall
                            /\ Outer = Front(calls) /\ Outer \in Seq(ParserCall) /\ Len(Outer) = Len(calls) - 1
                            /\ calls = Append(Outer, Running)
                            /\ KindsOf(calls) # <<>> /\ Last(KindsOf(calls)) = Running.kind
                            /\ Front(KindsOf(calls)) = KindsOf(Outer)
         /\ MAX_JSON_DEPTH \in Nat
<1>1. ctx \in ContextType /\ ctx.offset <= Len(ctx.input) /\ calls \in Seq(ParserCall) /\ parsed \in Seq(Tokens)
  BY DEF ParserInv, ParserType, ContextType
<1>2. ctx.input \in Seq(InputTokens) /\ ctx.offset \in Nat /\ ctx.depth \in Int
  BY <1>1 DEF ContextType
<1>3. Joined[calls] \in Seq(Tokens)
  BY <1>1, JoinedRecursion
<1>4. KindsOf(calls) \in Seq(Kinds) /\ Len(KindsOf(calls)) = Len(calls)
  BY <1>1, KindsOfFacts
<1>5. Running = Last(calls) /\ Outer = Front(calls)
  BY DEF Running, Outer, Last, Front
<1>6. calls # <<>> => /\ KindsOf(calls) # <<>> /\ Last(KindsOf(calls)) = Last(calls).kind
                      /\ Front(KindsOf(calls)) = KindsOf(Front(calls))
  BY <1>1, KindsOfFacts
<1>7. calls # <<>> => /\ Front(calls) \in Seq(ParserCall) /\ Last(calls) \in ParserCall
                      /\ calls = Append(Front(calls), Last(calls)) /\ Len(Front(calls)) = Len(calls) - 1
  BY <1>1, FrontAndLast
<1>8. Len(ctx.input) \in Nat /\ Len(calls) \in Nat
  BY <1>1, <1>2
<1> QED BY <1>1, <1>2, <1>3, <1>4, <1>5, <1>6, <1>7, <1>8, DepthAssumption

\* A text that is nested too deep somewhere.
LEMMA TooDeep ==
  ASSUME ParserInv, IsJson(ctx.input), NEW i \in 0..Len(ctx.input), NEW n \in Nat,
         Len(After[ReadUpTo(i)].open) = n,
         Cardinality(Empties(ctx.input)) + n >= MAX_JSON_DEPTH
  PROVE  ~Fits(ctx.input, Cardinality(Empties(ctx.input)))
<1>1. Cardinality(Empties(ctx.input)) \in Nat /\ MAX_JSON_DEPTH \in Nat
  BY ContextFacts, EmptiesFinite
<1> QED BY <1>1 DEF Fits, ReadUpTo

LEMMA DepthBelow ==
  ASSUME ParserInv, step \in {"value", "item", "returned", "next"}
  PROVE  ctx.depth <= Cardinality(Empties(ctx.input)) + Len(calls) /\ Cardinality(Empties(ctx.input)) \in Nat
<1>0. ctx.input \in Seq(InputTokens) /\ ctx.offset \in 0..Len(ctx.input) /\ ctx.depth \in Int
      /\ Len(calls) \in Nat /\ Len(ctx.input) \in 0..Len(ctx.input)
  BY ContextFacts
<1>1. ctx.depth <= Len(calls) + Cardinality(Empties(ReadUpTo(ctx.offset)))
  BY DEF ParserInv, DepthCounts
<1>2. /\ Cardinality(Empties(SubSeq(ctx.input, 1, ctx.offset))) <= Cardinality(Empties(SubSeq(ctx.input, 1, Len(ctx.input))))
      /\ Cardinality(Empties(SubSeq(ctx.input, 1, ctx.offset))) \in Nat
      /\ Cardinality(Empties(SubSeq(ctx.input, 1, Len(ctx.input)))) \in Nat
  BY <1>0, EmptiesOfPrefix
<1>3. SubSeq(ctx.input, 1, Len(ctx.input)) = ctx.input
  BY <1>0
<1> DEFINE a == Cardinality(Empties(SubSeq(ctx.input, 1, ctx.offset)))
           b == Cardinality(Empties(ctx.input))
<1>4. a \in Nat /\ b \in Nat /\ a <= b /\ ctx.depth <= Len(calls) + a
  BY <1>1, <1>2, <1>3 DEF ReadUpTo
<1> HIDE DEF a, b
<1>5. ctx.depth <= b + Len(calls) /\ b \in Nat
  BY <1>0, <1>4
<1> QED BY <1>5 DEF b

LEMMA FailKeeps ==
  ASSUME ParserInv, Fail, IsJson(ctx.input) => ~Fits(ctx.input, Cardinality(Empties(ctx.input)))
  PROVE  ParserInv'
<1>1. ctx' = ctx /\ calls' = calls /\ parsed' = parsed /\ step' = "NULL"
  BY DEF Fail
<1>2. ParserType'
  BY <1>1 DEF ParserInv, ParserType, ParserSteps
<1>3. JsonIsAccepted'
  BY <1>1 DEF JsonIsAccepted
<1> QED BY <1>1, <1>2, <1>3 DEF ParserInv, AtValue, AtItem, AtReturn, AtNext, DepthCounts, ReturnsInput, PrintedIsParsed

\* A value is returned.
LEMMA ReturnKeeps ==
  ASSUME ParserInv, NEW text \in Seq(Tokens), NEW open \in Seq(ParserCall), NEW after \in ContextType,
         Return(text, open, after), after.offset <= Len(ctx.input), after.input = ctx.input,
         After[Joined[open] \o text] = Behind(KindsOf(open), "next"),
         Forgiven[ReadUpTo(after.offset)] = Joined[open] \o text,
         after.depth <= Len(open) + Cardinality(Empties(ReadUpTo(after.offset)))
  PROVE  ParserInv'
<1>1. ctx' = after /\ calls' = open /\ parsed' = text /\ ctx'.input = ctx.input
  BY DEF Return
<1>2. step' \in {"returned", "NULL", "done"}
  BY DEF Return
<1>3. ParserType'
  BY <1>1, <1>2 DEF ParserType, ParserSteps, ContextType
<1>4. AtValue' /\ AtItem' /\ AtNext' /\ PrintedIsParsed'
  BY <1>2 DEF AtValue, AtItem, AtNext, PrintedIsParsed
<1>5. DepthCounts'
  BY <1>1, <1>2 DEF DepthCounts, ReadUpTo
<1>6. CASE open # <<>>
  <2>1. step' = "returned"
    BY <1>6 DEF Return
  <2>2. AtReturn'
    BY <1>1, <1>6 DEF AtReturn, ReadUpTo
  <2> QED BY <2>1, <2>2, <1>3, <1>4, <1>5 DEF ParserInv, ReturnsInput, JsonIsAccepted
<1>7. CASE open = <<>>
  <2>0. step' \in {"NULL", "done"}
    BY <1>7 DEF Return
  <2>1. Joined[open] = <<>> /\ KindsOf(open) = <<>>
    BY <1>7, JoinedRecursion, KindsOfFacts
  <2>2. <<>> \o text = text
    OBVIOUS
  <2>3. After[text] = Behind(<<>>, "next") /\ Forgiven[ReadUpTo(after.offset)] = text
    BY <2>1, <2>2
  <2>4. after.offset \in 0..Len(ctx.input) /\ after.offset \in Nat /\ Len(ctx.input) \in Nat
    BY ContextFacts DEF ContextType
  <2>5. CASE after.offset < Len(ctx.input)
    <3>1. step' = "NULL"
      BY <1>1, <1>7, <2>5 DEF Return
    <3>2. ASSUME IsJson(ctx.input) PROVE FALSE
      <4> DEFINE p == ReadUpTo(after.offset)
                 e == ctx.input[after.offset + 1]
      <4>1. Forgiven[p] = p /\ e \in Tokens /\ Read(After[p], e).wants # "none"
        BY <3>2, <2>4, <2>5, WithinJson
      <4> HIDE DEF p, e
      <4>2. p = text
        BY <4>1, <2>3 DEF p
      <4>3. After[p].open = <<>> /\ After[p].wants = "next"
        BY <4>2, <2>3, Fields
      <4> QED BY <4>1, <4>3, ReadCases DEF TakesValue, TakesEnd, TakesName, TakesComma, Within
    <3>3. JsonIsAccepted'
      BY <1>1, <3>2 DEF JsonIsAccepted
    <3> QED BY <3>1, <3>3, <1>3, <1>4, <1>5 DEF ParserInv, ReturnsInput, AtReturn
  <2>6. CASE after.offset = Len(ctx.input)
    <3>1. step' = "done"
      BY <1>1, <1>7, <2>4, <2>6 DEF Return
    <3>2. ReadUpTo(after.offset) = ctx.input
      BY <2>6, ContextFacts DEF ReadUpTo
    <3>3. ReturnsInput'
      BY <1>1, <2>3, <3>2 DEF ReturnsInput, IsJson
    <3> QED BY <3>1, <3>3, <1>3, <1>4, <1>5 DEF ParserInv, JsonIsAccepted, AtReturn
  <2> QED BY <2>4, <2>5, <2>6
<1> QED BY <1>6, <1>7

LEMMA ReadOneMore ==
  ASSUME ParserInv, NEW i, i \in Nat, i < Len(ctx.input), NEW before, Forgiven[ReadUpTo(i)] = before
  PROVE  /\ before \in Seq(Tokens) /\ ctx.input[i + 1] \in InputTokens
         /\ Forgiven[ReadUpTo(i + 1)] = Forgive(before, ctx.input[i + 1])
<1>1. ctx.input \in Seq(InputTokens)
  BY ContextFacts
<1> QED BY <1>1, ForgivenOneMore DEF ReadUpTo

\* More has been read.
LEMMA EmptiesGrow ==
  ASSUME ParserInv, NEW i, NEW j, i \in 0..Len(ctx.input), j \in 0..Len(ctx.input), i <= j
  PROVE  /\ Cardinality(Empties(ReadUpTo(i))) <= Cardinality(Empties(ReadUpTo(j)))
         /\ Cardinality(Empties(ReadUpTo(i))) \in Nat /\ Cardinality(Empties(ReadUpTo(j))) \in Nat
<1>1. ctx.input \in Seq(InputTokens)
  BY ContextFacts
<1> QED BY <1>1, EmptiesOfPrefix DEF ReadUpTo

\* Where the depth may be after a step.
LEMMA DepthGrows ==
  ASSUME ParserInv, step \in {"value", "item", "returned", "next"},
         NEW j, j \in 0..Len(ctx.input), ctx.offset <= j
  PROVE  /\ ctx.depth <= Len(calls) + Cardinality(Empties(ReadUpTo(j)))
         /\ ctx.depth + 1 <= (Len(calls) + 1) + Cardinality(Empties(ReadUpTo(j)))
         /\ ctx.depth - 1 <= (Len(calls) - 1) + Cardinality(Empties(ReadUpTo(j)))
<1>0. ctx.offset \in 0..Len(ctx.input) /\ ctx.depth \in Int /\ Len(calls) \in Nat
  BY ContextFacts
<1> DEFINE a == Cardinality(Empties(ReadUpTo(ctx.offset)))
           b == Cardinality(Empties(ReadUpTo(j)))
<1>1. ctx.depth <= Len(calls) + a
  BY DEF ParserInv, DepthCounts
<1>2. a \in Nat /\ b \in Nat /\ a <= b
  BY <1>0, EmptiesGrow
<1> HIDE DEF a, b
<1>3. /\ ctx.depth <= Len(calls) + b
      /\ ctx.depth + 1 <= (Len(calls) + 1) + b
      /\ ctx.depth - 1 <= (Len(calls) - 1) + b
  BY <1>0, <1>1, <1>2
<1> QED BY <1>3 DEF b

LEMMA SeesFacts ==
  ASSUME ParserInv
  PROVE  /\ AtEnd <=> ctx.offset = Len(ctx.input)
         /\ ~AtEnd => ctx.offset < Len(ctx.input) /\ ctx.offset + 1 \in 0..Len(ctx.input) /\ ctx.offset <= ctx.offset + 1
         /\ \A token : Sees(token) <=> ~AtEnd /\ ctx.input[ctx.offset + 1] = token
<1>1. ctx.offset \in 0..Len(ctx.input) /\ Len(ctx.input) \in Nat
  BY ContextFacts
<1> QED BY <1>1 DEF AtEnd, Sees

LEMMA ScalarParsed ==
  ASSUME ParserInv, ParseScalar
  PROVE  ParserInv'
<1>1. step = "value"
  BY DEF ParseScalar
<1>2. PICK token \in ValueTokens : Sees(token) /\ Return(<<IF token = "cut" THEN "str" ELSE token>>, calls, Advanced(1))
  BY DEF ParseScalar
<1> DEFINE e == IF token = "cut" THEN "str" ELSE token
           j == Joined[calls]
           after == Advanced(1)
<1>3. e \in {"str", "lit", "raw"} /\ e \in Tokens /\ Return(<<e>>, calls, after)
  BY <1>2 DEF ValueTokens, Tokens, Scalars
<1>4. TakesValue(After[j]) /\ After[j].open = KindsOf(calls) /\ Forgiven[ReadUpTo(ctx.offset)] = j
  BY <1>1 DEF ParserInv, AtValue
<1>5. ctx.offset < Len(ctx.input) /\ ctx.input[ctx.offset + 1] = token /\ ctx.offset + 1 \in 0..Len(ctx.input)
      /\ ctx.offset \in Nat /\ j \in Seq(Tokens) /\ calls \in Seq(ParserCall) /\ ctx.offset <= ctx.offset + 1
      /\ ctx.depth \in Int /\ Len(calls) \in Nat
  BY <1>2, SeesFacts, ContextFacts
<1>6. after \in ContextType /\ after.input = ctx.input /\ after.offset = ctx.offset + 1 /\ after.depth = ctx.depth
  <2>1. after = [ctx EXCEPT !.offset = @ + 1]
    BY DEF Advanced
  <2>2. ctx \in ContextType
    BY ContextFacts
  <2> QED BY <2>1, <2>2 DEF ContextType
<1>7. Forgiven[ReadUpTo(ctx.offset + 1)] = Append(j, e)
  <2>1. Forgiven[ReadUpTo(ctx.offset + 1)] = Forgive(j, token)
    BY <1>4, <1>5, ReadOneMore
  <2>2. token # "cut" => token \in Tokens \ Closing
    BY DEF ValueTokens, Tokens, Scalars, Closing
  <2>3. Forgive(j, token) = Append(j, e)
    BY <2>2, ForgiveFacts
  <2> QED BY <2>1, <2>3
<1>8. After[Append(j, e)] = Behind(KindsOf(calls), "next")
  <2>1. After[Append(j, e)] = Read(After[j], e)
    BY <1>3, <1>5, AfterRecursion
  <2> HIDE DEF e, j
  <2> QED BY <2>1, <1>3, <1>4, ReadAllowed
<1>9. j \o <<e>> = Append(j, e) /\ <<e>> \in Seq(Tokens)
  <2> HIDE DEF e, j
  <2> QED BY <1>3, <1>5, AppendedTokens
<1>11. ctx.depth <= Len(calls) + Cardinality(Empties(ReadUpTo(ctx.offset + 1)))
  BY <1>1, <1>5, DepthGrows
<1> HIDE DEF e, after
<1>12. /\ after.offset <= Len(ctx.input)
       /\ After[Joined[calls] \o <<e>>] = Behind(KindsOf(calls), "next")
       /\ Forgiven[ReadUpTo(after.offset)] = Joined[calls] \o <<e>>
       /\ after.depth <= Len(calls) + Cardinality(Empties(ReadUpTo(after.offset)))
  <2>1. ReadUpTo(after.offset) = ReadUpTo(ctx.offset + 1)
    BY <1>6
  <2>2. after.offset <= Len(ctx.input)
    BY <1>5, <1>6
  <2>3. after.depth <= Len(calls) + Cardinality(Empties(ReadUpTo(after.offset)))
    BY <2>1, <1>6, <1>11
  <2> QED BY <2>1, <2>2, <2>3, <1>7, <1>8, <1>9
<1> QED BY <1>3, <1>5, <1>6, <1>9, <1>12, ReturnKeeps

LEMMA NothingParsed ==
  ASSUME ParserInv, ParseNothing
  PROVE  ParserInv'
<1>1. step = "value" /\ Fail /\ ~\E token \in ValueTokens \cup Opening : Sees(token)
  BY DEF ParseNothing
<1> DEFINE p == ReadUpTo(ctx.offset)
           e == ctx.input[ctx.offset + 1]
<1>2. ASSUME IsJson(ctx.input) PROVE FALSE
  <2>0. ctx.offset \in 0..Len(ctx.input)
    BY ContextFacts
  <2>1. /\ Forgiven[p] = p
        /\ ctx.offset = Len(ctx.input) => After[p].wants = "next"
        /\ ctx.offset < Len(ctx.input) => e \in Tokens /\ Read(After[p], e).wants # "none"
    BY <1>2, <2>0, WithinJson
  <2>2. /\ TakesValue(After[p])
        /\ After[p].wants = "first" => ~Sees("end_array")
    BY <1>1, <2>1 DEF ParserInv, AtValue
  <2>3. ~AtEnd
    <3>1. After[p].wants # "next"
      BY <2>2 DEF TakesValue
    <3> QED BY <3>1, <2>1, SeesFacts
  <2>4. Sees(e) /\ e \in Tokens /\ Read(After[p], e).wants # "none"
    BY <2>1, <2>3, SeesFacts
  <2>5. e \notin ValueTokens /\ e \notin Opening
    BY <1>1, <2>4
  <2> HIDE DEF p, e
  <2>6. \E k \in Kinds : e = CloseOf(k) /\ TakesEnd(After[p], k)
    <3>1. ~(e \in {"str", "lit", "raw"}) /\ \A k \in Kinds : e # OpenOf(k)
      BY <2>5 DEF ValueTokens, Opening, OpenOf
    <3>2. After[p].wants # "colon" /\ ~TakesComma(After[p])
      BY <2>2 DEF TakesValue, TakesComma
    <3> QED BY <3>1, <3>2, <2>4, ReadCases
  <2>7. PICK k \in Kinds : e = CloseOf(k) /\ TakesEnd(After[p], k)
    BY <2>6
  <2>8. After[p].wants = "first" /\ Within(After[p], "ARRAY") /\ Within(After[p], k)
    BY <2>2, <2>7 DEF TakesValue, TakesEnd
  <2>9. k = "ARRAY"
    BY <2>8 DEF Within
  <2>10. e = "end_array"
    BY <2>7, <2>9 DEF CloseOf
  <2> QED BY <2>2, <2>4, <2>8, <2>10
<1> QED BY <1>1, <1>2, FailKeeps

\* A container that has something in it.
LEMMA EnterKeeps ==
  ASSUME ParserInv, step = "value", NEW kind \in Kinds, Sees(OpenOf(kind)), Enter(kind)
  PROVE  ParserInv'
<1> DEFINE j == Joined[calls]
           y == Append(j, OpenOf(kind))
           x == [kind |-> kind, count |-> 0, text |-> <<>>]
           c == Append(calls, x)
<1>1. /\ ctx' = [ctx EXCEPT !.offset = @ + 1, !.depth = @ + 1]
      /\ calls' = c /\ step' = "item" /\ parsed' = parsed
  BY DEF Enter
<1>2. TakesValue(After[j]) /\ After[j].open = KindsOf(calls) /\ Forgiven[ReadUpTo(ctx.offset)] = j
  BY DEF ParserInv, AtValue
<1>3. ctx.offset < Len(ctx.input) /\ ctx.input[ctx.offset + 1] = OpenOf(kind) /\ ctx.offset + 1 \in 0..Len(ctx.input)
      /\ ctx.offset \in Nat /\ j \in Seq(Tokens) /\ calls \in Seq(ParserCall) /\ ctx.offset <= ctx.offset + 1
      /\ ctx.depth \in Int /\ Len(calls) \in Nat /\ parsed \in Seq(Tokens)
  BY SeesFacts, ContextFacts
<1>4. ctx' \in ContextType /\ ctx'.input = ctx.input /\ ctx'.offset = ctx.offset + 1 /\ ctx'.depth = ctx.depth + 1
  <2>1. ctx \in ContextType /\ ctx.offset + 1 \in Nat /\ ctx.depth + 1 \in Int
    BY ContextFacts
  <2> QED BY <1>1, <2>1 DEF ContextType
<1>5. OpenOf(kind) \in Tokens \ Closing /\ OpenOf(kind) \in Tokens
  BY DEF OpenOf, Tokens, Opening, Closing, Kinds
<1>6. Forgiven[ReadUpTo(ctx.offset + 1)] = y
  <2>1. Forgiven[ReadUpTo(ctx.offset + 1)] = Forgive(j, OpenOf(kind))
    BY <1>2, <1>3, ReadOneMore
  <2> QED BY <2>1, <1>5, ForgiveFacts
<1>7. x \in ParserCall /\ x.kind = kind /\ x.count = 0 /\ x.text = <<>>
  <2>1. <<>> \in Seq(Tokens)
    OBVIOUS
  <2> QED BY <2>1 DEF ParserCall
<1> HIDE DEF x
<1>8. c \in Seq(ParserCall) /\ c # <<>> /\ Last(c) = x /\ Len(c) = Len(calls) + 1
  BY <1>3, <1>7, AppendedFrontAndLast
<1>9. KindsOf(c) = Append(KindsOf(calls), kind)
  BY <1>3, <1>7, KindsOfFacts
<1>10. Joined[c] = y
  <2>1. Joined[c] = j \o Collected(x)
    BY <1>3, <1>7, JoinedRecursion
  <2>2. Collected(x) = <<OpenOf(kind)>>
    <3>1. Collected(x) = <<OpenOf(kind)>> \o <<>>
      BY <1>7 DEF Collected
    <3>2. <<OpenOf(kind)>> \in Seq(Tokens)
      BY <1>5
    <3> QED BY <3>1, <3>2
  <2>3. j \o <<OpenOf(kind)>> = y
    <3> HIDE DEF j
    <3> QED BY <1>3, <1>5, AppendedTokens
  <2> QED BY <2>1, <2>2, <2>3
<1>11. After[y] = Behind(Append(KindsOf(calls), kind), "first")
  <2>1. After[y] = Read(After[j], OpenOf(kind))
    BY <1>3, <1>5, AfterRecursion
  <2> HIDE DEF j, y
  <2>2. Read(After[j], OpenOf(kind)) = Behind(Append(After[j].open, kind), "first")
    BY <1>2, ReadAllowed
  <2> QED BY <2>1, <2>2, <1>2
<1>12. ctx.depth + 1 <= (Len(calls) + 1) + Cardinality(Empties(ReadUpTo(ctx.offset + 1)))
  BY <1>3, DepthGrows
<1> HIDE DEF c, y, j
<1>13. SubSeq(ctx'.input, 1, ctx'.offset) = ReadUpTo(ctx.offset + 1)
  BY <1>4 DEF ReadUpTo
<1>14. ParserType'
  <2>1. ctx'.offset <= Len(ctx'.input)
    BY <1>3, <1>4
  <2> QED BY <1>1, <1>3, <1>4, <1>8, <2>1 DEF ParserType, ParserSteps, ContextType
<1>15. AtItem'
  <2>1. calls'[Len(calls')] = x
    BY <1>1, <1>8 DEF Last
  <2>2. ~(x.count > 0)
    BY <1>7
  <2>3. SeparatorOf(x) = <<>>
    BY <2>2 DEF SeparatorOf
  <2>4. y \in Seq(Tokens)
    BY <1>3, <1>5 DEF y
  <2>5. y \o <<>> = y
    BY <2>4
  <2>6. After[Joined[calls']] = Behind(KindsOf(calls'), "first")
    BY <1>1, <1>9, <1>10, <1>11
  <2>7. Forgiven[SubSeq(ctx'.input, 1, ctx'.offset)] = Joined[calls'] \o SeparatorOf(x)
    BY <1>1, <1>6, <1>10, <1>13, <2>3, <2>5
  <2> QED BY <1>1, <1>8, <2>1, <2>2, <2>6, <2>7 DEF AtItem, Running, ReadUpTo
<1>16. DepthCounts'
  <2>1. ctx'.depth <= Len(calls') + Cardinality(Empties(SubSeq(ctx'.input, 1, ctx'.offset)))
    BY <1>1, <1>4, <1>8, <1>12, <1>13
  <2> QED BY <2>1 DEF DepthCounts, ReadUpTo
<1> QED BY <1>1, <1>14, <1>15, <1>16
     DEF ParserInv, AtValue, AtReturn, AtNext, ReturnsInput, JsonIsAccepted, PrintedIsParsed

\* An empty container.
LEMMA EmptyKeeps ==
  ASSUME ParserInv, step = "value", NEW kind \in Kinds, EmptyContainer(kind),
         Return(<<OpenOf(kind), CloseOf(kind)>>, calls, [ctx EXCEPT !.offset = @ + 2, !.depth = @ + 1])
  PROVE  ParserInv'
<1> DEFINE j == Joined[calls]
           m == Append(j, OpenOf(kind))
           y == Append(m, CloseOf(kind))
           text == <<OpenOf(kind), CloseOf(kind)>>
           after == [ctx EXCEPT !.offset = @ + 2, !.depth = @ + 1]
<1>1. Sees(OpenOf(kind)) /\ ctx.offset + 1 < Len(ctx.input) /\ ctx.input[ctx.offset + 2] = CloseOf(kind)
      /\ Return(text, calls, after)
  BY DEF EmptyContainer
<1>2. TakesValue(After[j]) /\ After[j].open = KindsOf(calls) /\ Forgiven[ReadUpTo(ctx.offset)] = j
  BY DEF ParserInv, AtValue
<1>3. ctx.offset < Len(ctx.input) /\ ctx.input[ctx.offset + 1] = OpenOf(kind)
      /\ ctx.offset \in Nat /\ j \in Seq(Tokens) /\ calls \in Seq(ParserCall)
      /\ ctx.depth \in Int /\ Len(calls) \in Nat /\ Len(ctx.input) \in Nat /\ KindsOf(calls) \in Seq(Kinds)
      /\ ctx.input \in Seq(InputTokens)
  BY <1>1, SeesFacts, ContextFacts
<1>4. after \in ContextType /\ after.input = ctx.input /\ after.offset = ctx.offset + 2 /\ after.depth = ctx.depth + 1
  <2>1. ctx \in ContextType /\ ctx.offset + 2 \in Nat /\ ctx.depth + 1 \in Int
    BY ContextFacts
  <2> QED BY <2>1 DEF ContextType
<1>5. OpenOf(kind) \in Tokens \ Closing /\ OpenOf(kind) \in Tokens /\ OpenOf(kind) \in Opening /\ OpenOf(kind) # "comma"
      /\ CloseOf(kind) \in Closing /\ CloseOf(kind) \in Tokens
  BY DEF OpenOf, CloseOf, Tokens, Opening, Closing, Kinds
<1>6. m \in Seq(Tokens) /\ m # <<>> /\ Last(m) = OpenOf(kind) /\ y \in Seq(Tokens)
  BY <1>3, <1>5, AppendedFrontAndLast
<1>7. Forgiven[ReadUpTo(ctx.offset + 1)] = m
  <2>1. Forgiven[ReadUpTo(ctx.offset + 1)] = Forgive(j, OpenOf(kind))
    BY <1>2, <1>3, ReadOneMore
  <2> QED BY <2>1, <1>5, ForgiveFacts
<1>8. Forgiven[ReadUpTo(ctx.offset + 2)] = y
  <2> HIDE DEF m, j
  <2>0. ctx.offset + 1 \in Nat /\ (ctx.offset + 1) + 1 = ctx.offset + 2
    BY <1>3
  <2>1. Forgiven[ReadUpTo((ctx.offset + 1) + 1)] = Forgive(m, ctx.input[(ctx.offset + 1) + 1])
    BY <1>1, <1>7, <2>0, ReadOneMore
  <2>2. Forgiven[ReadUpTo(ctx.offset + 2)] = Forgive(m, CloseOf(kind))
    BY <2>0, <2>1, <1>1
  <2>3. Forgive(m, CloseOf(kind)) = Append(m, CloseOf(kind))
    BY <1>5, <1>6, ForgiveFacts
  <2> QED BY <2>2, <2>3
<1>9. After[m] = Behind(Append(KindsOf(calls), kind), "first")
  <2>1. After[m] = Read(After[j], OpenOf(kind))
    BY <1>3, <1>5, AfterRecursion
  <2> HIDE DEF j, m
  <2>2. Read(After[j], OpenOf(kind)) = Behind(Append(After[j].open, kind), "first")
    BY <1>2, ReadAllowed
  <2> QED BY <2>1, <2>2, <1>2
<1>10. After[y] = Behind(KindsOf(calls), "next")
  <2>1. After[y] = Read(After[m], CloseOf(kind))
    BY <1>5, <1>6, AfterRecursion
  <2> DEFINE o == Append(KindsOf(calls), kind)
  <2>2. o # <<>> /\ Last(o) = kind /\ Front(o) = KindsOf(calls)
    BY <1>3, AppendedFrontAndLast
  <2> HIDE DEF o, m, j, y
  <2>6. After[m] = Behind(o, "first")
    BY <1>9 DEF o
  <2>3. After[m].open = o /\ After[m].wants = "first"
    BY <2>6, Fields
  <2>4. TakesEnd(After[m], kind)
    BY <2>2, <2>3 DEF TakesEnd, Within
  <2>5. Read(After[m], CloseOf(kind)) = Behind(Front(After[m].open), "next")
    BY <2>4, ReadAllowed
  <2> QED BY <2>1, <2>2, <2>3, <2>5
<1>11. j \o text = y /\ text \in Seq(Tokens)
  <2> DEFINE a == OpenOf(kind)
             b == CloseOf(kind)
  <2>1. a \in Tokens /\ b \in Tokens
    BY <1>5
  <2> HIDE DEF a, b, j
  <2>2. j \o <<a, b>> = Append(Append(j, a), b) /\ <<a, b>> \in Seq(Tokens)
    BY <1>3, <2>1
  <2> QED BY <2>2 DEF a, b
<1>12. ctx.depth + 1 <= Len(calls) + Cardinality(Empties(ReadUpTo(ctx.offset + 2)))
  <2> DEFINE a == Cardinality(Empties(ReadUpTo(ctx.offset)))
             b == Cardinality(Empties(ReadUpTo(ctx.offset + 2)))
  <2>1. ctx.depth <= Len(calls) + a
    BY DEF ParserInv, DepthCounts
  <2>2. a + 1 <= b /\ a \in Nat
    BY <1>1, <1>3, <1>5, EmptiesNew DEF ReadUpTo
  <2>3. b \in Nat
    <3>1. ctx.offset + 2 \in 0..Len(ctx.input) /\ ctx.offset + 2 <= ctx.offset + 2
      BY <1>1, <1>3
    <3> QED BY <3>1, EmptiesGrow
  <2> HIDE DEF a, b
  <2>4. ctx.depth + 1 <= Len(calls) + b
    BY <2>1, <2>2, <2>3, <1>3
  <2> QED BY <2>4 DEF b
<1> HIDE DEF after, j, m, y, text
<1>13. ReadUpTo(after.offset) = ReadUpTo(ctx.offset + 2)
  BY <1>4
<1>14. after.offset <= Len(ctx.input)
  BY <1>1, <1>3, <1>4
<1>15. after.depth <= Len(calls) + Cardinality(Empties(ReadUpTo(after.offset)))
  BY <1>4, <1>12, <1>13
<1>16. After[Joined[calls] \o text] = Behind(KindsOf(calls), "next") /\ Forgiven[ReadUpTo(after.offset)] = Joined[calls] \o text
  BY <1>8, <1>10, <1>11, <1>13 DEF j
<1> QED BY <1>1, <1>3, <1>4, <1>11, <1>14, <1>15, <1>16, ReturnKeeps

\* The end of a container, behind its last item or behind a comma.
LEMMA ContainerEnds ==
  ASSUME ParserInv, step \in {"item", "next"}, calls # <<>>, EndContainer, Sees(CloseOf(Running.kind)),
         NEW wants \in {"first", "next"}, After[Joined[calls]] = Behind(KindsOf(calls), wants),
         NEW sep \in Separators, Forgiven[ReadUpTo(ctx.offset)] = Joined[calls] \o sep
  PROVE  ParserInv'
<1> DEFINE j == Joined[calls]
           close == CloseOf(Running.kind)
           y == Append(j, close)
           text == Closed(Running)
           after == [ctx EXCEPT !.offset = @ + 1, !.depth = @ - 1]
<1>1. Return(text, Outer, after)
  BY DEF EndContainer
<1>2. /\ Running \in ParserCall /\ Outer \in Seq(ParserCall) /\ Len(Outer) = Len(calls) - 1
      /\ calls = Append(Outer, Running)
      /\ KindsOf(calls) # <<>> /\ Last(KindsOf(calls)) = Running.kind /\ Front(KindsOf(calls)) = KindsOf(Outer)
      /\ Running.kind \in Kinds /\ Collected(Running) \in Seq(Tokens)
  BY ContextFacts, CollectedType
<1>3. ctx.offset < Len(ctx.input) /\ ctx.input[ctx.offset + 1] = close /\ ctx.offset + 1 \in 0..Len(ctx.input)
      /\ ctx.offset \in Nat /\ j \in Seq(Tokens) /\ ctx.offset <= ctx.offset + 1
      /\ ctx.depth \in Int /\ Len(calls) \in Nat
  BY SeesFacts, ContextFacts
<1>4. after \in ContextType /\ after.input = ctx.input /\ after.offset = ctx.offset + 1 /\ after.depth = ctx.depth - 1
  <2>1. ctx \in ContextType /\ ctx.offset + 1 \in Nat /\ ctx.depth - 1 \in Int
    BY ContextFacts
  <2> QED BY <2>1 DEF ContextType
<1>5. close \in Closing /\ close \in Tokens
  BY <1>2 DEF CloseOf, Tokens, Closing, Kinds
<1>6. Forgiven[ReadUpTo(ctx.offset + 1)] = y
  <2> DEFINE before == j \o sep
  <2>1. Forgiven[ReadUpTo(ctx.offset + 1)] = Forgive(before, close)
    BY <1>3, ReadOneMore
  <2>2. CASE sep = <<"comma">>
    <3>1. "comma" \in Tokens
      BY DEF Tokens
    <3>2. before = Append(j, "comma")
      BY <2>2, <3>1, <1>3, AppendedTokens
    <3>3. before # <<>> /\ Last(before) = "comma" /\ Front(before) = j
      BY <3>1, <3>2, <1>3, AppendedFrontAndLast
    <3> HIDE DEF before, close, j
    <3>4. Forgive(before, close) = Append(j, close)
      BY <3>3, <1>5, ForgiveFacts
    <3> QED BY <2>1, <3>4
  <2>3. CASE sep = <<>>
    <3>1. before = j
      BY <2>3, <1>3
    <3>2. After[j].wants = wants
      BY Fields
    <3>3. Standing(j, After[j])
      BY <3>2, <1>3, StandingAfter
    <3>4. Last(j) # "comma"
      BY <3>2, <3>3 DEF Standing
    <3> HIDE DEF before, close, j
    <3>5. Forgive(before, close) = Append(j, close)
      BY <3>1, <3>4, <1>5, ForgiveFacts
    <3> QED BY <2>1, <3>5
  <2> QED BY <2>2, <2>3 DEF Separators
<1>7. After[y] = Behind(KindsOf(Outer), "next")
  <2>1. After[y] = Read(After[j], close)
    BY <1>3, <1>5, AfterRecursion
  <2>2. After[j].open = KindsOf(calls) /\ After[j].wants = wants
    BY Fields
  <2>3. TakesEnd(After[j], Running.kind)
    BY <2>2, <1>2 DEF TakesEnd, Within
  <2>4. Read(After[j], close) = Behind(Front(After[j].open), "next")
    BY <2>3, <1>2, ReadAllowed
  <2> HIDE DEF j, y
  <2> QED BY <2>1, <2>2, <2>4, <1>2
<1>8. Joined[Outer] \o text = y /\ text \in Seq(Tokens)
  <2> DEFINE h == Joined[Outer]
             m == Collected(Running)
  <2>1. h \in Seq(Tokens) /\ m \in Seq(Tokens) /\ j = h \o m
    BY <1>2, JoinedRecursion
  <2>2. text = m \o <<close>>
    BY DEF Closed, Collected
  <2> HIDE DEF h, m, close, j
  <2>3. <<close>> \in Seq(Tokens) /\ j \o <<close>> = Append(j, close)
    BY <1>3, <1>5, AppendedTokens
  <2>4. (h \o m) \o <<close>> = h \o (m \o <<close>>) /\ m \o <<close>> \in Seq(Tokens)
    BY <2>1, <2>3, ConcatAssociative, ConcatProperties
  <2> QED BY <2>1, <2>2, <2>3, <2>4 DEF h
<1>9. ctx.depth - 1 <= (Len(calls) - 1) + Cardinality(Empties(ReadUpTo(ctx.offset + 1)))
  BY <1>3, DepthGrows
<1> HIDE DEF after, j, y, text, close
<1>10. ReadUpTo(after.offset) = ReadUpTo(ctx.offset + 1) /\ after.offset <= Len(ctx.input)
  BY <1>3, <1>4
<1>11. after.depth <= Len(Outer) + Cardinality(Empties(ReadUpTo(after.offset)))
  BY <1>2, <1>4, <1>9, <1>10
<1>12. After[Joined[Outer] \o text] = Behind(KindsOf(Outer), "next") /\ Forgiven[ReadUpTo(after.offset)] = Joined[Outer] \o text
  BY <1>6, <1>7, <1>8, <1>10
<1> QED BY <1>1, <1>2, <1>4, <1>8, <1>10, <1>11, <1>12, ReturnKeeps

\* In an input that is JSON, behind an opening bracket.
LEMMA JsonOpened ==
  ASSUME ParserInv, step = "value", NEW kind \in Kinds, Sees(OpenOf(kind)), IsJson(ctx.input)
  PROVE  /\ After[ReadUpTo(ctx.offset + 1)].wants = "first"
         /\ Len(After[ReadUpTo(ctx.offset + 1)].open) = Len(calls) + 1
<1> DEFINE p == ReadUpTo(ctx.offset)
<1>1. ctx.offset < Len(ctx.input) /\ ctx.input[ctx.offset + 1] = OpenOf(kind) /\ ctx.offset \in 0..Len(ctx.input)
      /\ KindsOf(calls) \in Seq(Kinds) /\ Len(KindsOf(calls)) = Len(calls)
  BY SeesFacts, ContextFacts
<1>2. Forgiven[p] = p /\ After[ReadUpTo(ctx.offset + 1)] = Read(After[p], OpenOf(kind))
  BY <1>1, WithinJson
<1>3. TakesValue(After[p]) /\ After[p].open = KindsOf(calls)
  BY <1>2 DEF ParserInv, AtValue
<1> HIDE DEF p
<1> DEFINE o == Append(KindsOf(calls), kind)
<1>4. Len(o) = Len(calls) + 1
  BY <1>1
<1>5. Read(After[p], OpenOf(kind)) = Behind(o, "first")
  BY <1>3, ReadAllowed
<1> HIDE DEF o
<1> QED BY <1>2, <1>4, <1>5, Fields

LEMMA ArrayParsed ==
  ASSUME ParserInv, ParseArray
  PROVE  ParserInv'
<1>1. step = "value" /\ Sees(OpenOf("ARRAY")) /\ "ARRAY" \in Kinds
  BY DEF ParseArray, OpenOf, Kinds
<1>2. CASE ctx.depth + 1 >= MAX_JSON_DEPTH /\ Fail
  <2>1. ASSUME IsJson(ctx.input) PROVE ~Fits(ctx.input, Cardinality(Empties(ctx.input)))
    <3>1. Len(After[ReadUpTo(ctx.offset + 1)].open) = Len(calls) + 1
      BY <1>1, <2>1, JsonOpened
    <3>2. ctx.depth <= Cardinality(Empties(ctx.input)) + Len(calls) /\ Cardinality(Empties(ctx.input)) \in Nat
      BY <1>1, DepthBelow
    <3>3. ctx.offset + 1 \in 0..Len(ctx.input) /\ ctx.depth \in Int /\ Len(calls) \in Nat /\ MAX_JSON_DEPTH \in Nat
      BY <1>1, SeesFacts, ContextFacts
    <3>4. Cardinality(Empties(ctx.input)) + (Len(calls) + 1) >= MAX_JSON_DEPTH /\ Len(calls) + 1 \in Nat
      BY <1>2, <3>2, <3>3
    <3> QED BY <2>1, <3>1, <3>3, <3>4, TooDeep
  <2> QED BY <1>2, <2>1, FailKeeps
<1>3. CASE /\ EmptyContainer("ARRAY")
           /\ Return(<<"begin_array", "end_array">>, calls, [ctx EXCEPT !.offset = @ + 2, !.depth = @ + 1])
  <2>1. <<"begin_array", "end_array">> = <<OpenOf("ARRAY"), CloseOf("ARRAY")>>
    BY DEF OpenOf, CloseOf
  <2> QED BY <1>1, <1>3, <2>1, EmptyKeeps
<1>4. CASE Enter("ARRAY")
  BY <1>1, <1>4, EnterKeeps
<1> QED BY <1>2, <1>3, <1>4 DEF ParseArray

LEMMA ObjectParsed ==
  ASSUME ParserInv, ParseObject
  PROVE  ParserInv'
<1>1. step = "value" /\ Sees(OpenOf("OBJECT")) /\ "OBJECT" \in Kinds
  BY DEF ParseObject, OpenOf, Kinds
<1>2. CASE ctx.offset + 1 >= Len(ctx.input) /\ Fail
  <2>1. ASSUME IsJson(ctx.input) PROVE FALSE
    <3>1. After[ReadUpTo(ctx.offset + 1)].wants = "first"
      BY <1>1, <2>1, JsonOpened
    <3>2. ctx.offset + 1 \in 0..Len(ctx.input) /\ ctx.offset + 1 = Len(ctx.input)
      BY <1>1, <1>2, SeesFacts, ContextFacts
    <3>3. After[ReadUpTo(ctx.offset + 1)].wants = "next"
      BY <2>1, <3>2, WithinJson
    <3> QED BY <3>1, <3>3
  <2> QED BY <1>2, <2>1, FailKeeps
<1>3. CASE /\ EmptyContainer("OBJECT")
           /\ Return(<<"begin_object", "end_object">>, calls, [ctx EXCEPT !.offset = @ + 2, !.depth = @ + 1])
  <2>1. <<"begin_object", "end_object">> = <<OpenOf("OBJECT"), CloseOf("OBJECT")>>
    BY DEF OpenOf, CloseOf
  <2> QED BY <1>1, <1>3, <2>1, EmptyKeeps
<1>4. CASE Enter("OBJECT")
  BY <1>1, <1>4, EnterKeeps
<1> QED BY <1>2, <1>3, <1>4 DEF ParseObject

\* The head of a loop: what has been read, and what it wants next.
LEMMA ItemDue ==
  ASSUME ParserInv, step = "item", NEW q, q = Joined[calls] \o SeparatorOf(Running)
  PROVE  /\ calls # <<>> /\ Running \in ParserCall /\ SeparatorOf(Running) \in Separators
         /\ q \in Seq(Tokens) /\ Forgiven[ReadUpTo(ctx.offset)] = q
         /\ After[q].open = KindsOf(calls) /\ KindsOf(calls) # <<>> /\ Last(KindsOf(calls)) = Running.kind
         /\ After[q].wants = IF Running.count > 0 THEN IF Running.kind = "ARRAY" THEN "value" ELSE "name"
                                                  ELSE "first"
         /\ After[Joined[calls]] = Behind(KindsOf(calls), IF Running.count > 0 THEN "next" ELSE "first")
<1> DEFINE j == Joined[calls]
<1>1. /\ calls # <<>>
      /\ After[j] = Behind(KindsOf(calls), IF Running.count > 0 THEN "next" ELSE "first")
      /\ Forgiven[ReadUpTo(ctx.offset)] = q
  BY DEF ParserInv, AtItem
<1>2. /\ Running \in ParserCall /\ KindsOf(calls) # <<>> /\ Last(KindsOf(calls)) = Running.kind /\ j \in Seq(Tokens)
  BY <1>1, ContextFacts
<1>3. SeparatorOf(Running) \in Separators
  BY DEF SeparatorOf, Separators
<1> HIDE DEF j
<1>4. ASSUME Running.count > 0
      PROVE  /\ q \in Seq(Tokens) /\ After[q].open = KindsOf(calls)
             /\ After[q].wants = IF Running.kind = "ARRAY" THEN "value" ELSE "name"
  <2>1. "comma" \in Tokens
    BY DEF Tokens
  <2>2. q = j \o <<"comma">>
    BY <1>4 DEF SeparatorOf, j
  <2>3. q = Append(j, "comma") /\ q \in Seq(Tokens)
    BY <2>1, <2>2, <1>2, AppendedTokens, AppendProperties
  <2>4. After[q] = Read(After[j], "comma")
    BY <2>1, <2>3, <1>2, AfterRecursion
  <2>5. After[j].open = KindsOf(calls) /\ After[j].wants = "next"
    BY <1>1, <1>4, Fields
  <2>6. TakesComma(After[j]) /\ (Within(After[j], "ARRAY") <=> Running.kind = "ARRAY")
    BY <2>5, <1>2 DEF TakesComma, Within
  <2>7. After[q] = Behind(KindsOf(calls), IF Within(After[j], "ARRAY") THEN "value" ELSE "name")
    BY <2>4, <2>5, <2>6, ReadAllowed
  <2> QED BY <2>3, <2>6, <2>7, Fields
<1>5. ASSUME ~(Running.count > 0)
      PROVE  q \in Seq(Tokens) /\ After[q].open = KindsOf(calls) /\ After[q].wants = "first"
  <2>1. q = j \o <<>>
    BY <1>5 DEF SeparatorOf, j
  <2>2. q = j
    BY <2>1, <1>2
  <2>3. After[q] = Behind(KindsOf(calls), "first")
    BY <2>2, <1>1, <1>5
  <2> QED BY <2>2, <2>3, <1>2, Fields
<1> QED BY <1>1, <1>2, <1>3, <1>4, <1>5 DEF j

\* The end of a container at the head of a loop.
LEMMA ItemEnds ==
  ASSUME ParserInv, step = "item", Sees(CloseOf(Running.kind)), EndContainer
  PROVE  ParserInv'
<1> DEFINE sep == SeparatorOf(Running)
           wants == IF Running.count > 0 THEN "next" ELSE "first"
<1>1. /\ calls # <<>> /\ sep \in Separators /\ Forgiven[ReadUpTo(ctx.offset)] = Joined[calls] \o sep
      /\ After[Joined[calls]] = Behind(KindsOf(calls), wants)
  BY ItemDue
<1>2. wants \in {"first", "next"}
  OBVIOUS
<1> HIDE DEF sep, wants
<1> QED BY <1>1, <1>2, ContainerEnds

\* At the end of the input no container may be open.
LEMMA ItemAtEnd ==
  ASSUME ParserInv, step = "item", AtEnd, IsJson(ctx.input)
  PROVE  FALSE
<1> DEFINE q == Joined[calls] \o SeparatorOf(Running)
<1>1. q = Joined[calls] \o SeparatorOf(Running)
  OBVIOUS
<1> HIDE DEF q
<1>2. Forgiven[ReadUpTo(ctx.offset)] = q /\ After[q].open # <<>>
  BY <1>1, ItemDue
<1>3. ctx.offset = Len(ctx.input) /\ ctx.offset \in 0..Len(ctx.input)
  BY SeesFacts, ContextFacts
<1>4. Forgiven[ReadUpTo(ctx.offset)] = ReadUpTo(ctx.offset) /\ After[ReadUpTo(ctx.offset)].open = <<>>
  BY <1>3, WithinJson
<1> QED BY <1>2, <1>4

LEMMA LastReplaced ==
  ASSUME NEW c \in Seq(ParserCall), c # <<>>, NEW x \in ParserCall, NEW next, next = [c EXCEPT ![Len(c)] = x]
  PROVE  next = Append(Front(c), x)
<1>1. Front(c) \in Seq(ParserCall) /\ Len(Front(c)) = Len(c) - 1 /\ c = Append(Front(c), Last(c)) /\ Last(c) \in ParserCall
  BY FrontAndLast
<1> DEFINE o == Front(c)
           l == Last(c)
           d == Append(o, x)
<1> HIDE DEF o, l
<1>2. o \in Seq(ParserCall) /\ l \in ParserCall /\ c = Append(o, l)
  BY <1>1 DEF o, l
<1>3. /\ Len(c) = Len(o) + 1 /\ Len(o) \in Nat /\ \A i \in 1..Len(o) : c[i] = o[i]
  BY <1>2, AppendProperties
<1>4. /\ d \in Seq(ParserCall) /\ Len(d) = Len(o) + 1 /\ d[Len(o) + 1] = x /\ \A i \in 1..Len(o) : d[i] = o[i]
  BY <1>2, AppendProperties
<1>5. /\ next \in Seq(ParserCall) /\ Len(next) = Len(c)
      /\ \A i \in 1..Len(c) : next[i] = IF i = Len(c) THEN x ELSE c[i]
  BY <1>3
<1> HIDE DEF d
<1>6. \A i \in 1..Len(next) : next[i] = d[i]
  BY <1>3, <1>4, <1>5
<1>7. next = d
  BY <1>3, <1>4, <1>5, <1>6, SeqEqual
<1> QED BY <1>7 DEF d, o

\* The text of the innermost call grows.
Replaced(x) == [calls EXCEPT ![Len(calls)] = x]

LEMMA TextGrows ==
  ASSUME ParserInv, calls # <<>>, NEW s \in Seq(Tokens), NEW x \in ParserCall,
         x.kind = Running.kind, x.text = Running.text \o s
  PROVE  /\ Replaced(x) \in Seq(ParserCall) /\ Replaced(x) # <<>> /\ Replaced(x)[Len(Replaced(x))] = x
         /\ Joined[Replaced(x)] = Joined[calls] \o s
         /\ KindsOf(Replaced(x)) = KindsOf(calls) /\ Len(Replaced(x)) = Len(calls)
<1> DEFINE next == Replaced(x)
<1> HIDE DEF next
<1>1. calls \in Seq(ParserCall) /\ Running = Last(calls)
  BY ContextFacts
<1>0. next = [calls EXCEPT ![Len(calls)] = x]
  BY DEF next, Replaced
<1>2. next = Append(Front(calls), x)
  BY <1>0, <1>1, LastReplaced
<1>3. /\ next \in Seq(ParserCall) /\ next # <<>> /\ Last(next) = x
      /\ Joined[next] = Joined[calls] \o s
      /\ KindsOf(next) = KindsOf(calls) /\ Len(next) = Len(calls)
  BY <1>1, <1>2, CallFacts
<1> QED BY <1>3 DEF Last, next

LEMMA ElementParsed ==
  ASSUME ParserInv, ParseElement
  PROVE  ParserInv'
<1>1. step = "item" /\ Running.kind = "ARRAY"
  BY DEF ParseElement
<1>2. CASE AtEnd /\ Fail
  BY <1>1, <1>2, ItemAtEnd, FailKeeps
<1>3. CASE Sees("end_array") /\ EndContainer
  <2>1. CloseOf(Running.kind) = "end_array"
    BY <1>1 DEF CloseOf
  <2> QED BY <1>1, <1>3, <2>1, ItemEnds
<1>4. CASE /\ ~Sees("end_array")
           /\ calls' = [calls EXCEPT ![Len(calls)].text = @ \o SeparatorOf(Running)]
           /\ step' = "value"
           /\ UNCHANGED <<ctx, parsed>>
  <2> DEFINE sep == SeparatorOf(Running)
             q == Joined[calls] \o sep
             x == [Running EXCEPT !.text = @ \o sep]
  <2>1. /\ calls # <<>> /\ Running \in ParserCall /\ sep \in Separators
        /\ q \in Seq(Tokens) /\ Forgiven[ReadUpTo(ctx.offset)] = q
        /\ After[q].open = KindsOf(calls) /\ KindsOf(calls) # <<>> /\ Last(KindsOf(calls)) = Running.kind
        /\ After[q].wants \in {"value", "first"}
    BY <1>1, ItemDue
  <2>2. TakesValue(After[q])
    BY <1>1, <2>1 DEF TakesValue, Within
  <2>3. sep \in Seq(Tokens)
    BY <2>1, SeparatorsType
  <2>4. x \in ParserCall /\ x.kind = Running.kind /\ x.text = Running.text \o sep
    <3> HIDE DEF sep
    <3>1. Running.text \o sep \in Seq(Tokens)
      BY <2>1, <2>3, CollectedType, ConcatProperties
    <3> QED BY <2>1, <3>1 DEF ParserCall
  <2>5. calls' = Replaced(x)
    BY <1>4 DEF Running, Replaced
  <2> HIDE DEF x, sep
  <2>6. /\ calls' \in Seq(ParserCall) /\ calls' # <<>>
        /\ Joined[calls'] = Joined[calls] \o sep
        /\ KindsOf(calls') = KindsOf(calls) /\ Len(calls') = Len(calls)
    BY <2>1, <2>3, <2>4, <2>5, TextGrows
  <2> HIDE DEF q
  <2>7. Joined[calls'] = q
    BY <2>6 DEF q
  <2>8. ParserType'
    BY <1>4, <2>6 DEF ParserInv, ParserType, ParserSteps
  <2>9. AtValue'
    <3>1. ReadUpTo(ctx.offset)' = ReadUpTo(ctx.offset) /\ ~Sees("end_array")'
      BY <1>4 DEF ReadUpTo, Sees, AtEnd
    <3> QED BY <3>1, <2>1, <2>2, <2>6, <2>7 DEF AtValue
  <2>10. DepthCounts'
    BY <1>1, <1>4, <2>6 DEF ParserInv, DepthCounts, ReadUpTo
  <2> QED BY <1>4, <2>8, <2>9, <2>10
          DEF ParserInv, AtItem, AtReturn, AtNext, ReturnsInput, JsonIsAccepted, PrintedIsParsed
<1> QED BY <1>2, <1>3, <1>4 DEF ParseElement

LEMMA ItemAdded ==
  ASSUME ParserInv, AddItem
  PROVE  ParserInv'
<1>1. /\ step = "returned" /\ step' = "next" /\ ctx' = ctx /\ parsed' = parsed
      /\ calls' = [calls EXCEPT ![Len(calls)] = [Running EXCEPT !.count = @ + 1, !.text = @ \o parsed]]
  BY DEF AddItem
<1> DEFINE x == [Running EXCEPT !.count = @ + 1, !.text = @ \o parsed]
           j == Joined[calls]
<1>2. /\ calls # <<>> /\ After[j \o parsed] = Behind(KindsOf(calls), "next")
      /\ Forgiven[ReadUpTo(ctx.offset)] = j \o parsed
  BY <1>1 DEF ParserInv, AtReturn
<1>3. Running \in ParserCall /\ parsed \in Seq(Tokens) /\ Running.text \in Seq(Tokens) /\ Running.count \in Nat
  BY <1>2, ContextFacts, CollectedType
<1>4. x \in ParserCall /\ x.kind = Running.kind /\ x.text = Running.text \o parsed /\ x.count > 0
  <2>1. Running.text \o parsed \in Seq(Tokens) /\ Running.count + 1 \in Nat /\ Running.count + 1 > 0
    BY <1>3
  <2> QED BY <1>3, <2>1 DEF ParserCall
<1>5. calls' = Replaced(x)
  BY <1>1 DEF Replaced
<1> HIDE DEF x, j
<1>6. /\ calls' \in Seq(ParserCall) /\ calls' # <<>> /\ calls'[Len(calls')] = x
      /\ Joined[calls'] = j \o parsed
      /\ KindsOf(calls') = KindsOf(calls) /\ Len(calls') = Len(calls)
  BY <1>2, <1>3, <1>4, <1>5, TextGrows DEF j
<1>7. ParserType'
  BY <1>1, <1>6 DEF ParserInv, ParserType, ParserSteps
<1>8. AtNext'
  <2>1. ReadUpTo(ctx.offset)' = ReadUpTo(ctx.offset)
    BY <1>1 DEF ReadUpTo
  <2> QED BY <2>1, <1>2, <1>4, <1>6 DEF AtNext, Running
<1>9. DepthCounts'
  BY <1>1, <1>6 DEF ParserInv, DepthCounts, ReadUpTo
<1> QED BY <1>1, <1>7, <1>8, <1>9
        DEF ParserInv, AtItem, AtReturn, AtValue, ReturnsInput, JsonIsAccepted, PrintedIsParsed

LEMMA NextParsed ==
  ASSUME ParserInv, NextItem
  PROVE  ParserInv'
<1> DEFINE j == Joined[calls]
           kind == Running.kind
<1>1. step = "next"
  BY DEF NextItem
<1>2. /\ calls # <<>> /\ Running.count > 0 /\ After[j] = Behind(KindsOf(calls), "next")
      /\ Forgiven[ReadUpTo(ctx.offset)] = j
  BY <1>1 DEF ParserInv, AtNext
<1>3. /\ Running \in ParserCall /\ kind \in Kinds /\ KindsOf(calls) # <<>> /\ Last(KindsOf(calls)) = kind
      /\ j \in Seq(Tokens) /\ calls \in Seq(ParserCall)
  BY <1>2, ContextFacts, CollectedType
<1>4. CASE /\ Sees("comma")
           /\ ctx' = Advanced(1)
           /\ step' = "item"
           /\ UNCHANGED <<calls, parsed>>
  <2>1. ctx' \in ContextType /\ ctx'.input = ctx.input /\ ctx'.offset = ctx.offset + 1 /\ ctx'.depth = ctx.depth
    <3>1. ctx \in ContextType /\ ctx.offset + 1 \in Nat
      BY ContextFacts
    <3> QED BY <1>4, <3>1 DEF Advanced, ContextType
  <2>2. ctx.offset < Len(ctx.input) /\ ctx.input[ctx.offset + 1] = "comma" /\ ctx.offset + 1 \in 0..Len(ctx.input)
        /\ ctx.offset \in Nat /\ ctx.offset <= ctx.offset + 1
    BY <1>4, SeesFacts, ContextFacts
  <2>3. "comma" \in Tokens \ Closing /\ "comma" \in Tokens
    BY DEF Tokens, Closing
  <2>4. Forgiven[ReadUpTo(ctx.offset + 1)] = Append(j, "comma")
    <3>1. Forgiven[ReadUpTo(ctx.offset + 1)] = Forgive(j, "comma")
      BY <1>2, <2>2, ReadOneMore
    <3> QED BY <3>1, <2>3, ForgiveFacts
  <2>5. SeparatorOf(Running) = <<"comma">>
    BY <1>2 DEF SeparatorOf
  <2>6. j \o <<"comma">> = Append(j, "comma")
    BY <2>3, <1>3, AppendedTokens
  <2>7. ctx.depth <= Len(calls) + Cardinality(Empties(ReadUpTo(ctx.offset + 1)))
    BY <1>1, <2>2, DepthGrows
  <2>8. SubSeq(ctx'.input, 1, ctx'.offset) = ReadUpTo(ctx.offset + 1)
    BY <2>1 DEF ReadUpTo
  <2>9. ParserType'
    <3>1. ctx'.offset <= Len(ctx'.input)
      BY <2>1, <2>2
    <3> QED BY <1>4, <2>1, <3>1 DEF ParserInv, ParserType, ParserSteps, ContextType
  <2> HIDE DEF j
  <2>10. AtItem'
    <3>1. Running' = Running
      BY <1>4 DEF Running
    <3>2. Forgiven[SubSeq(ctx'.input, 1, ctx'.offset)] = j \o SeparatorOf(Running)
      BY <2>4, <2>5, <2>6, <2>8
    <3>3. After[j] = Behind(KindsOf(calls), IF Running.count > 0 THEN "next" ELSE "first")
      BY <1>2
    <3>4. Joined[calls'] = j /\ KindsOf(calls') = KindsOf(calls) /\ calls' = calls
      BY <1>4 DEF j
    <3> QED BY <3>1, <3>2, <3>3, <3>4, <1>2 DEF AtItem, ReadUpTo
  <2>11. DepthCounts'
    <3>1. ctx'.depth <= Len(calls') + Cardinality(Empties(SubSeq(ctx'.input, 1, ctx'.offset)))
      BY <1>4, <2>1, <2>7, <2>8
    <3> QED BY <3>1 DEF DepthCounts, ReadUpTo
  <2> QED BY <1>4, <2>9, <2>10, <2>11
          DEF ParserInv, AtValue, AtReturn, AtNext, ReturnsInput, JsonIsAccepted, PrintedIsParsed
<1>5. CASE Sees(CloseOf(kind)) /\ EndContainer
  <2> DEFINE sep == <<>>
  <2>1. sep \in Separators /\ Forgiven[ReadUpTo(ctx.offset)] = Joined[calls] \o sep
    BY <1>2, <1>3 DEF Separators
  <2> HIDE DEF sep
  <2> QED BY <1>1, <1>2, <1>5, <2>1, ContainerEnds
<1>6. CASE ~Sees("comma") /\ ~Sees(CloseOf(kind)) /\ Fail
  <2>1. ASSUME IsJson(ctx.input) PROVE FALSE
    <3> DEFINE p == ReadUpTo(ctx.offset)
               e == ctx.input[ctx.offset + 1]
    <3>0. ctx.offset \in 0..Len(ctx.input)
      BY ContextFacts
    <3>1. /\ Forgiven[p] = p
          /\ ctx.offset = Len(ctx.input) => After[p].open = <<>>
          /\ ctx.offset < Len(ctx.input) => e \in Tokens /\ Read(After[p], e).wants # "none"
      BY <2>1, <3>0, WithinJson
    <3>2. p = j
      BY <3>1, <1>2
    <3>3. After[p].open = KindsOf(calls) /\ After[p].wants = "next"
      BY <3>2, <1>2, Fields
    <3>4. ~AtEnd
      BY <3>1, <3>3, <1>3, SeesFacts
    <3>5. e # "comma" /\ e # CloseOf(kind) /\ e \in Tokens /\ Read(After[p], e).wants # "none"
      BY <3>1, <3>4, <1>6, SeesFacts
    <3> HIDE DEF p, e, j
    <3>6. ~TakesValue(After[p]) /\ ~TakesName(After[p])
      BY <3>3 DEF TakesValue, TakesName
    <3>7. \A k \in Kinds : TakesEnd(After[p], k) => k = kind
      BY <3>3, <1>3 DEF TakesEnd, Within
    <3> QED BY <3>3, <3>5, <3>6, <3>7, ReadCases
  <2> QED BY <1>6, <2>1, FailKeeps
<1> QED BY <1>4, <1>5, <1>6 DEF NextItem

\* A name and its colon, where JSON wants a name.
LEMMA NameRead ==
  ASSUME ParserInv, NEW q \in Seq(Tokens), TakesName(After[q]), Forgiven[ReadUpTo(ctx.offset)] = q,
         Sees("str"), ctx.offset + 1 < Len(ctx.input), ctx.input[ctx.offset + 2] = "colon",
         NEW y, y = Append(Append(q, "str"), "colon")
  PROVE  /\ y \in Seq(Tokens) /\ Forgiven[ReadUpTo(ctx.offset + 2)] = y
         /\ After[y].open = After[q].open /\ After[y].wants = "value"
<1> DEFINE m == Append(q, "str")
<1>0. "str" \in Tokens \ Closing /\ "colon" \in Tokens \ Closing /\ "str" \in Tokens /\ "colon" \in Tokens
  BY DEF Tokens, Scalars, Closing
<1>1. ctx.offset < Len(ctx.input) /\ ctx.input[ctx.offset + 1] = "str" /\ ctx.offset \in Nat
  BY SeesFacts, ContextFacts
<1>2. m \in Seq(Tokens) /\ y \in Seq(Tokens) /\ y = Append(m, "colon")
  BY <1>0, AppendedFrontAndLast
<1>3. Forgiven[ReadUpTo(ctx.offset + 1)] = m
  <2>1. Forgiven[ReadUpTo(ctx.offset + 1)] = Forgive(q, "str")
    BY <1>1, ReadOneMore
  <2> QED BY <2>1, <1>0, ForgiveFacts
<1>4. After[m] = Behind(After[q].open, "colon")
  <2>1. After[m] = Read(After[q], "str")
    BY <1>0, AfterRecursion
  <2> QED BY <2>1, ReadAllowed
<1> HIDE DEF m
<1>5. Forgiven[ReadUpTo(ctx.offset + 2)] = y
  <2>0. ctx.offset + 1 \in Nat /\ (ctx.offset + 1) + 1 = ctx.offset + 2
    BY <1>1
  <2>1. Forgiven[ReadUpTo((ctx.offset + 1) + 1)] = Forgive(m, ctx.input[(ctx.offset + 1) + 1])
    BY <1>3, <2>0, ReadOneMore
  <2>2. Forgiven[ReadUpTo(ctx.offset + 2)] = Forgive(m, "colon")
    BY <2>0, <2>1
  <2> QED BY <2>2, <1>0, <1>2, ForgiveFacts
<1>6. After[m].open = After[q].open /\ After[m].wants = "colon"
  BY <1>4, Fields
<1>7. After[y] = Behind(After[m].open, "value")
  <2>1. After[y] = Read(After[m], "colon")
    BY <1>0, <1>2, AfterRecursion
  <2> QED BY <2>1, <1>6, ReadAllowed
<1>8. After[y].open = After[m].open /\ After[y].wants = "value"
  BY <1>7, Fields
<1> QED BY <1>2, <1>5, <1>6, <1>8

\* Where the name of a member is refused, an input that is JSON is too deep.
LEMMA MemberRefused ==
  ASSUME ParserInv, step = "item", Running.kind = "OBJECT", IsJson(ctx.input), ~AtEnd, ~Sees("end_object"),
         \/ ~Sees("str")
         \/ ctx.offset + 1 >= Len(ctx.input)
         \/ ctx.input[ctx.offset + 2] # "colon"
         \/ ctx.depth >= MAX_JSON_DEPTH
  PROVE  ~Fits(ctx.input, Cardinality(Empties(ctx.input)))
<1> DEFINE q == Joined[calls] \o SeparatorOf(Running)
           e == ctx.input[ctx.offset + 1]
<1>1. q = Joined[calls] \o SeparatorOf(Running)
  OBVIOUS
<1> HIDE DEF q
<1>2. /\ q \in Seq(Tokens) /\ Forgiven[ReadUpTo(ctx.offset)] = q
      /\ After[q].open = KindsOf(calls) /\ KindsOf(calls) # <<>> /\ Last(KindsOf(calls)) = Running.kind
      /\ After[q].wants \in {"name", "first"}
  BY <1>1, ItemDue
<1>3. ctx.offset \in 0..Len(ctx.input) /\ ctx.offset < Len(ctx.input) /\ ctx.offset + 1 \in 0..Len(ctx.input)
      /\ Len(ctx.input) \in Nat /\ Len(calls) \in Nat /\ ctx.depth \in Int /\ MAX_JSON_DEPTH \in Nat
      /\ Len(KindsOf(calls)) = Len(calls)
  BY SeesFacts, ContextFacts
<1>4. /\ Forgiven[ReadUpTo(ctx.offset)] = ReadUpTo(ctx.offset) /\ e \in Tokens
      /\ After[ReadUpTo(ctx.offset + 1)] = Read(After[ReadUpTo(ctx.offset)], e)
      /\ Read(After[ReadUpTo(ctx.offset)], e).wants # "none"
  BY <1>3, WithinJson
<1>5. ReadUpTo(ctx.offset) = q
  BY <1>2, <1>4
<1>6. e \in Tokens /\ After[ReadUpTo(ctx.offset + 1)] = Read(After[q], e) /\ Read(After[q], e).wants # "none"
  BY <1>4, <1>5
<1>7. e # "end_object"
  BY SeesFacts
<1> HIDE DEF e
<1>8. ~TakesValue(After[q]) /\ TakesName(After[q]) /\ ~TakesComma(After[q])
  BY <1>2 DEF TakesValue, TakesName, TakesComma, Within
<1>9. \A k \in Kinds : ~(e = CloseOf(k) /\ TakesEnd(After[q], k))
  <2>1. \A k \in Kinds : TakesEnd(After[q], k) => k = "OBJECT"
    BY <1>2 DEF TakesEnd, Within
  <2>2. CloseOf("OBJECT") = "end_object"
    BY DEF CloseOf
  <2> QED BY <2>1, <2>2, <1>7
<1>10. e = "str"
  <2>1. After[q].wants # "colon"
    BY <1>2
  <2> QED BY <2>1, <1>6, <1>8, <1>9, ReadCases
<1>11. Sees("str")
  BY <1>10, SeesFacts DEF e
<1>12. After[ReadUpTo(ctx.offset + 1)] = Behind(KindsOf(calls), "colon")
  BY <1>2, <1>6, <1>8, <1>10, ReadAllowed
<1> DEFINE s == After[ReadUpTo(ctx.offset + 1)]
<1>13. s.wants = "colon" /\ s.open = KindsOf(calls)
  BY <1>12, Fields
<1>14. ctx.offset + 1 < Len(ctx.input)
  <2>1. ctx.offset + 1 = Len(ctx.input) => s.wants = "next"
    BY <1>3, WithinJson
  <2> QED BY <2>1, <1>3, <1>13
<1>15. ctx.input[ctx.offset + 2] = "colon"
  <2> DEFINE d == ctx.input[ctx.offset + 2]
  <2>0. (ctx.offset + 1) + 1 = ctx.offset + 2
    BY <1>3
  <2>1. d \in Tokens /\ Read(s, d).wants # "none"
    BY <2>0, <1>3, <1>14, WithinJson
  <2> HIDE DEF s, d
  <2>2. ~TakesValue(s) /\ ~TakesName(s) /\ ~TakesComma(s) /\ \A k \in Kinds : ~TakesEnd(s, k)
    BY <1>13 DEF TakesValue, TakesName, TakesComma, TakesEnd
  <2>3. d = "colon"
    BY <2>1, <2>2, ReadCases
  <2> QED BY <2>3 DEF d
<1>16. ctx.depth >= MAX_JSON_DEPTH
  BY <1>3, <1>11, <1>14, <1>15
<1>17. ctx.depth <= Cardinality(Empties(ctx.input)) + Len(calls) /\ Cardinality(Empties(ctx.input)) \in Nat
  BY DepthBelow
<1>18. Cardinality(Empties(ctx.input)) + Len(calls) >= MAX_JSON_DEPTH
  BY <1>3, <1>16, <1>17
<1>19. Len(After[ReadUpTo(ctx.offset)].open) = Len(calls)
  BY <1>2, <1>3, <1>5
<1> QED BY <1>3, <1>18, <1>19, TooDeep

LEMMA MemberParsed ==
  ASSUME ParserInv, ParseMember
  PROVE  ParserInv'
<1>1. step = "item" /\ Running.kind = "OBJECT"
  BY DEF ParseMember
<1>2. CASE AtEnd /\ Fail
  BY <1>1, <1>2, ItemAtEnd, FailKeeps
<1>3. CASE Sees("end_object") /\ EndContainer
  <2>1. CloseOf(Running.kind) = "end_object"
    BY <1>1 DEF CloseOf
  <2> QED BY <1>1, <1>3, <2>1, ItemEnds
<1>4. CASE /\ ~AtEnd /\ ~Sees("end_object")
           /\ \/ ~Sees("str")
              \/ ctx.offset + 1 >= Len(ctx.input)
              \/ ctx.input[ctx.offset + 2] # "colon"
              \/ ctx.depth >= MAX_JSON_DEPTH
           /\ Fail
  BY <1>1, <1>4, MemberRefused, FailKeeps
<1>5. CASE /\ Sees("str") /\ ctx.offset + 1 < Len(ctx.input) /\ ctx.input[ctx.offset + 2] = "colon"
           /\ ctx' = Advanced(2)
           /\ calls' = [calls EXCEPT ![Len(calls)].text = @ \o SeparatorOf(Running) \o <<"str", "colon">>]
           /\ step' = "value"
           /\ UNCHANGED parsed
  <2> DEFINE sep == SeparatorOf(Running)
             q == Joined[calls] \o sep
             y == Append(Append(q, "str"), "colon")
             s == sep \o <<"str", "colon">>
             x == [Running EXCEPT !.text = @ \o sep \o <<"str", "colon">>]
  <2>1. /\ calls # <<>> /\ Running \in ParserCall /\ sep \in Separators
        /\ q \in Seq(Tokens) /\ Forgiven[ReadUpTo(ctx.offset)] = q
        /\ After[q].open = KindsOf(calls) /\ KindsOf(calls) # <<>> /\ Last(KindsOf(calls)) = Running.kind
        /\ After[q].wants \in {"name", "first"}
    BY <1>1, ItemDue
  <2>2. TakesName(After[q])
    BY <1>1, <2>1 DEF TakesName, Within
  <2>3. sep \in Seq(Tokens) /\ Running.text \in Seq(Tokens) /\ Joined[calls] \in Seq(Tokens)
    BY <2>1, SeparatorsType, CollectedType, ContextFacts
  <2>4. <<"str", "colon">> \in Seq(Tokens) /\ q \o <<"str", "colon">> = y
    <3> HIDE DEF q
    <3> QED BY <2>1, AppendedTokens
  <2>5. s \in Seq(Tokens) /\ Joined[calls] \o s = y /\ (Running.text \o sep) \o <<"str", "colon">> = Running.text \o s
    <3> DEFINE a == <<"str", "colon">>
               j == Joined[calls]
               r == Running.text
    <3>1. a \in Seq(Tokens) /\ j \in Seq(Tokens) /\ r \in Seq(Tokens) /\ sep \in Seq(Tokens)
      BY <2>3, <2>4
    <3>2. \A p, q2, t2 \in Seq(Tokens) : (p \o q2) \o t2 = p \o (q2 \o t2) /\ q2 \o t2 \in Seq(Tokens)
      OBVIOUS
    <3> HIDE DEF a, j, r, sep
    <3>3. (j \o sep) \o a = j \o (sep \o a) /\ sep \o a \in Seq(Tokens)
      BY ONLY <3>1, <3>2, ZenonT(60)
    <3>4. (r \o sep) \o a = r \o (sep \o a)
      BY ONLY <3>1, <3>2, ZenonT(60)
    <3> QED BY <3>3, <3>4, <2>4 DEF a, j, r
  <2>6. x \in ParserCall /\ x.kind = Running.kind /\ x.text = Running.text \o s
    <3>1. Running.text \o s \in Seq(Tokens)
      BY <2>3, <2>5
    <3> DEFINE t == Running.text \o s
    <3>2. x = [Running EXCEPT !.text = t]
      BY <2>5
    <3> HIDE DEF t
    <3>3. t \in Seq(Tokens)
      BY <3>1 DEF t
    <3>4. x \in ParserCall /\ x.kind = Running.kind /\ x.text = t
      BY <2>1, <3>2, <3>3 DEF ParserCall
    <3> QED BY <3>4 DEF t
  <2>7. calls' = Replaced(x)
    BY <1>5 DEF Running, Replaced
  <2> HIDE DEF x, s
  <2>8. /\ calls' \in Seq(ParserCall) /\ calls' # <<>>
        /\ Joined[calls'] = Joined[calls] \o s
        /\ KindsOf(calls') = KindsOf(calls) /\ Len(calls') = Len(calls)
    BY <2>1, <2>5, <2>6, <2>7, TextGrows
  <2>9. Joined[calls'] = y
    BY <2>5, <2>8
  <2>10. y = Append(Append(q, "str"), "colon")
    OBVIOUS
  <2> HIDE DEF y, q
  <2>11. Forgiven[ReadUpTo(ctx.offset + 2)] = y /\ After[y].open = After[q].open /\ After[y].wants = "value"
    BY <1>5, <2>1, <2>2, <2>10, NameRead
  <2>12. ctx' \in ContextType /\ ctx'.input = ctx.input /\ ctx'.offset = ctx.offset + 2 /\ ctx'.depth = ctx.depth
    <3>1. ctx \in ContextType /\ ctx.offset + 2 \in Nat
      BY ContextFacts
    <3> QED BY <1>5, <3>1 DEF Advanced, ContextType
  <2>13. ctx.offset + 2 \in 0..Len(ctx.input) /\ ctx.offset <= ctx.offset + 2
    BY <1>5, ContextFacts, SMTT(30)
  <2>14. ctx.depth <= Len(calls) + Cardinality(Empties(ReadUpTo(ctx.offset + 2)))
    BY <1>1, <2>13, DepthGrows
  <2>15. SubSeq(ctx'.input, 1, ctx'.offset) = ReadUpTo(ctx.offset + 2)
    BY <2>12 DEF ReadUpTo
  <2>16. ParserType'
    <3>1. ctx'.offset <= Len(ctx'.input)
      BY <2>12, <2>13
    <3> QED BY <1>5, <2>8, <2>12, <3>1 DEF ParserInv, ParserType, ParserSteps, ContextType
  <2>17. AtValue'
    <3>1. TakesValue(After[Joined[calls']]) /\ After[Joined[calls']].wants # "first"
      BY <2>9, <2>11 DEF TakesValue
    <3>2. After[Joined[calls']].open = KindsOf(calls')
      BY <2>1, <2>8, <2>9, <2>11
    <3>3. Forgiven[SubSeq(ctx'.input, 1, ctx'.offset)] = Joined[calls']
      BY <2>9, <2>11, <2>15
    <3> QED BY <3>1, <3>2, <3>3 DEF AtValue, ReadUpTo
  <2>18. DepthCounts'
    <3>1. ctx'.depth <= Len(calls') + Cardinality(Empties(SubSeq(ctx'.input, 1, ctx'.offset)))
      BY <2>8, <2>12, <2>14, <2>15
    <3> QED BY <3>1 DEF DepthCounts, ReadUpTo
  <2> QED BY <1>5, <2>16, <2>17, <2>18
          DEF ParserInv, AtItem, AtReturn, AtNext, ReturnsInput, JsonIsAccepted, PrintedIsParsed
<1>6. Sees("str") => ~AtEnd /\ ~Sees("end_object")
  BY SeesFacts
<1>7. ctx.offset \in Nat /\ Len(ctx.input) \in Nat
  BY ContextFacts
<1> QED BY <1>1, <1>2, <1>3, <1>4, <1>5, <1>6, <1>7, SMTT(30) DEF ParseMember

\* An object, array or buffer that cannot be allocated ends the parse.
LEMMA MemoryEnds ==
  ASSUME ParserInv, OutOfMemory
  PROVE  ParserInv'
<1>1. step' = "OUT_OF_MEMORY" /\ UNCHANGED <<ctx, calls, parsed>>
  BY DEF OutOfMemory
<1>2. ParserType'
  BY <1>1 DEF ParserInv, ParserType, ParserSteps
<1> QED BY <1>1, <1>2
        DEF ParserInv, AtValue, AtItem, AtReturn, AtNext, DepthCounts, ReturnsInput, JsonIsAccepted, PrintedIsParsed

LEMMA ParserKeeps ==
  ASSUME ParserInv, ParserStep
  PROVE  ParserInv'
BY ScalarParsed, NothingParsed, ArrayParsed, ObjectParsed, ElementParsed, MemberParsed, ItemAdded, NextParsed,
   MemoryEnds DEF ParserStep

-----------------------------------------------------------------------------
(* The texts that are parsed, and what is printed.                         *)

\* A parse that begins.
Beginning ==
    /\ ctx \in ContextType /\ ctx.offset = 0 /\ ctx.depth = 0
    /\ calls = <<>> /\ parsed \in Seq(Tokens) /\ step = "value"

LEMMA BeginningKeeps == Beginning => ParserInv
<1> SUFFICES ASSUME Beginning PROVE ParserInv
  OBVIOUS
<1>1. /\ ctx \in ContextType /\ ctx.offset = 0 /\ ctx.depth = 0
      /\ calls = <<>> /\ parsed \in Seq(Tokens) /\ step = "value"
  BY DEF Beginning
<1>2. ctx.input \in Seq(InputTokens) /\ Len(ctx.input) \in Nat
  BY <1>1 DEF ContextType
<1>3. calls \in Seq(ParserCall)
  BY <1>1
<1>4. ParserType
  BY <1>1, <1>2, <1>3 DEF ParserType, ContextType, ParserSteps
<1>5. Joined[<<>>] = <<>>
  BY JoinedRecursion
<1>6. After[<<>>] = Behind(<<>>, "value") /\ After[<<>>].open = <<>> /\ After[<<>>].wants = "value"
  BY AfterRecursion, Fields
<1>7. KindsOf(<<>>) = <<>>
  BY DEF KindsOf
<1>8. ReadUpTo(ctx.offset) = <<>>
  BY <1>1, <1>2 DEF ReadUpTo
<1>9. Forgiven[<<>>] = <<>>
  BY ForgivenRecursion
<1>10. AtValue
  BY <1>1, <1>5, <1>6, <1>7, <1>8, <1>9 DEF AtValue, TakesValue
<1>11. DepthCounts
  <2>1. Cardinality(Empties(ReadUpTo(ctx.offset))) \in Nat
    <3>1. <<>> \in Seq(InputTokens)
      OBVIOUS
    <3> QED BY <3>1, <1>8, EmptiesFinite, FS_CardinalityType
  <2>2. Len(calls) = 0
    BY <1>1
  <2> QED BY <1>1, <2>1, <2>2 DEF DepthCounts
<1> QED BY <1>1, <1>4, <1>10, <1>11
        DEF ParserInv, AtItem, AtReturn, AtNext, ReturnsInput, JsonIsAccepted, PrintedIsParsed

LEMMA EncodedParsed ==
  ASSUME WriterInv, ParserInv, ParseEncoded
  PROVE  ParserInv'
<1>1. /\ step = "idle" /\ encoded[1] = "ok" /\ step' = "value"
      /\ ctx' = [input |-> encoded[2], offset |-> 0, depth |-> 0]
      /\ UNCHANGED <<calls, parsed>>
  BY DEF ParseEncoded
<1>2. encoded[2] \in Seq(Tokens)
  BY <1>1 DEF WriterInv, Encodings
<1>3. Tokens \subseteq InputTokens
  BY DEF InputTokens
<1>4. encoded[2] \in Seq(InputTokens)
  BY <1>2, <1>3
<1>5. calls = <<>> /\ parsed \in Seq(Tokens)
  BY <1>1 DEF ParserInv, ParserType
<1>6. ctx' \in ContextType /\ ctx'.offset = 0 /\ ctx'.depth = 0
  BY <1>1, <1>4 DEF ContextType
<1>7. Beginning'
  BY <1>1, <1>5, <1>6 DEF Beginning, ContextType
<1>8. Beginning' => ParserInv'
  BY BeginningKeeps, PTL
<1> QED BY <1>7, <1>8

LEMMA Printed ==
  ASSUME ParserInv, ToJsonString
  PROVE  ParserInv'
<1> DEFINE w == write_object(NewWriter, parsed)
<1>1. step = "done" /\ step' = "printed" /\ UNCHANGED <<ctx, calls, parsed>>
      /\ json_string' = IF \/ w.last_error # "SUCCESS"
                           \/ Top(w).context # "ROOT"
                           \/ Top(w).expect_value
                        THEN <<"error">>
                        ELSE <<"ok", w.out>>
  BY DEF ToJsonString
<1>2. IsJson(parsed) /\ parsed \in Seq(Tokens)
  BY <1>1 DEF ParserInv, ReturnsInput, IsJson
<1>3. w = write_object(NewWriter, parsed)
  OBVIOUS
<1> HIDE DEF w
<1>4. IF Fits(parsed, 1 - 1)
      THEN /\ w.last_error = "SUCCESS"
           /\ Len(w.frames) = 1
           /\ w.frames[1].context = Top(NewWriter).context
           /\ w.frames[1].expect_value = (Top(NewWriter).context = "ARRAY")
           /\ w.out = ((NewWriter.out \o CommaOfRaw(Top(NewWriter))) \o Comma(Top(NewWriter))) \o parsed
      ELSE w.last_error # "SUCCESS"
  <2>1. Ready(NewWriter) /\ Len(NewWriter.frames) = 1
    BY NewWriterFacts
  <2> QED BY <1>2, <1>3, <2>1, WriteObjectFacts
<1>5. Top(NewWriter).context = "ROOT" /\ Top(NewWriter).item_count = 0 /\ NewWriter.out = <<>>
  <2>1. "ROOT" \in Contexts
    BY DEF Contexts
  <2> QED BY <2>1, NewFrameFacts, NewWriterFacts
<1>6. CommaOfRaw(Top(NewWriter)) = <<>> /\ Comma(Top(NewWriter)) = <<>>
  BY <1>5 DEF CommaOfRaw, Comma
<1>7. ((<<>> \o <<>>) \o <<>>) \o parsed = parsed
  BY <1>2
<1>8. Fits(parsed, 0) => w.last_error = "SUCCESS" /\ Top(w).context = "ROOT" /\ ~Top(w).expect_value /\ w.out = parsed
  <2> SUFFICES ASSUME Fits(parsed, 0)
               PROVE  w.last_error = "SUCCESS" /\ Top(w).context = "ROOT" /\ ~Top(w).expect_value /\ w.out = parsed
    OBVIOUS
  <2>0. Fits(parsed, 1 - 1)
    <3>1. 1 - 1 = 0
      OBVIOUS
    <3> QED BY <3>1
  <2>1. w.last_error = "SUCCESS" /\ Len(w.frames) = 1
    BY <1>4, <2>0
  <2>2. Top(w) = w.frames[1]
    BY <2>1 DEF Top
  <2>3. w.frames[1].context = "ROOT"
    BY <1>4, <1>5, <2>0
  <2>4. w.frames[1].expect_value = ("ROOT" = "ARRAY")
    BY <1>4, <1>5, <2>0
  <2>5. w.out = ((<<>> \o <<>>) \o <<>>) \o parsed
    BY <1>4, <1>5, <1>6, <2>0
  <2>6. w.out = parsed
    BY <1>7, <2>5
  <2> QED BY <2>1, <2>2, <2>3, <2>4, <2>6
<1>9. ~Fits(parsed, 0) => w.last_error # "SUCCESS"
  BY <1>4
<1>10. json_string' = IF Fits(parsed, 0) THEN <<"ok", parsed>> ELSE <<"error">>
  BY <1>1, <1>8, <1>9
<1>11. PrintedIsParsed'
  BY <1>1, <1>10 DEF PrintedIsParsed
<1>12. ParserType'
  BY <1>1 DEF ParserInv, ParserType, ParserSteps
<1> QED BY <1>1, <1>11, <1>12
        DEF ParserInv, AtValue, AtItem, AtReturn, AtNext, DepthCounts, ReturnsInput, JsonIsAccepted

LEMMA ParserUnmoved ==
  ASSUME ParserInv, UNCHANGED <<parser_vars, json_string>>
  PROVE  ParserInv'
BY DEF ParserInv, ParserType, AtValue, AtItem, AtReturn, AtNext, DepthCounts, ReturnsInput, JsonIsAccepted,
       PrintedIsParsed, parser_vars, ReadUpTo, Running, Sees, AtEnd

\* From the first item that is dropped on, nothing is said of the parse.
LEMMA TextKeepsParser ==
  WriterInv /\ (dropped \/ ParserInv) /\ [TextNext]_all_vars => (dropped \/ ParserInv)'
<1> SUFFICES ASSUME WriterInv, dropped \/ ParserInv, [TextNext]_all_vars, ~dropped'
             PROVE  ParserInv'
  OBVIOUS
<1>1. CASE UNCHANGED all_vars
  BY <1>1, ParserUnmoved DEF all_vars, parser_vars
<1>2. CASE Write
  BY <1>2, ParserUnmoved DEF Write, parser_vars
<1>3. CASE ParseEncoded
  BY <1>3, EncodedParsed DEF ParseEncoded
<1>4. CASE Parse
  <2>1. ParserStep /\ UNCHANGED dropped
    BY <1>4 DEF Parse, ParserNext, DropItem
  <2> QED BY <2>1, ParserKeeps
<1>5. CASE ToJsonString
  BY <1>5, Printed DEF ToJsonString
<1> QED BY <1>1, <1>2, <1>3, <1>4, <1>5 DEF TextNext

LEMMA TextBegins == TextInit => ParserInv
<1> SUFFICES ASSUME TextInit PROVE ParserInv
  OBVIOUS
<1>1. calls = <<>> /\ parsed = <<>>
  BY DEF TextInit
<1>2. CASE step = "idle" /\ Start(<<>>)
  <2>1. <<>> \in Seq(InputTokens) /\ <<>> \in Seq(Tokens) /\ <<>> \in Seq(ParserCall) /\ Len(<<>>) = 0
    OBVIOUS
  <2>2. ctx \in ContextType /\ ctx.offset = 0 /\ ctx.input = <<>>
    BY <1>2, <2>1 DEF Start, ContextType
  <2>3. ParserType
    BY <1>1, <1>2, <2>1, <2>2 DEF ParserType, ParserSteps, ContextType
  <2> QED BY <1>2, <2>3
          DEF ParserInv, AtValue, AtItem, AtReturn, AtNext, DepthCounts, ReturnsInput, JsonIsAccepted, PrintedIsParsed
<1>3. CASE step = "value" /\ \E input \in Inputs : Start(input)
  <2>1. PICK input \in Inputs : Start(input)
    BY <1>3
  <2>2. input \in Seq(InputTokens)
    BY InputsAssumption
  <2>3. Beginning
    BY <1>1, <1>3, <2>1, <2>2 DEF Beginning, Start, ContextType
  <2> QED BY <2>3, BeginningKeeps
<1> QED BY <1>2, <1>3 DEF TextInit

LEMMA ParserInvariant == TextSpec => [](dropped \/ ParserInv)
<1>1. TextInit => WriterInv /\ (dropped \/ ParserInv)
  BY InitKeeps, TextBegins DEF TextInit, Init
<1>2. (WriterInv /\ (dropped \/ ParserInv)) /\ [TextNext]_all_vars
        => (WriterInv /\ (dropped \/ ParserInv))'
  BY TextKeepsWriter, TextKeepsParser
<1> QED BY <1>1, <1>2, PTL DEF TextSpec

\* Unless an array that could not grow has dropped an item: the parser returns
\* the value of a JSON text, every token of it in order, up to the comma and the
\* quote it forgives, and it refuses no JSON whose nesting and empty containers
\* stay below the limit (json_parser.c: parse_value, parse_array_value,
\* parse_object_value; cardano_json_object_parse).
THEOREM JsonIsParsed == TextSpec => [](~dropped => ParsesJson)
<1>1. ParserInv => ParsesJson
  BY DEF ParserInv, ParsesJson, ParsedIsInput, ReturnsInput
<1> QED BY <1>1, ParserInvariant, PTL

\* An object that was parsed, and of which no item was dropped, prints as the
\* text it was parsed from, or, nested deeper than the writer goes, as an error
\* (cardano_json_object_to_json_string, through cardano_write_json_object and
\* encode).
THEOREM ParsedIsPrinted == TextSpec => [](~dropped => PrintedIsParsed)
<1>1. ParserInv => PrintedIsParsed
  BY DEF ParserInv
<1> QED BY <1>1, ParserInvariant, PTL

=============================================================================
