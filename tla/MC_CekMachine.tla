----------------------------- MODULE MC_CekMachine -----------------------------
(***************************************************************************)
(* Programs for CekMachine: every closed term up to a size, and chosen     *)
(* ones that need more room: five nested lambdas (three chunks of two      *)
(* slots), closures that escape, constructors and constants under `case',  *)
(* builtins of every shape, a loop, and one open term; and calls of every  *)
(* builtin at the edges of its arguments.                                  *)
(***************************************************************************)
EXTENDS CekMachine

CONSTANTS MaxSize, Cpu

var(i) == <<"var", i>>
lam(t) == <<"lam", t>>
app(f, x) == <<"app", f, x>>
delay(t) == <<"delay", t>>
force(t) == <<"force", t>>
int(n) == <<"con", <<"int", n>>>>
con(c) == <<"con", c>>
fn(f) == <<"builtin", f>>
constr(tag, ts) == <<"constr", tag, ts>>
case(t, bs) == <<"case", t, bs>>
error == <<"error">>

RECURSIVE apps(_, _)
apps(f, xs) == IF xs = <<>> THEN f ELSE apps(app(f, xs[1]), Tail(xs))

\* The terms of size n with at most k free variables.
Terms[n \in 1..MaxSize, k \in 0..MaxSize] ==
    IF n = 1 THEN {var(i) : i \in 1..k} \cup {int(0), fn("addInteger"), error}
    ELSE UNION {
        IF k < MaxSize THEN {lam(t) : t \in Terms[n - 1, k + 1]} ELSE {},
        {delay(t) : t \in Terms[n - 1, k]},
        {force(t) : t \in Terms[n - 1, k]},
        {constr(1, <<t>>) : t \in Terms[n - 1, k]},
        UNION {{app(f, x) : f \in Terms[i, k], x \in Terms[n - 1 - i, k]} : i \in 1..n - 2},
        UNION {{case(t, <<b, error>>) : t \in Terms[i, k], b \in Terms[n - 1 - i, k]} :
                  i \in 1..n - 2}}

add(a, b) == app(app(fn("addInteger"), a), b)
lams5(t) == lam(lam(lam(lam(lam(t)))))
ints5 == <<int(1), int(2), int(3), int(4), int(5)>>
listOf(s) == con(<<"list", s, <<"int">>>>)
pairOf(a, b) == con(<<"pair", a, b>>)
one == <<"int", 1>>
two == <<"int", 2>>
choose(c, a, b) == app(app(app(force(fn("ifThenElse")), c), a), b)
truth(b) == con(<<"bool", b>>)
first == lam(lam(var(2)))
half == lam(app(var(1), var(1)))

Chosen ==
    {apps(lams5(var(i)), ints5) : i \in 1..5}
    \cup {apps(lams5(lam(app(var(1), var(i)))), ints5) : i \in {2, 4, 6}}
    \cup {apps(lam(lam(lam(delay(constr(0, <<var(3), lam(var(3)), lam(var(1))>>))))),
               <<int(1), int(2), int(3)>>)}
    \cup {apps(lam(lam(lam(lam(case(var(1), <<var(2), lam(var(1)), var(4)>>))))),
               <<int(1), int(2), half, error>>)}
    \cup {apps(lam(app(lam(lam(app(var(1), var(2)))), var(1))), <<int(7)>>)}
    \cup {case(constr(tag, <<int(1), int(2), int(3)>>), <<lam(lam(var(2))), lam(lam(lam(var(3)))),
                                                       fn("addInteger")>>) : tag \in 0..3}
    \cup {case(con(c), bs) :
            c \in {one, <<"int", -1>>, <<"bool", TRUE>>, <<"bool", FALSE>>, <<"unit">>,
                   <<"list", <<>>, <<"int">>>>, <<"list", <<one, two>>, <<"int">>>>,
                   <<"pair", one, two>>, <<"bytes", <<>>>>},
            bs \in {<<>>, <<first>>, <<int(5), int(6)>>, <<first, int(6), int(7)>>}}
    \cup {choose(truth(b), int(1), error) : b \in BOOLEAN}
    \cup {force(choose(truth(b), delay(int(1)), delay(error))) : b \in BOOLEAN}
    \cup {choose(int(1), int(1), int(2)), app(fn("ifThenElse"), truth(TRUE)),
          force(force(fn("ifThenElse"))), app(app(force(fn("ifThenElse")), truth(TRUE)), half),
          app(force(force(fn("fstPair"))), pairOf(two, one)),
          app(force(force(fn("fstPair"))), int(1)), app(force(fn("fstPair")), pairOf(two, one)),
          app(fn("laterBuiltin"), int(1)), app(fn("laterBuiltin"), error),
          add(int(1), app(fn("laterBuiltin"), int(1))), add(add(int(1), int(2)), int(3)),
          add(int(1), half), apps(fn("addInteger"), <<int(1), int(2), int(3)>>),
          app(half, half), force(app(lam(delay(add(var(1), var(1)))), int(4))),
          app(lam(app(fn("addInteger"), var(1))), int(2)), app(lam(lam(var(2))), fn("addInteger")),
          app(int(1), app(half, half)), app(lam(lam(lam(app(var(3), var(1))))), half),
          app(lam(var(2)), int(1)), force(var(1))}

\* Calls of the builtins.  Byte strings of up to three bytes of two bits; a few
\* of them where two are taken at a time.
RECURSIVE forced(_, _)
forced(f, n) == IF n = 0 THEN f ELSE force(forced(f, n - 1))
call(f, args) == apps(forced(fn(f), Forces(f)), args)
calls(f, sets) == {call(f, args) : args \in sets}
b(s) == con(<<"bytes", s>>)
bs(set) == {b(s) : s \in set}
ns(set) == {int(n) : n \in set}
ts == {truth(x) : x \in BOOLEAN}

Bytes2 == UNION {[1..n -> 0..3] : n \in 0..2}
Many == Bytes2 \cup {<<1, 2, 3>>, <<3, 0, 1>>, <<0, 0, 2>>, <<2, 3, 3>>}
Few == {<<>>, <<0>>, <<3>>, <<1, 2>>, <<2, 1>>, <<3, 0, 1>>}
Edge == {-8, -3, -1, 0, 2, 3, 7}

IntCalls ==
    UNION {calls(f, ns(Edge) \X ns(Edge)) : f \in IntBuiltins}
    \cup calls("expModInteger", ns({-2, 0, 2, 3}) \X ns({-2, -1, 0, 1, 3})
                                   \X ns({-1, 0, 1, 2, 4, 5}))

ByteCalls ==
    UNION {
        calls("appendByteString", bs(Few) \X bs(Few)),
        UNION {calls(f, ns({-1, 0, 3, 4, 7}) \X bs(Few)) :
            f \in {"consByteString", "consByteStringChecked"}},
        calls("sliceByteString", ns({-1, 0, 1, 2, 4}) \X ns({-1, 0, 1, 2, 4}) \X bs(Few)),
        calls("indexByteString", bs(Few) \X ns({-1, 0, 1, 2})),
        UNION {calls(f, bs(Few) \X bs(Few)) :
            f \in {"equalsByteString", "lessThanByteString", "lessThanEqualsByteString"}},
        UNION {calls(f, ts \X bs(Few) \X bs(Few)) :
            f \in {"andByteString", "orByteString", "xorByteString"}},
        UNION {calls(f, {<<s>> : s \in bs(Many)}) : f \in {"lengthOfByteString",
            "complementByteString", "countSetBits", "findFirstSetBit"}},
        calls("readBit", bs(Few) \X ns(-1..6)),
        calls("writeBits", bs(Few) \X {listOf(s) : s \in
            {<<>>, <<<<"int", 0>>>>, <<one, <<"int", 0>>>>, <<<<"int", 3>>, one>>, <<<<"int", 5>>>>,
             <<<<"int", -1>>>>}} \X ts),
        calls("replicateByte", ns({-1, 0, 1, 3, 4}) \X ns({-1, 0, 2, 3, 4})),
        calls("shiftByteString", bs(Many) \X ns({-8, -6, -3, -1, 0, 1, 2, 5, 8})),
        calls("rotateByteString", bs(Many) \X ns({-8, -3, -1, 0, 1, 2, 5, 8})),
        calls("integerToByteString", ts \X ns(-1..4) \X ns({-1, 0, 1, 3, 4, 16, 63, 64})),
        calls("byteStringToInteger", ts \X bs(Many))}

v(s) == con(<<"value", s>>)
A == <<1>>
A0 == <<1, 0>>
B == <<2>>
TooLong == <<1, 1, 1>>
Purses == {<<>>, <<<<A, <<<<<<>>, 2>>>>>>>>, <<<<A, <<<<<<>>, -2>>>>>>>>,
           <<<<A, <<<<<<>>, 1>>, <<B, 3>>>>>>, <<B, <<<<A, -4>>>>>>>>,
           <<<<A0, <<<<A, 1>>>>>>, <<B, <<<<A, 2>>, <<B, 1>>>>>>>>,
           <<<<B, <<<<A, -3>>>>>>>>}
vs == {v(p) : p \in Purses}
held == {<<"map", s>> : s \in {<<>>, <<<<<<"I", 1>>, <<"I", 2>>>>>>}
    \cup {<<<<<<"B", A>>, <<"map", inner>>>>>> : inner \in {<<>>, <<<<<<"B", B>>, <<"I", 0>>>>>>,
        <<<<<<"B", B>>, <<"I", 3>>>>>>, <<<<<<"B", TooLong>>, <<"I", 3>>>>>>,
        <<<<<<"B", B>>, <<"I", 3>>>>, <<<<"B", A>>, <<"I", 1>>>>>>}}
    \cup {<<<<<<"B", B>>, <<"map", <<<<<<"B", A>>, <<"I", 1>>>>>>>>>>,
            <<<<"B", second>>, <<"map", <<<<<<"B", A>>, <<"I", 1>>>>>>>>>>>> :
                second \in {A, B, TooLong}}}

ValueCalls ==
    UNION {
        calls("insertCoin", bs({A, A0, B, TooLong}) \X bs({<<>>, A, TooLong})
                                \X ns({-5, -4, 0, 2, 4}) \X vs),
        calls("lookupCoin", bs({A, B}) \X bs({<<>>, A, B}) \X vs),
        calls("unionValue", vs \X vs), calls("valueContains", vs \X vs),
        calls("scaleValue", ns({-5, -4, -1, 0, 1, 2, 4}) \X vs),
        calls("valueData", {<<x>> : x \in vs}),
        calls("unValueData", {<<con(<<"data", d>>)>> : d \in held \cup {<<"I", 1>>}}),
        {call("unionValue", <<x, call("scaleValue", <<int(-1), x>>)>>) : x \in vs},
        {call("unValueData", <<call("valueData", <<x>>)>>) : x \in vs}}

l(s) == listOf(s)
ListCalls ==
    UNION {calls(f, {<<l(<<>>)>>, <<l(<<one, two>>)>>, <<int(1)>>}) :
                f \in {"headList", "tailList", "nullList", "listToArray"}}
    \cup calls("dropList", ns({-1, 0, 1, 2, 3}) \X {l(<<>>), l(<<one, two>>)})
    \cup calls("mkCons", {int(3), truth(TRUE), l(<<>>), pairOf(one, two), half} \X {l(<<one>>),
            con(<<"list", <<>>, <<"list", <<"int">>>>>>),
            con(<<"list", <<>>, <<"pair", <<"int">>, <<"int">>>>>>)})
    \cup {call("chooseList", <<l(s), int(1), half>>) : s \in {<<>>, <<one>>}}
    \cup {call("chooseUnit", <<x, int(1)>>) : x \in {con(<<"unit">>), int(1)}}
    \cup {call("sndPair", <<pairOf(two, one)>>)}
    \cup {call("indexArray", <<call("listToArray", <<l(<<one, two>>)>>), int(i)>>) : i \in -1..2}
    \cup {call("lengthOfArray", <<call("listToArray", <<l(<<one, two>>)>>)>>)}

MCPrograms == UNION {Terms[n, 0] : n \in 1..MaxSize} \cup Chosen \cup ListCalls
              \cup IntCalls \cup ByteCalls \cup ValueCalls

MCBudgets == {[cpu |-> c, mem |-> 40] : c \in Cpu} \cup {[cpu |-> 60, mem |-> 9]}

\* In cpu a constant costs most; in mem every step costs the same.
MCStepCosts == [k \in StepKinds |-> [cpu |-> CASE k = "con" -> 3 [] k = "var" -> 1 [] OTHER -> 2,
                                     mem |-> 1]]
MCStartup == [cpu |-> 2, mem |-> 1]
MCBuiltinCosts == [f \in DOMAIN Signature |-> [cpu |-> 9, mem |-> 2]]
=============================================================================
