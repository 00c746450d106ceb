------------------------------ MODULE CekMachine ------------------------------
(***************************************************************************)
(* The evaluator of Untyped Plutus Core: lib/src/uplc/machine and          *)
(* lib/src/uplc/cost/uplc_step_accumulator.c.  A machine with a control    *)
(* (a term to compute or a value to return), an environment and a stack of *)
(* frames, charged by the step.  Terms, values and frames are tuples that  *)
(* begin with their kind; variables are de Bruijn indices that count from  *)
(* 1.  The linked lists of the code are sequences: of frames, the last     *)
(* innermost, and of the chunks of an environment, the first newest.       *)
(* The builtins are those of UplcBuiltins.                                 *)
(***************************************************************************)
EXTENDS BuiltinMeaning

CONSTANTS
    Programs,       \* the terms that may be evaluated
    Budgets,        \* the initial budgets
    CHUNK_SLOTS,    \* CARDANO_UPLC_ENV_CHUNK_SLOTS
    SLIPPAGE,       \* CARDANO_UPLC_DEFAULT_SLIPPAGE
    INT64_MAX,      \* where the costs saturate
    StepCosts,      \* [step kind -> cost of one step]
    STARTUP,        \* the cost charged before the first step
    BuiltinCosts,   \* [builtin -> cost of a call]
    MAX_DISCHARGE,  \* PRV_DISCHARGE_MAX_DEPTH
    AllocMayFail    \* whether the arena may run out of memory

ASSUME LimitAssumption ==
    /\ CHUNK_SLOTS \in Nat \ {0} /\ SLIPPAGE \in Nat \ {0} /\ MAX_DISCHARGE \in Nat
    /\ INT64_MAX \in Nat /\ AllocMayFail \in BOOLEAN

VARIABLES
    program,   \* the term given
    initial,   \* the budget given
    state,     \* state_t: kind, ctx, env, term, value
    acc,       \* cardano_uplc_step_accumulator_t
    out,       \* cardano_uplc_eval_result_t, or what the call returned
    total,     \* what every step taken so far costs, added up one by one
    starved    \* whether a builtin hid a failed allocation

vars == <<program, initial, state, acc, out, total, starved>>

-----------------------------------------------------------------------------
(* Costs.  A cost has two components, both never negative.                 *)

KindNo == <<"con", "var", "lam", "app", "delay", "force", "builtin", "constr", "case">>
StepKinds == {KindNo[i] : i \in 1..9}
Dims == {"cpu", "mem"}
Free == [d \in Dims |-> 0]

Plus(a, b) == [d \in Dims |-> a[d] + b[d]]

Capped(n) == IF n > INT64_MAX THEN INT64_MAX ELSE n

\* Sums and products saturate; of costs that are never negative, the saturating
\* sum is the plain sum, cut once.
SatPlus(a, b) == [d \in Dims |-> Capped(a[d] + b[d])]

\* What counted steps cost in one component.
CostOf(counts, d) ==
    LET sum[i \in 0..9] ==
            IF i = 0 THEN 0 ELSE sum[i - 1] + counts[KindNo[i]] * StepCosts[KindNo[i]][d]
    IN  sum[9]

flush_step_budget(acc_) ==
    [spent |-> [d \in Dims |-> Capped(acc_.spent[d] + CostOf(acc_.counts, d))],
     counts |-> [k \in StepKinds |-> 0], pending |-> 0]

step(acc_, kind) ==
    LET counted == [acc_ EXCEPT !.counts[kind] = @ + 1, !.pending = @ + 1]
    IN  IF counted.pending >= SLIPPAGE THEN flush_step_budget(counted) ELSE counted

charge(acc_, cost) == [acc_ EXCEPT !.spent = SatPlus(@, cost)]

\* Mutant: exhausted only when both components are.
is_exhausted_both(acc_) == \A d \in Dims : acc_.spent[d] > initial[d]

is_exhausted(acc_) == \E d \in Dims : acc_.spent[d] > initial[d]

-----------------------------------------------------------------------------
(* Environments.                                                           *)

env_extend(env, value) ==
    IF env = <<>> \/ Len(env[1]) >= CHUNK_SLOTS
    THEN <<<<value>>>> \o env
    ELSE <<Append(env[1], value)>> \o Tail(env)

\* The value bound to an index, or <<>> where there is none.
env_lookup(env, index) ==
    LET remaining[i \in 1..Len(env) + 1] ==
            IF i = 1 THEN index ELSE remaining[i - 1] - Len(env[i - 1])
        holds(i) == remaining[i] \in 1..Len(env[i])
    IN  IF \E i \in 1..Len(env) : holds(i)
        THEN LET i == CHOOSE i \in 1..Len(env) : holds(i)
             IN  env[i][Len(env[i]) + 1 - remaining[i]]
        ELSE <<>>

-----------------------------------------------------------------------------
(* Outcomes of a step: a next state, a script error, a builtin that is not *)
(* supported, or the final value; with the cost of a builtin that was run. *)

Compute(ctx, env, term) == [outcome |-> "continue", cost |-> Free,
    next |-> [kind |-> "COMPUTE", ctx |-> ctx, env |-> env, term |-> term, value |-> <<>>]]

ReturnValue(ctx, value) == [outcome |-> "continue", cost |-> Free,
    next |-> [kind |-> "RETURN", ctx |-> ctx, env |-> <<>>, term |-> <<>>, value |-> value]]

ScriptError == [outcome |-> "error", cost |-> Free, next |-> <<>>]
Unsupported == [outcome |-> "unsupported", cost |-> Free, next |-> <<>>]

Costing(result, cost) == [result EXCEPT !.cost = cost]

\* A builtin that fails returns no value.
ResultOf(ctx, value) == IF value = <<>> THEN ScriptError ELSE ReturnValue(ctx, value)

try_call_builtin(ctx, func, forces, args) ==
    IF Len(args) = Arity(func) /\ forces = Forces(func)
    THEN IF ~Available(func) THEN Unsupported
         ELSE Costing(ResultOf(ctx, builtin_run(func, args)), BuiltinCosts[func])
    ELSE ReturnValue(ctx, <<"builtin", func, forces, args>>)

apply_evaluate(ctx, function, arg) ==
    CASE function[1] = "lam" -> Compute(ctx, env_extend(function[3], arg), function[2])
      [] /\ function[1] = "builtin"
         /\ Forces(function[2]) <= function[3]
         /\ Arity(function[2]) > Len(function[4]) ->
            try_call_builtin(ctx, function[2], function[3], Append(function[4], arg))
      [] OTHER -> ScriptError

force_evaluate(ctx, value) ==
    CASE value[1] = "delay" -> Compute(ctx, value[3], value[2])
      [] value[1] = "builtin" /\ Forces(value[2]) > value[3] ->
            try_call_builtin(ctx, value[2], value[3] + 1, value[4])
      [] OTHER -> ScriptError

\* Mutant: the fields are pushed in their own order.
transfer_arg_stack_forward(ctx, fields) ==
    ctx \o [i \in 1..Len(fields) |-> <<"await_fun_value", fields[i]>>]

\* The first field ends on top.
transfer_arg_stack(ctx, fields) ==
    ctx \o [i \in 1..Len(fields) |-> <<"await_fun_value", fields[Len(fields) + 1 - i]>>]

Branch(ctx, frame, tag, fields) ==
    IF tag >= Len(frame[3]) THEN ScriptError
    ELSE Compute(transfer_arg_stack(ctx, fields), frame[2], frame[3][tag + 1])

case_on_constant(ctx, frame, constant) ==
    LET branches == Len(frame[3])
        con(c) == <<"con", c>>
        Take(allowed, tag, fields) ==
            IF allowed THEN Branch(ctx, frame, tag, fields) ELSE ScriptError
    IN  CASE constant[1] = "bool" ->
                Take(branches \in 1..2, IF constant[2] THEN 1 ELSE 0, <<>>)
          [] constant[1] = "unit" -> Take(branches = 1, 0, <<>>)
          [] constant[1] = "int"  -> Take(constant[2] >= 0, constant[2], <<>>)
          [] constant[1] = "list" ->
                IF constant[2] # <<>>
                THEN Take(branches >= 1, 0, <<con(constant[2][1]),
                                              con(<<"list", Tail(constant[2]), constant[3]>>)>>)
                ELSE Take(branches >= 2, 1, <<>>)
          [] constant[1] = "pair" ->
                Take(branches = 1, 0, <<con(constant[2]), con(constant[3])>>)
          [] OTHER -> ScriptError

-----------------------------------------------------------------------------
(* The two halves of a step.                                               *)

run_compute_state ==
    LET t == state.term
        Push(frame, next) == Compute(Append(state.ctx, frame), state.env, next)
        Give(value) == ReturnValue(state.ctx, value)
    IN  CASE t[1] = "var" -> LET value == env_lookup(state.env, t[2])
                             IN  IF value = <<>> THEN ScriptError ELSE Give(value)
          [] t[1] = "delay"   -> Give(<<"delay", t[2], state.env>>)
          [] t[1] = "lam"     -> Give(<<"lam", t[2], state.env>>)
          [] t[1] = "con"     -> Give(t)
          [] t[1] = "builtin" -> Give(<<"builtin", t[2], 0, <<>>>>)
          [] t[1] = "app"     -> Push(<<"await_fun_term", state.env, t[3]>>, t[2])
          [] t[1] = "force"   -> Push(<<"force">>, t[2])
          [] t[1] = "case"    -> Push(<<"cases", state.env, t[3]>>, t[2])
          [] t[1] = "constr"  ->
                IF t[3] = <<>> THEN Give(t)
                ELSE Push(<<"constr", state.env, t[2], Tail(t[3]), <<>>>>, t[3][1])
          [] t[1] = "error"   -> ScriptError

run_return_state ==
    LET frame == state.ctx[Len(state.ctx)]
        ctx   == SubSeq(state.ctx, 1, Len(state.ctx) - 1)
        value == state.value
    IN  CASE frame[1] = "await_fun_term" ->
                Compute(Append(ctx, <<"await_arg", value>>), frame[2], frame[3])
          [] frame[1] = "await_arg"       -> apply_evaluate(ctx, frame[2], value)
          [] frame[1] = "await_fun_value" -> apply_evaluate(ctx, value, frame[2])
          [] frame[1] = "force"           -> force_evaluate(ctx, value)
          [] frame[1] = "constr" ->
                LET resolved == Append(frame[5], value)
                IN  IF frame[4] = <<>> THEN ReturnValue(ctx, <<"constr", frame[3], resolved>>)
                    ELSE Compute(Append(ctx, <<"constr", frame[2], frame[3], Tail(frame[4]),
                                               resolved>>), frame[2], frame[4][1])
          [] frame[1] = "cases" ->
                CASE value[1] = "con" -> case_on_constant(ctx, frame, value[2])
                  [] value[1] = "constr" -> Branch(ctx, frame, value[2], value[3])
                  [] OTHER -> ScriptError

-----------------------------------------------------------------------------
(* The result as a term: the environment of a closure is written into its  *)
(* body.  Deeper than the limit there is <<"illegal">>.                    *)

RECURSIVE with_env(_, _, _, _), discharge_value(_, _), IllegalIn(_)

with_env(depth, lam_cnt, env, term) ==
    LET in(t) == with_env(depth + 1, lam_cnt, env, t)
    IN  CASE depth > MAX_DISCHARGE -> <<"illegal">>
          [] depth <= MAX_DISCHARGE /\ term[1] = "var" ->
                LET bound == IF lam_cnt >= term[2] THEN <<>>
                             ELSE env_lookup(env, term[2] - lam_cnt)
                IN  IF bound = <<>> THEN term ELSE discharge_value(depth + 1, bound)
          [] depth <= MAX_DISCHARGE /\ term[1] = "lam" ->
                <<"lam", with_env(depth + 1, lam_cnt + 1, env, term[2])>>
          [] depth <= MAX_DISCHARGE /\ term[1] \in {"delay", "force"} ->
                <<term[1], in(term[2])>>
          [] depth <= MAX_DISCHARGE /\ term[1] = "app" -> <<"app", in(term[2]), in(term[3])>>
          [] depth <= MAX_DISCHARGE /\ term[1] = "constr" ->
                <<"constr", term[2], [i \in 1..Len(term[3]) |-> in(term[3][i])]>>
          [] depth <= MAX_DISCHARGE /\ term[1] = "case" ->
                <<"case", in(term[2]), [i \in 1..Len(term[3]) |-> in(term[3][i])]>>
          [] OTHER -> term

discharge_value(depth, value) ==
    CASE depth > MAX_DISCHARGE -> <<"illegal">>
      [] depth <= MAX_DISCHARGE /\ value[1] = "con" -> value
      [] depth <= MAX_DISCHARGE /\ value[1] = "delay" ->
            with_env(depth + 1, 0, value[3], <<"delay", value[2]>>)
      [] depth <= MAX_DISCHARGE /\ value[1] = "lam" ->
            <<"lam", with_env(depth + 1, 1, value[3], value[2])>>
      [] depth <= MAX_DISCHARGE /\ value[1] = "builtin" ->
            LET forced[i \in 0..value[3]] ==
                    IF i = 0 THEN <<"builtin", value[2]>> ELSE <<"force", forced[i - 1]>>
                applied[i \in 0..Len(value[4])] ==
                    IF i = 0 THEN forced[value[3]]
                    ELSE <<"app", applied[i - 1], discharge_value(depth + 1, value[4][i])>>
            IN  applied[Len(value[4])]
      [] OTHER -> <<"constr", value[2], [i \in 1..Len(value[3]) |->
                                            discharge_value(depth + 1, value[3][i])]>>

IllegalIn(term) ==
    CASE term[1] = "illegal" -> TRUE
      [] term[1] \in {"lam", "delay", "force"} -> IllegalIn(term[2])
      [] term[1] = "app" -> IllegalIn(term[2]) \/ IllegalIn(term[3])
      [] term[1] = "constr" -> \E i \in 1..Len(term[3]) : IllegalIn(term[3][i])
      [] term[1] = "case" -> \/ IllegalIn(term[2])
                             \/ \E i \in 1..Len(term[3]) : IllegalIn(term[3][i])
      [] OTHER -> FALSE

-----------------------------------------------------------------------------
(* The loop.                                                               *)

Running == [status |-> "running", spent |-> Free, result |-> <<>>]
Result(status, acc_, result) == [status |-> status, spent |-> acc_.spent, result |-> result]

NewAcc == [spent |-> SatPlus(Free, STARTUP), counts |-> [k \in StepKinds |-> 0],
           pending |-> 0]

Init ==
    /\ program \in Programs
    /\ initial \in Budgets
    /\ state = [kind |-> "COMPUTE", ctx |-> <<>>, env |-> <<>>, term |-> program,
                value |-> <<>>]
    /\ acc = NewAcc
    /\ total = STARTUP
    /\ starved = FALSE
    /\ out = IF is_exhausted(NewAcc) THEN Result("OUT_OF_BUDGET", NewAcc, <<>>) ELSE Running

\* Behind the loop: the last batch is charged before anything is reported.
Finish(acc_, outcome, value) ==
    LET flushed == flush_step_budget(acc_)
        term    == discharge_value(0, value)
    IN  /\ acc' = flushed
        /\ out' = CASE is_exhausted(flushed) -> Result("OUT_OF_BUDGET", flushed, <<>>)
                    [] ~is_exhausted(flushed) /\ outcome = "unsupported" ->
                         Result("UNSUPPORTED_BUILTIN", flushed, <<>>)
                    [] ~is_exhausted(flushed) /\ outcome = "error" ->
                         Result("ERROR_TERM", flushed, <<>>)
                    [] OTHER -> IF IllegalIn(term)
                                THEN [Running EXCEPT !.status = "ILLEGAL_STATE"]
                                ELSE Result("SUCCESS", flushed, term)
        /\ UNCHANGED state

\* The rest of an iteration, for a step of that cost, accumulated in acc_.  The budget is
\* looked at when a batch or a builtin has been charged.
Iterate(acc_, cost, step_) ==
    LET charged == charge(acc_, step_.cost)
    IN  /\ total' = Plus(Plus(total, cost), step_.cost)
        /\ IF charged.spent # acc.spent /\ is_exhausted(charged)
           THEN /\ acc' = charged
                /\ out' = Result("OUT_OF_BUDGET", charged, <<>>)
                /\ UNCHANGED state
           ELSE IF step_.outcome # "continue" THEN Finish(charged, step_.outcome, <<"con">>)
           ELSE /\ acc' = charged
                /\ state' = step_.next
                /\ UNCHANGED out

\* Mutant: steps are not charged.
StepComputeUncharged ==
    /\ out.status = "running" /\ state.kind = "COMPUTE"
    /\ Iterate(acc, Free, run_compute_state)
    /\ UNCHANGED <<program, initial, starved>>

StepCompute ==
    /\ out.status = "running" /\ state.kind = "COMPUTE"
    /\ LET kind == state.term[1]
       IN  Iterate(IF kind = "error" THEN acc ELSE step(acc, kind),
                   IF kind = "error" THEN Free ELSE StepCosts[kind], run_compute_state)
    /\ UNCHANGED <<program, initial, starved>>

StepReturn ==
    /\ out.status = "running" /\ state.kind = "RETURN" /\ state.ctx # <<>>
    /\ Iterate(acc, Free, run_return_state)
    /\ UNCHANGED <<program, initial, starved>>

\* The last frame, NO_FRAME, is reached.
StepDone ==
    /\ out.status = "running" /\ state.kind = "RETURN" /\ state.ctx = <<>>
    /\ Finish(acc, "done", state.value)
    /\ UNCHANGED <<program, initial, total, starved>>

\* The arena is out of memory and the failure is passed on: the call returns an
\* error and no result.
StepNoMemory ==
    /\ AllocMayFail /\ out.status = "running"
    /\ out' = [Running EXCEPT !.status = "MEMORY_ALLOCATION_FAILED"]
    /\ UNCHANGED <<program, initial, state, acc, total, starved>>

\* The builtin call the next step makes on constants of the right types.
CallNow ==
    LET frame == state.ctx[Len(state.ctx)]
        function == IF frame[1] = "await_arg" THEN frame[2] ELSE state.value
        args == Append(function[4], IF frame[1] = "await_arg" THEN state.value ELSE frame[2])
    IN  IF /\ state.kind = "RETURN" /\ state.ctx # <<>>
           /\ frame[1] \in {"await_arg", "await_fun_value"} /\ function[1] = "builtin"
           /\ Available(function[2]) /\ Forces(function[2]) = function[3]
           /\ Len(args) = Arity(function[2])
           /\ \A i \in 1..Len(args) : /\ args[i][1] = "con"
                                      /\ HasType(args[i], Signature[function[2]][i])
        THEN <<[func |-> function[2], constants |-> [i \in 1..Len(args) |-> args[i][2]]]>>
        ELSE <<>>

\* A builtin runs out of memory, and its answer does not say so: host_error is left
\* at CARDANO_SUCCESS.  Its cost has been charged.
StepStarved ==
    /\ AllocMayFail /\ out.status = "running" /\ CallNow # <<>>
    /\ \E answer \in Unreported(CallNow[1].func, CallNow[1].constants) :
         Iterate(acc, Free,
                 Costing(ResultOf(SubSeq(state.ctx, 1, Len(state.ctx) - 1), answer),
                         BuiltinCosts[CallNow[1].func]))
    /\ starved' = TRUE
    /\ UNCHANGED <<program, initial>>

Next == StepCompute \/ StepReturn \/ StepDone \/ StepNoMemory \/ StepStarved

\* The loop of cardano_uplc_int_evaluate_with_costs runs until it returns.
Spec == Init /\ [][Next]_vars /\ WF_vars(Next)

-----------------------------------------------------------------------------
(* What a program means, by substitution: the reference the machine is     *)
(* compared with.  A result is <<"value", closed term>>, <<"error">>,      *)
(* <<"unsupported">> or <<"fuel">> when the recursion was cut.             *)

RECURSIVE Subst(_, _, _), Eval(_, _), EvalAll(_, _), ActAll(_, _, _)

\* The closed term v for variable k of a term.
Subst(t, k, v) ==
    LET in(u) == Subst(u, k, v)
        all(us) == [i \in 1..Len(us) |-> in(us[i])]
    IN  CASE t[1] = "var" -> IF t[2] = k THEN v ELSE t
          [] t[1] = "lam" -> <<"lam", Subst(t[2], k + 1, v)>>
          [] t[1] \in {"delay", "force"} -> <<t[1], in(t[2])>>
          [] t[1] = "app" -> <<"app", in(t[2]), in(t[3])>>
          [] t[1] = "constr" -> <<"constr", t[2], all(t[3])>>
          [] t[1] = "case" -> <<"case", in(t[2]), all(t[3])>>
          [] OTHER -> t

\* A builtin that still waits for something is the term that applies it.
RECURSIVE Spine(_)
Spine(t) ==
    CASE t[1] = "builtin" -> [func |-> t[2], forces |-> 0, args |-> <<>>]
      [] t[1] = "force" -> [Spine(t[2]) EXCEPT !.forces = @ + 1]
      [] t[1] = "app" -> [Spine(t[2]) EXCEPT !.args = Append(@, t[3])]

IsBuiltin(t) == t[1] \in {"builtin", "force", "app"}
Value(t) == <<"value", t>>
Failed == <<"error">>

Answer(v) == IF v = <<>> THEN Failed ELSE Value(v)

\* A builtin term that may have become complete.
Saturate(t) ==
    LET s == Spine(t)
    IN  IF s.forces # Forces(s.func) \/ Len(s.args) # Arity(s.func) THEN Value(t)
        ELSE IF ~Available(s.func) THEN <<"unsupported">>
        ELSE Answer(builtin_run(s.func, s.args))

\* A value that is forced (x is <<>>) or applied to the value x.  Builtins take
\* all their forces before their first argument.
Act(fuel, f, x) ==
    CASE f[1] = "lam" /\ x # <<>> -> Eval(fuel, Subst(f[2], 1, x))
      [] f[1] = "delay" /\ x = <<>> -> Eval(fuel, f[2])
      [] IsBuiltin(f) /\ (x = <<>>) = (Spine(f).forces < Forces(Spine(f).func)) ->
            Saturate(IF x = <<>> THEN <<"force", f>> ELSE <<"app", f, x>>)
      [] OTHER -> Failed

ActAll(fuel, r, xs) ==
    IF r[1] # "value" \/ xs = <<>> THEN r ELSE ActAll(fuel, Act(fuel, r[2], xs[1]), Tail(xs))

\* The branch a value selects and the arguments it brings, by the rules of
\* `case' on constructors and on constants.
Selected(v, n) ==
    LET con(c) == <<"con", c>>
        at(tag, args) == [tag |-> tag, args |-> args]
        none == at(n, <<>>)
    IN  IF v[1] = "constr" THEN at(v[2], v[3])
        ELSE IF v[1] # "con" THEN none
        ELSE LET c == v[2]
             IN  CASE c[1] = "int" /\ c[2] >= 0 -> at(c[2], <<>>)
                   [] c = <<"bool", FALSE>> /\ n <= 2 -> at(0, <<>>)
                   [] c = <<"bool", TRUE>> /\ n <= 2 -> at(1, <<>>)
                   [] c[1] = "unit" /\ n = 1 -> at(0, <<>>)
                   [] c[1] = "pair" /\ n = 1 -> at(0, <<con(c[2]), con(c[3])>>)
                   [] c[1] = "list" /\ c[2] = <<>> -> at(1, <<>>)
                   [] c[1] = "list" /\ c[2] # <<>> ->
                        at(0, <<con(c[2][1]), con(<<"list", Tail(c[2]), c[3]>>)>>)
                   [] OTHER -> none

\* The values of terms that are evaluated one after the other.
EvalAll(fuel, ts) ==
    IF ts = <<>> THEN Value(<<>>)
    ELSE LET first == Eval(fuel, ts[1])
             rest  == EvalAll(fuel, Tail(ts))
         IN  IF first[1] # "value" THEN first
             ELSE IF rest[1] # "value" THEN rest ELSE Value(<<first[2]>> \o rest[2])

\* What is evaluated first, and what is made of the values.
Parts(t) == CASE t[1] = "app" -> <<t[2], t[3]>> [] t[1] = "constr" -> t[3] [] OTHER -> <<t[2]>>

Combine(fuel, t, r) ==
    LET branch == Selected(r[2][1], Len(t[3]))
        head == IF t[1] # "case" THEN Value(r[2][1])
                ELSE IF branch.tag >= Len(t[3]) THEN Failed
                ELSE Eval(fuel, t[3][branch.tag + 1])
        args == CASE t[1] = "app"   -> <<r[2][2]>>
                  [] t[1] = "force" -> <<<<>>>>
                  [] t[1] = "case"  -> branch.args
    IN  CASE r[1] # "value" -> r
          [] r[1] = "value" /\ t[1] = "constr" -> Value(<<"constr", t[2], r[2]>>)
          [] OTHER -> ActAll(fuel, head, args)

Eval(fuel, t) ==
    CASE fuel = 0 -> <<"fuel">>
      [] fuel > 0 /\ t[1] \in {"con", "lam", "delay", "builtin"} -> Value(t)
      [] fuel > 0 /\ t[1] \in {"var", "error"} -> Failed
      [] OTHER -> Combine(fuel - 1, t, EvalAll(fuel - 1, Parts(t)))

-----------------------------------------------------------------------------
(* Properties.                                                             *)

Statuses == {"running", "SUCCESS", "ERROR_TERM", "UNSUPPORTED_BUILTIN", "OUT_OF_BUDGET",
             "ILLEGAL_STATE", "MEMORY_ALLOCATION_FAILED"}

Cost == [Dims -> 0..INT64_MAX]
NoMore(a, b) == \A d \in Dims : a[d] <= b[d]

\* The state is well formed: costs saturate at the largest integer, no more
\* steps are pending than a batch holds, and only the newest chunk of the current
\* environment has free slots (uplc_env.c).
TypeOK ==
    /\ state.kind \in {"COMPUTE", "RETURN"}
    /\ \A i \in 1..Len(state.env) : Len(state.env[i]) \in 1..CHUNK_SLOTS
    /\ \A i \in 2..Len(state.env) : Len(state.env[i]) = CHUNK_SLOTS
    /\ acc.spent \in Cost /\ acc.counts \in [StepKinds -> 0..SLIPPAGE]
    /\ acc.pending \in 0..SLIPPAGE
    /\ out.status \in Statuses /\ out.spent \in Cost

\* What the machine answers is what the program means: the discharged term of a
\* success is the value that substitution gives, a script error is reported
\* exactly for programs that fail and an unsupported builtin only where one is
\* called.  Chunked environments, the order of frames and of the fields of a
\* constructor, saturation of builtins and the read-back all take part.  Not so
\* after a builtin hid a failed allocation, although uplc_machine.h (:68-72, :84-88)
\* says that such a failure is an error of the call: builtins.c:455 and :483 take
\* it for an argument of the wrong type, and floor_div_mod (builtins.c:695) goes on
\* with the quotient of another division.
AgreesWithReference ==
    ~starved /\ out.status \in {"SUCCESS", "ERROR_TERM", "UNSUPPORTED_BUILTIN"} =>
        Eval(initial.mem + 1, program) =
            CASE out.status = "SUCCESS" -> Value(out.result)
              [] out.status = "ERROR_TERM" -> Failed
              [] out.status = "UNSUPPORTED_BUILTIN" -> <<"unsupported">>

\* The builtins on integers, bits, byte strings and values answer what their
\* definitions say: division and remainder on both sides of zero and at the ends
\* of int64_t, bits and bytes counted from the right end, padding, widths and
\* indices at their limits, and values merged entry by entry (builtins.c).  Of
\* the encoding of a value it says that it is read back as it was; of the
\* builtins on lists, arrays and pairs and of the choices, nothing.
BuiltinsAgree ==
    CallNow # <<>> => Agrees(CallNow[1].func, CallNow[1].constants)

\* A value of assets is canonical whenever it is returned, after any sequence of
\* inserting, adding, scaling and decoding: lookups and sums rely on the order,
\* and on there being no zero and no empty policy (builtins.c:6392, :6978).
ValuesCanonical ==
    state.kind = "RETURN" /\ state.value[1] = "con" /\ state.value[2][1] = "value" =>
        Canonical(state.value[2][2])

\* Builtins answer what they mean, in the form later builtins rely on.
BuiltinsSound == BuiltinsAgree /\ ValuesCanonical

\* Batching loses nothing (uplc_step_accumulator.c): what has been charged and
\* what the pending steps cost is together what every step and every builtin so
\* far costs one by one, and a report that is not of exhaustion has no step
\* pending.
ChargedExactly ==
    /\ \A d \in Dims : Capped(acc.spent[d] + CostOf(acc.counts, d)) = Capped(total[d])
    /\ out.status \in {"SUCCESS", "ERROR_TERM", "UNSUPPORTED_BUILTIN"} =>
         \A d \in Dims : out.spent[d] = Capped(total[d])

\* A script is judged by its budget whatever the batches were: it is reported
\* out of budget only when its steps cost more than it was given, and gets any
\* other report only when they did not.
BudgetRespected ==
    /\ out.status = "OUT_OF_BUDGET" => ~NoMore(total, initial)
    /\ out.status \in {"SUCCESS", "ERROR_TERM", "UNSUPPORTED_BUILTIN"} => NoMore(total, initial)

\* A script that runs on past its budget is less than one batch of steps past it:
\* the check of uplc_machine.c:1976 comes with every batch and every builtin.
OverrunBounded ==
    out.status = "running" =>
        \A d \in Dims : \E k \in StepKinds :
            total[d] <= initial[d] + (SLIPPAGE - 1) * StepCosts[k][d]

\* Charging in batches decides like charging step by step, a bounded overrun apart.
BatchedAsStepwise == TypeOK /\ ChargedExactly /\ BudgetRespected /\ OverrunBounded

\* Every evaluation ends, that of a program without a value too: each pass of
\* the loop either pops a frame or charges a step, and the budget is finite.
Terminates == <>(out.status # "running")
=============================================================================
