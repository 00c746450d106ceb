----------------------------- MODULE LargeFirst ------------------------------
(***************************************************************************)
(* The large-first coin selector: one call of select                       *)
(* (large_first_coin_selector.c) with the helpers of large_first_helpers.c *)
(* and the shared change construction of change_builder.c.                 *)
(*                                                                         *)
(* For every token of the target it takes the largest UTXOs until the      *)
(* token is covered, then funds the change with further UTXOs, those with  *)
(* the most lovelace first.                                                *)
(***************************************************************************)
EXTENDS Values

CONSTANT Requests   \* the selection requests, see RequestsAssumption

UtxoRecord == [id : Nat, val : Bundle]

(* No UTXO is in the list twice. *)
Distinct(us) == \A i, j \in DOMAIN us : us[i].id = us[j].id => i = j

(* The UTXOs of a request are entries of the ledger: an id has one UTXO, which *)
(* holds lovelace.                                                             *)
ASSUME RequestsAssumption ==
  \A r \in Requests :
    /\ r.pre \in Seq(UtxoRecord) /\ Distinct(r.pre)
    /\ r.available \in Seq(UtxoRecord) /\ Distinct(r.available)
    /\ \A i \in DOMAIN r.pre : r.pre[i].val[Ada] > 0
    /\ \A i \in DOMAIN r.available : r.available[i].val[Ada] > 0
    /\ \A i \in DOMAIN r.pre, j \in DOMAIN r.available :
         r.pre[i].id = r.available[j].id => r.pre[i] = r.available[j]
    /\ r.target \in Value

VARIABLES
  req,          \* the request, fixed during the call
  pc,           \* where the call is
  next,         \* the next pre-selected UTXO, then the next token
  selection,    \* the selected UTXOs
  remaining,    \* remaining_utxo
  accumulated,  \* accumulated_value
  changeValue,  \* change_value
  change        \* the values of the change outputs

vars == <<req, pc, next, selection, remaining, accumulated, changeValue, change>>

(* The keys of the target's asset map, lovelace first. *)
TargetTokens ==
  LET before == {p \in Tokens \X Tokens : p[2] # Ada /\ (p[1] = Ada \/ p[1] < p[2])}
  IN  InOrder(TokensOf(req.target), before)

SumOf(us) == SumValues([i \in DOMAIN us |-> us[i].val])

(* Mutant: the smallest amount first, UTXOs without the token last. *)
sort_ascending(us, t) ==
  LET rank(i)      == IF us[i].val[t] = 0 THEN <<1, 0>> ELSE <<0, us[i].val[t]>>
      before(i, j) == \/ rank(i)[1] < rank(j)[1]
                      \/ rank(i)[1] = rank(j)[1] /\ rank(i)[2] < rank(j)[2]
                      \/ rank(i) = rank(j) /\ i < j
      order        == InOrder(DOMAIN us, {p \in (DOMAIN us) \X (DOMAIN us) : before(p[1], p[2])})
  IN  <<>> \o [i \in DOMAIN us |-> us[order[i]]]

(* cardano_utxo_list_sort with compare_utxos: a stable insertion sort, the *)
(* largest amount of the token first.                                      *)
compare_utxos_sort(us, t) ==
  LET before(i, j) == us[i].val[t] > us[j].val[t] \/ (us[i].val[t] = us[j].val[t] /\ i < j)
      order        == InOrder(DOMAIN us, {p \in (DOMAIN us) \X (DOMAIN us) : before(p[1], p[2])})
  IN  <<>> \o [i \in DOMAIN us |-> us[order[i]]]

(* The loop of _cardano_large_fist_select_utxos over the sorted list, by its   *)
(* locals: i counts from 0 as in the code, and utxo_count is kept by hand.     *)
LoopBegins(t, rem, sel, acc) ==
  [i |-> 0, utxo_count |-> Len(rem), available |-> rem, selected |-> sel,
   accumulated_value |-> acc, accumulated_amount |-> acc[t]]

LoopRuns(loop, required) == loop.i < loop.utxo_count /\ loop.accumulated_amount < required

(* Mutant: i is not taken back when the element under it was erased. *)
MoveUtxoSkipping(loop, t) ==
  LET utxo == loop.available[loop.i + 1]
  IN  IF utxo.val[t] > 0
      THEN [i |-> loop.i + 1, utxo_count |-> loop.utxo_count - 1,
            available |-> RemoveAt(loop.available, loop.i + 1),
            selected |-> Append(loop.selected, utxo),
            accumulated_value |-> value_add(loop.accumulated_value, utxo.val),
            accumulated_amount |-> loop.accumulated_amount + utxo.val[t]]
      ELSE [loop EXCEPT !.i = @ + 1]

(* One iteration.  An element that is moved is erased under the index, which   *)
(* is taken back before the loop advances it.                                  *)
MoveUtxo(loop, t) ==
  LET utxo == loop.available[loop.i + 1]
  IN  IF utxo.val[t] > 0
      THEN [i |-> (loop.i - 1) + 1, utxo_count |-> loop.utxo_count - 1,
            available |-> RemoveAt(loop.available, loop.i + 1),
            selected |-> Append(loop.selected, utxo),
            accumulated_value |-> value_add(loop.accumulated_value, utxo.val),
            accumulated_amount |-> loop.accumulated_amount + utxo.val[t]]
      ELSE [loop EXCEPT !.i = @ + 1]

(* The loop at its end: each iteration moves an element or passes one. *)
LoopEnds(t, required, rem, sel, acc) ==
  LET after[n \in 0 .. Len(rem)] ==
        IF n = 0 THEN LoopBegins(t, compare_utxos_sort(rem, t), sel, acc)
        ELSE IF LoopRuns(after[n - 1], required) THEN MoveUtxo(after[n - 1], t)
        ELSE after[n - 1]
  IN  after[Len(rem)]

(* _cardano_large_fist_select_utxos: nothing to do when the token is covered; *)
(* otherwise the list is sorted and UTXOs that hold the token are moved from  *)
(* its front until it is.  What its loop does is stated in closed form, which *)
(* is compared with the loop itself (LoopTakesTheFront).                      *)
select_utxos(t, required, rem, sel, acc) ==
  LET sorted  == compare_utxos_sort(rem, t)
      holding == Cardinality({i \in DOMAIN rem : rem[i].val[t] > 0})
      got(k)  == acc[t] + SumOf(SubSeq(sorted, 1, k))[t]
      taken   == Min({k \in 0 .. holding : k = holding \/ got(k) >= required})
  IN  IF acc[t] >= required
      THEN [ok |-> TRUE, rem |-> rem, sel |-> sel, acc |-> acc]
      ELSE [ok  |-> got(taken) >= required,
            rem |-> SubSeq(sorted, taken + 1, Len(sorted)),
            sel |-> sel \o SubSeq(sorted, 1, taken),
            acc |-> value_add(acc, SumOf(SubSeq(sorted, 1, taken)))]

-----------------------------------------------------------------------------
Init ==
  /\ req \in Requests
  /\ pc = "preselect"
  /\ next = 1
  /\ selection = <<>>
  /\ remaining = req.available
  /\ accumulated = ZeroValue
  /\ changeValue = ZeroValue
  /\ change = <<>>

(* Mutant: a pre-selected UTXO stays available. *)
TakePreselectedKeeps ==
  /\ pc = "preselect"
  /\ next \in DOMAIN req.pre
  /\ LET u == req.pre[next]
     IN /\ selection' = Append(selection, u)
        /\ accumulated' = value_add(accumulated, u.val)
  /\ next' = next + 1
  /\ UNCHANGED <<req, pc, remaining, changeValue, change>>

(* A pre-selected UTXO is selected, counted by check_preselected, and its *)
(* first occurrence leaves the remaining list.                            *)
TakePreselected ==
  /\ pc = "preselect"
  /\ next \in DOMAIN req.pre
  /\ LET u == req.pre[next]
     IN /\ selection' = Append(selection, u)
        /\ accumulated' = value_add(accumulated, u.val)
        /\ remaining' = RemoveFirst(remaining, u)
  /\ next' = next + 1
  /\ UNCHANGED <<req, pc, changeValue, change>>

(* A target that asks for nothing still gets an input, picked for one lovelace *)
(* against an accumulated value of its own.                                    *)
EnsureInput ==
  /\ pc = "preselect"
  /\ next \notin DOMAIN req.pre
  /\ next' = 1
  /\ IF req.target[Ada] <= 0 /\ AssetsOf(req.target) = {} /\ selection = <<>>
     THEN \E s \in {select_utxos(Ada, 1, remaining, selection, ZeroValue)} :
             /\ selection' = s.sel
             /\ remaining' = s.rem
             /\ pc' = IF s.ok THEN "tokens" ELSE "failed"
     ELSE pc' = "tokens" /\ UNCHANGED <<selection, remaining>>
  /\ UNCHANGED <<req, accumulated, changeValue, change>>

(* Mutant: a token that is covered already is looked at again. *)
SelectTokenAgain ==
  /\ pc = "tokens"
  /\ next \in DOMAIN TargetTokens
  /\ \E t \in {TargetTokens[next]} :
       \E s \in {select_utxos(t, req.target[t], remaining, selection, accumulated)} :
         /\ selection' = s.sel
         /\ remaining' = s.rem
         /\ accumulated' = s.acc
         /\ pc' = IF s.ok THEN "tokens" ELSE "failed"
         /\ next' = IF s.sel = selection THEN next ELSE next + 1
  /\ UNCHANGED <<req, changeValue, change>>

SelectToken ==
  /\ pc = "tokens"
  /\ next \in DOMAIN TargetTokens
  /\ \E t \in {TargetTokens[next]} :
       \E s \in {select_utxos(t, req.target[t], remaining, selection, accumulated)} :
         /\ selection' = s.sel
         /\ remaining' = s.rem
         /\ accumulated' = s.acc
         /\ pc' = IF s.ok THEN "tokens" ELSE "failed"
  /\ next' = next + 1
  /\ UNCHANGED <<req, changeValue, change>>

TokensCovered ==
  /\ pc = "tokens"
  /\ next \notin DOMAIN TargetTokens
  /\ pc' = "build"
  /\ UNCHANGED <<req, next, selection, remaining, accumulated, changeValue, change>>

-----------------------------------------------------------------------------
(* _cardano_coin_selector_build_change *)

ComputeChange ==
  /\ pc = "build"
  /\ changeValue' = value_subtract(SumOf(selection), req.target)
  /\ pc' = IF ~value_is_non_negative(changeValue') THEN "failed"
           ELSE IF changeValue' = ZeroValue THEN "done" ELSE "fund"
  /\ UNCHANGED <<req, next, selection, remaining, accumulated, change>>

(* The change v split into as many outputs as it needs, each with its min-ADA. *)
LeastOutputs(v) ==
  LET parts  == split_value_assets(AssetsOf(v))
      part   == [i \in DOMAIN parts |-> AssetSlice(v, parts[i])]
  IN  [i \in DOMAIN parts |-> WithCoin(part[i], compute_min_ada_required(part[i]))]

TotalMinAda(v) == SumValues(LeastOutputs(v))[Ada]
Fundable       == changeValue[Ada] >= TotalMinAda(changeValue)

(* Mutant: the value of the moved UTXO is not added to the change. *)
TopUpForgetsValue ==
  /\ pc = "fund"
  /\ ~Fundable
  /\ LET sorted == compare_utxos_sort(remaining, Ada)
     IN IF remaining = <<>> \/ sorted[1].val[Ada] = 0
        THEN pc' = "failed" /\ UNCHANGED <<selection, remaining, changeValue>>
        ELSE /\ selection' = Append(selection, sorted[1])
             /\ remaining' = Tail(sorted)
             /\ changeValue' = WithCoin(changeValue, changeValue[Ada] + sorted[1].val[Ada])
             /\ pc' = pc
  /\ UNCHANGED <<req, next, accumulated, change>>

(* move_largest_lovelace_utxo: the change gets all the moved UTXO holds, its *)
(* assets too.                                                               *)
TopUp ==
  /\ pc = "fund"
  /\ ~Fundable
  /\ LET sorted == compare_utxos_sort(remaining, Ada)
     IN IF remaining = <<>> \/ sorted[1].val[Ada] = 0
        THEN pc' = "failed" /\ UNCHANGED <<selection, remaining, changeValue>>
        ELSE /\ selection' = Append(selection, sorted[1])
             /\ remaining' = Tail(sorted)
             /\ changeValue' = value_add(changeValue, sorted[1].val)
             /\ pc' = pc
  /\ UNCHANGED <<req, next, accumulated, change>>

(* Every part gets its min-ADA, the last one what is left as well. *)
EmitChange ==
  /\ pc = "fund"
  /\ Fundable
  /\ LET least == LeastOutputs(changeValue)
         extra == changeValue[Ada] - TotalMinAda(changeValue)
     IN  change' = [least EXCEPT ![Len(least)] = WithCoin(@, @[Ada] + extra)]
  /\ pc' = "done"
  /\ UNCHANGED <<req, next, selection, remaining, accumulated, changeValue>>

Terminated ==
  /\ pc \in {"done", "failed"}
  /\ UNCHANGED vars

Step ==
  \/ TakePreselected \/ EnsureInput \/ SelectToken \/ TokensCovered
  \/ ComputeChange \/ TopUp \/ EmitChange

Next == Step \/ Terminated

(* The call runs to its end: nothing it does waits for anyone. *)
Spec == Init /\ [][Next]_vars /\ WF_vars(Step)
-----------------------------------------------------------------------------
(* Type correctness of a call.  The change is never negative: tokens that the *)
(* loop covers leave nothing owing.                                           *)
TypeOK ==
  /\ req \in Requests
  /\ pc \in {"preselect", "tokens", "build", "fund", "done", "failed"}
  /\ next \in Nat
  /\ selection \in Seq(UtxoRecord)
  /\ remaining \in Seq(UtxoRecord)
  /\ accumulated \in Bundle
  /\ changeValue \in Bundle
  /\ change \in Seq(Bundle)

(* What the caller sees of a call is what the contract of coin_selector_impl.h *)
(* allows: a balanced selection with min-ADA compliant change that splits the  *)
(* UTXOs into the selected and the remaining, or a failure.                    *)
Promised == INSTANCE CoinSelection WITH
  req       <- req,
  status    <- IF pc = "done" THEN "ok" ELSE IF pc = "failed" THEN "failed" ELSE "pending",
  selection <- IF pc = "done" THEN selection ELSE <<>>,
  remaining <- IF pc = "done" THEN remaining ELSE <<>>,
  change    <- IF pc = "done" THEN change ELSE <<>>

ImplementsCoinSelection == Promised!Spec

(* While the token loop sorts and moves UTXOs between its two lists, none is  *)
(* lost, doubled or in both, and the accumulated value is that of the         *)
(* selection it has been accumulated for.                                     *)
Conservation ==
  LET id(us) == {us[i].id : i \in DOMAIN us}
  IN pc \in {"tokens", "build", "fund"} =>
       /\ id(selection) \cap id(remaining) = {}
       /\ id(selection) \cup id(remaining) = id(req.pre) \cup id(req.available)
       /\ Len(selection) + Len(remaining) = Cardinality(id(req.pre) \cup id(req.available))
       /\ pc # "fund" /\ (req.target[Ada] > 0 \/ AssetsOf(req.target) # {})
            => accumulated = SumOf(selection)

(* The lists and the sums of a call stay well formed and lose nothing. *)
ListsAccounted == TypeOK /\ Conservation

(* The loop over the available UTXOs, which erases from the list it walks,    *)
(* skips none and moves none twice: it takes the front of the sorted list, up *)
(* to the first UTXO with which the token is covered (large_first_helpers.c:  *)
(* 412-416).                                                                  *)
LoopTakesTheFront ==
  pc = "tokens" /\ next \in DOMAIN TargetTokens =>
    LET t    == TargetTokens[next]
        loop == LoopEnds(t, req.target[t], remaining, selection, accumulated)
        s    == select_utxos(t, req.target[t], remaining, selection, accumulated)
    IN  accumulated[t] < req.target[t] =>
          /\ ~LoopRuns(loop, req.target[t])
          /\ s = [ok  |-> loop.accumulated_amount >= req.target[t], rem |-> loop.available,
                  sel |-> loop.selected, acc |-> loop.accumulated_value]

(* What the UTXOs at the places s of the request hold of a token. *)
Held(s, t) ==
  LET us == req.available
  IN  SumValues([i \in DOMAIN us |-> IF i \in s THEN us[i].val ELSE ZeroValue])[t]

(* What the strategy is for: a requirement for one token is met with as few  *)
(* inputs as possible.                                                       *)
FewestInputs ==
  LET wanted == {t \in Tokens : req.target[t] > 0}
  IN pc = "build" /\ req.pre = <<>> /\ Cardinality(wanted) = 1 =>
       \A s \in SUBSET DOMAIN req.available :
         (\A t \in wanted : Held(s, t) >= req.target[t]) => Cardinality(s) >= Len(selection)

(* assert_failure_properties of coin_selection_properties.cpp: "a failure is  *)
(* only legitimate when the request was genuinely unsatisfiable".  Spending   *)
(* every UTXO would not do either.                                            *)
FailureIsLegitimate ==
  LET left == value_subtract(SumOf(selection \o remaining), req.target)
  IN pc = "failed" =>
       \/ selection \o remaining = <<>>
       \/ ~value_is_non_negative(left)
       \/ left # ZeroValue /\ left[Ada] < TotalMinAda(left)

(* The answer is the best there is: as few inputs as possible, and a failure *)
(* only where no selection would do.                                         *)
AnswerIsBest == FewestInputs /\ FailureIsLegitimate

(* The token loop and the funding loop end. *)
Termination == <>(pc \in {"done", "failed"})

(* coin_selection_properties.cpp:534, of both selectors: "Must select at least *)
(* one input".                                                                 *)
SelectsAnInput == pc = "done" => selection # <<>>
=============================================================================
