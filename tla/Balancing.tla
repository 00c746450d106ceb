------------------------------ MODULE Balancing ------------------------------
(***************************************************************************)
(* One call of cardano_balance_transaction (transaction_balancing.c) with  *)
(* _cardano_set_collateral_output (collateral.c), the deferred redeemers   *)
(* (deferred_redeemer_list.c) and the input-to-redeemer map.               *)
(*                                                                         *)
(* The call is a loop.  Each round takes collateral for the fee of the     *)
(* body, asks the coin selector for inputs and change, lays them out in    *)
(* the body, points the redeemers at their inputs, lets the deferred       *)
(* redeemers see the draft, evaluates the scripts and computes the fee of  *)
(* the result.  A fee above the one the round was made for starts another  *)
(* round with that fee; otherwise the balance is checked and the call ends.*)
(*                                                                         *)
(* The coin selector, the evaluator and the deferred callbacks are code of *)
(* the caller: they may answer or fail.                                    *)
(***************************************************************************)
EXTENDS TxCosts

CONSTANT Requests   \* the transactions to balance, each with its UTXO lists

Withdrawal  == [amount : Nat, key : Nat]
Certificate == [kind : STRING, deposit : Nat, keys : SUBSET Nat]

(* What the author of the transaction put there: the outputs, the fee and    *)
(* what implicit_coin.c and unique_signers.c look at.                        *)
ASSUME ContentsAssumption ==
  \A r \in Requests :
    /\ r.outputs \in Seq(Bundle)
    /\ r.fee \in Nat
    /\ r.mint \in Value
    /\ r.donation \in Nat
    /\ r.withdrawals \in Seq(Withdrawal)
    /\ r.certificates \in Seq(Certificate)
    /\ r.proposals \in Seq(Nat)
    /\ r.ref_fee \in Nat
    /\ r.foreign_signature_count \in Nat
    /\ IsFiniteSet(r.required_signers) /\ IsFiniteSet(r.voters)
    /\ \A i \in DOMAIN r.certificates : IsFiniteSet(r.certificates[i].keys)

(* The UTXO lists, the redeemers of the witness set, whether there is an     *)
(* evaluator, and whether the selector keeps its contract.  The UTXOs are    *)
(* entries of the ledger: an id has one value, whichever lists it is in.     *)
(* Each redeemer has an item of its own: a pre-selected input for spending,  *)
(* an index for minting.                                                     *)
ASSUME RequestsAssumption ==
  \A r \in Requests :
    /\ {r.pre, r.available, r.collateral_utxo} \subseteq Seq(Utxo)
    /\ \A us, vs \in {r.pre, r.available, r.collateral_utxo} :
         \A i \in DOMAIN us, j \in DOMAIN vs : us[i].id = vs[j].id => us[i] = vs[j]
    /\ r.redeemers \in Seq([tag : {"spend", "mint"}, input : Nat, index : Nat, deferred : BOOLEAN])
    /\ \A i \in DOMAIN r.redeemers :
         r.redeemers[i].tag = "spend" => r.redeemers[i].input \in Ids(r.pre)
    /\ \A i, j \in DOMAIN r.redeemers :
         /\ r.redeemers[i].tag = r.redeemers[j].tag
         /\ IF r.redeemers[i].tag = "spend" THEN r.redeemers[i].input = r.redeemers[j].input
            ELSE r.redeemers[i].index = r.redeemers[j].index
         => i = j
    /\ r.evaluator \in BOOLEAN
    /\ r.honest \in BOOLEAN

VARIABLES
  req,        \* the request, fixed during the call
  pc,         \* where the call is
  error,      \* what made it fail
  fee,        \* the local variable fee
  body,       \* the fields of the transaction body that balancing sets
  redeemers,  \* the redeemers of the witness set
  selection,  \* the answer of the coin selector: the inputs
  change,     \* and the change outputs
  next        \* the next deferred redeemer

vars == <<req, pc, error, fee, body, redeemers, selection, change, next>>

(* The body and the witnesses as the fee and the balance see them. *)
Draft == [inputs |-> body.inputs, outputs |-> body.outputs, fee |-> body.fee,
          collateral |-> body.collateral, collateral_return |-> body.collateral_return,
          redeemers |-> redeemers]

(* What a deferred callback computes its payload from, and what a script *)
(* gets to see: the layout of the transaction.                           *)
Layout == <<body.inputs, body.outputs, body.fee>>

NoData == <<>>

Redeemer ==
  [tag : {"spend", "mint"}, input : Nat, index : Nat, deferred : BOOLEAN,
   data : {NoData} \cup (Seq(Nat) \X Seq(Bundle) \X Nat), size : Nat, ex_units : Nat]

EmptyBody(outputs, f) ==
  [inputs |-> <<>>, outputs |-> outputs, fee |-> f, collateral |-> <<>>,
   collateral_return |-> <<>>, total_collateral |-> 0]

Fail(why) == pc' = "failed" /\ error' = why

-----------------------------------------------------------------------------
Init ==
  /\ req \in Requests
  /\ pc = "collateral"
  /\ error = "none"
  /\ fee = req.fee
  /\ body = EmptyBody(req.outputs, req.fee)
  /\ redeemers = [i \in DOMAIN req.redeemers |->
                   [tag |-> req.redeemers[i].tag, input |-> req.redeemers[i].input,
                    index |-> req.redeemers[i].index, deferred |-> req.redeemers[i].deferred,
                    data |-> NoData, size |-> 1, ex_units |-> 0]]
  /\ selection = <<>>
  /\ change = <<>>
  /\ next = 1

-----------------------------------------------------------------------------
(* Collateral *)

(* The UTXOs of us with the identities ids, by identity. *)
Chosen(us, ids) ==
  LET sorted == Ascending(ids)
  IN  [i \in DOMAIN sorted |-> us[Min({j \in DOMAIN us : us[j].id = sorted[i]})]]

NeedsCollateral == req.collateral_utxo # <<>> /\ redeemers # <<>>

SkipCollateral ==
  /\ pc = "collateral"
  /\ ~NeedsCollateral
  /\ pc' = "select"
  /\ UNCHANGED <<req, error, fee, body, redeemers, selection, change, next>>

(* The large-first selector finds collateral whenever spending all of it would *)
(* do, see LargeFirst!FailureIsLegitimate; what it answers keeps the contract. *)
CollateralShort(amount) ==
  LET left == value_subtract(Total(req.collateral_utxo), WithCoin(ZeroValue, amount))
  IN  \/ left[Ada] < 0
      \/ left # ZeroValue /\ left[Ada] < compute_min_ada_required(left)

CollateralAnswers(amount) ==
  {us \in {Chosen(req.collateral_utxo, ids) : ids \in SUBSET Ids(req.collateral_utxo) \ {{}}} :
     LET rest == value_subtract(Total(us), WithCoin(ZeroValue, amount))
     IN  /\ rest[Ada] >= 0
         /\ rest = ZeroValue \/ rest[Ada] >= compute_min_ada_required(rest)}

(* The return output is set only when there is something to return.  The loop *)
(* around the selection (collateral.c:271-345) goes round again only when the *)
(* change does not hold the least lovelace of one output, with change_padding *)
(* for what is missing; the selector has funded the outputs that it divides   *)
(* the change into, which need no less, so it is passed once.                 *)
SetCollateral ==
  /\ pc = "collateral"
  /\ NeedsCollateral
  /\ LET amount == calculate_collateral_amount(body.fee)
     IN \/ /\ CollateralShort(amount)
           /\ Fail("collateral")
           /\ UNCHANGED body
        \/ \E us \in CollateralAnswers(amount) :
             LET rest == value_subtract(Total(us), WithCoin(ZeroValue, amount))
             IN /\ body' = [body EXCEPT !.collateral = [i \in DOMAIN us |-> us[i].id],
                                        !.total_collateral = amount,
                                        !.collateral_return = IF rest = ZeroValue THEN @ ELSE <<rest>>]
                /\ pc' = "select"
                /\ UNCHANGED error
  /\ UNCHANGED <<req, fee, redeemers, selection, change, next>>

-----------------------------------------------------------------------------
(* Inputs and change *)

(* What the selection has to cover: the outputs of the body, less what the *)
(* transaction brings in by itself.                                        *)
Target == value_subtract(SumValues(body.outputs), implicit_value(req, fee))

Candidates == req.pre \o req.available

(* The change that is left, as no output, as one, or with its assets or a *)
(* minimal output split off.                                              *)
ChangeOutputs(rest) ==
  LET least == WithCoin(ZeroValue, compute_min_ada_required(ZeroValue))
      split == WithCoin(rest, compute_min_ada_required(rest))
  IN  IF rest = ZeroValue THEN {<<>>}
      ELSE {<<rest>>, <<least, value_subtract(rest, least)>>, <<split, value_subtract(rest, split)>>}

(* An answer within the contract of CoinSelection. *)
HonestAnswer(sel, ch) ==
  /\ LocallyBalanced(sel, ch, Target)
  /\ ChangeCompliant(ch)
  /\ Ids(req.pre) \subseteq Ids(sel)

(* A selector of the caller's own may get the change wrong: none, too little, *)
(* or without its assets.  It is taken to choose among the UTXOs it was given *)
(* and to keep the pre-selected ones, which the redeemers name.               *)
WrongAnswer(sel, ch) == Ids(req.pre) \subseteq Ids(sel)

WrongChange(rest) ==
  {<<>>, <<WithCoin(ZeroValue, rest[Ada])>>, <<WithCoin(rest, rest[Ada] - 1)>>, <<WithCoin(rest, 1)>>}

SelectCoins ==
  /\ pc = "select"
  /\ \E ids \in SUBSET Ids(Candidates) :
       LET sel  == Chosen(Candidates, ids)
           rest == value_subtract(Total(sel), Target)
       IN \E ch \in ChangeOutputs(rest) \cup (IF req.honest THEN {} ELSE WrongChange(rest)) :
            /\ IF req.honest THEN HonestAnswer(sel, ch) ELSE WrongAnswer(sel, ch)
            /\ \A i \in DOMAIN ch : ch[i] \in Bundle
            /\ selection' = sel
            /\ change' = ch
  /\ pc' = "inputs"
  /\ UNCHANGED <<req, error, fee, body, redeemers, next>>

SelectorFails ==
  /\ pc = "select"
  /\ Fail("selection")
  /\ UNCHANGED <<req, fee, body, redeemers, selection, change, next>>

(* update_redeemer_index: the redeemer that the map has for the input, the *)
(* first one if there are several.                                         *)
MapGet(id) == {r \in DOMAIN redeemers :
                 /\ redeemers[r].tag = "spend" /\ redeemers[r].input = id
                 /\ \A q \in DOMAIN redeemers :
                      redeemers[q].tag = "spend" /\ redeemers[q].input = id => r <= q}

(* The redeemers of the map with the positions, counted from base, of their *)
(* inputs in ids.                                                           *)
Aligned(ids, base) ==
  [r \in DOMAIN redeemers |->
     IF \E i \in DOMAIN ids : r \in MapGet(ids[i])
     THEN [redeemers[r] EXCEPT !.index = (CHOOSE i \in DOMAIN ids : r \in MapGet(ids[i])) - base]
     ELSE redeemers[r]]

(* The input set keeps itself sorted; no UTXO is selected twice. *)
SelectedIds == Ascending(Ids(selection))

PlaceInputs(aligned) ==
  /\ pc = "inputs"
  /\ body' = [body EXCEPT !.inputs = SelectedIds]
  /\ redeemers' = aligned
  /\ pc' = "change"
  /\ UNCHANGED <<req, error, fee, selection, change, next>>

(* Every redeemer of the map gets the position of its input. *)
SetTransactionInputs == PlaceInputs(Aligned(SelectedIds, 1))

(* Mutant: deferred redeemers are resolved in the first round only. *)
AddChangeOutputsOnce ==
  /\ pc = "change"
  /\ LET poor == {i \in DOMAIN change : change[i][Ada] < compute_min_ada_required(change[i])}
         good == IF poor = {} THEN Len(change) ELSE Min(poor) - 1
     IN /\ body' = [body EXCEPT !.outputs = @ \o SubSeq(change, 1, good)]
        /\ IF poor = {} THEN pc' = "resolve" /\ UNCHANGED error ELSE Fail("min_ada")
  /\ UNCHANGED <<req, fee, redeemers, selection, change, next>>

(* Change outputs are appended one by one until one holds too little. *)
AddChangeOutputs ==
  /\ pc = "change"
  /\ LET poor == {i \in DOMAIN change : change[i][Ada] < compute_min_ada_required(change[i])}
         good == IF poor = {} THEN Len(change) ELSE Min(poor) - 1
     IN /\ body' = [body EXCEPT !.outputs = @ \o SubSeq(change, 1, good)]
        /\ IF poor = {} THEN pc' = "resolve" /\ UNCHANGED error ELSE Fail("min_ada")
  /\ next' = 1
  /\ UNCHANGED <<req, fee, redeemers, selection, change>>

-----------------------------------------------------------------------------
(* Scripts *)

DeferredRedeemers == Ascending({r \in DOMAIN redeemers : redeemers[r].deferred})

(* One entry of cardano_deferred_redeemer_list_resolve. *)
ResolveDeferred ==
  /\ pc = "resolve"
  /\ next \in DOMAIN DeferredRedeemers
  /\ \/ /\ redeemers' = [redeemers EXCEPT ![DeferredRedeemers[next]].data = Layout,
                                          ![DeferredRedeemers[next]].size = Len(body.inputs)]
        /\ next' = next + 1
        /\ UNCHANGED <<pc, error>>
     \/ /\ Fail("deferred")
        /\ UNCHANGED <<redeemers, next>>
  /\ UNCHANGED <<req, fee, body, selection, change>>

AllResolved ==
  /\ pc = "resolve"
  /\ next \notin DOMAIN DeferredRedeemers
  /\ IF redeemers = <<>> THEN pc' = "fee" /\ UNCHANGED error
     ELSE IF req.evaluator THEN pc' = "evaluate" /\ UNCHANGED error
     ELSE Fail("no_evaluator")
  /\ UNCHANGED <<req, fee, body, redeemers, selection, change, next>>

(* What running the script of a redeemer costs: it looks at the inputs, the *)
(* outputs and its redeemer.                                                *)
script_cost(r) == Len(body.inputs) + Len(body.outputs) + redeemers[r].size

(* cardano_redeemer_list_set_ex_units: the first redeemer with that tag and *)
(* index gets the units.                                                    *)
Evaluate ==
  /\ pc = "evaluate"
  /\ \/ /\ LET first(r) == Min({q \in DOMAIN redeemers : redeemers[q].tag = redeemers[r].tag
                                                     /\ redeemers[q].index = redeemers[r].index})
               set(q)   == {r \in DOMAIN redeemers : first(r) = q}
           IN redeemers' = [q \in DOMAIN redeemers |->
                             IF set(q) = {} THEN redeemers[q]
                             ELSE [redeemers[q] EXCEPT !.ex_units = script_cost(Max(set(q)))]]
        /\ pc' = "fee"
        /\ UNCHANGED error
     \/ /\ Fail("evaluation")
        /\ UNCHANGED redeemers
  /\ UNCHANGED <<req, fee, body, selection, change, next>>

-----------------------------------------------------------------------------
(* Fee and balance *)

(* Mutant: the witnesses are forgotten. *)
unsigned_fee == compute_transaction_fee(req, Draft)

computed_fee == required_fee(req, Draft)

Retry(b) ==
  /\ fee' = computed_fee
  /\ body' = b
  /\ selection' = <<>>
  /\ change' = <<>>
  /\ pc' = "collateral"
  /\ UNCHANGED <<req, error, redeemers, next>>

(* Mutants: the collateral return stays in the body, or a lower fee is taken *)
(* over as well.                                                             *)
RaiseFeeKeepsReturn ==
  /\ pc = "fee"
  /\ computed_fee > fee
  /\ Retry([EmptyBody(req.outputs, computed_fee) EXCEPT !.collateral_return = body.collateral_return])

RaiseFeeToExact ==
  pc = "fee" /\ computed_fee # fee /\ Retry(EmptyBody(req.outputs, computed_fee))

(* The round was made for too small a fee: the body goes back to the outputs *)
(* of the caller, without inputs and collateral, and has the new fee.        *)
RaiseFee ==
  pc = "fee" /\ computed_fee > fee /\ Retry(EmptyBody(req.outputs, computed_fee))

CheckBalance ==
  /\ pc = "fee"
  /\ computed_fee <= fee
  /\ LET resolved == req.collateral_utxo \o req.pre \o selection
     IN IF is_transaction_balanced(req, Draft, resolved)
        THEN pc' = "done" /\ UNCHANGED error
        ELSE Fail("unbalanced")
  /\ UNCHANGED <<req, fee, body, redeemers, selection, change, next>>

Terminated ==
  /\ pc \in {"done", "failed"}
  /\ UNCHANGED vars

Step ==
  \/ SkipCollateral \/ SetCollateral \/ SelectorFails \/ SelectCoins
  \/ SetTransactionInputs \/ AddChangeOutputs \/ ResolveDeferred \/ AllResolved
  \/ Evaluate \/ RaiseFee \/ CheckBalance

Next == Step \/ Terminated

(* The call runs to its end if the callbacks and the selector return. *)
Spec == Init /\ [][Next]_vars /\ WF_vars(Step)
-----------------------------------------------------------------------------
(* Type correctness of a call. *)
TypeOK ==
  /\ req \in Requests
  /\ pc \in {"collateral", "select", "inputs", "change", "resolve", "evaluate", "fee", "done", "failed"}
  /\ error \in {"none", "collateral", "selection", "min_ada", "deferred", "no_evaluator",
                "evaluation", "unbalanced"}
  /\ fee \in Nat
  /\ body \in [inputs : Seq(Nat), outputs : Seq(Bundle), fee : Nat, collateral : Seq(Nat),
               collateral_return : Seq(Bundle), total_collateral : Nat]
  /\ selection \in Seq(Utxo)
  /\ change \in Seq(Bundle)
  /\ next \in Nat
  /\ redeemers \in [DOMAIN req.redeemers -> Redeemer]

(* A transaction that the call reports as balanced preserves value, also if  *)
(* the coin selector gets the change wrong (WrongChange): what its inputs    *)
(* hold, with withdrawals, refunds and the mint, is what it pays in outputs, *)
(* deposits, donation and the fee in its body.                               *)
ValuePreserved ==
  LET spent == Total(Chosen(Candidates, {body.inputs[i] : i \in DOMAIN body.inputs}))
  IN pc = "done" =>
       value_add(spent, implicit_value(req, body.fee)) = SumValues(body.outputs)

(* A coin selector that keeps the contract of coin_selector_impl.h never makes *)
(* the balancer fail its own checks, in whichever round: the target it was     *)
(* given stays the right one while collateral, redeemers and fee change.       *)
HonestSelectorBalances == req.honest => error \notin {"unbalanced", "min_ada"}

(* Success means balanced, and an honest selector is not refused. *)
BalancedOrRefused == ValuePreserved /\ HonestSelectorBalances

(* The fee in the body pays for the transaction as it is handed back, with  *)
(* its collateral, its execution units and a witness for every signer.      *)
FeeCovers == pc = "done" => body.fee >= required_fee(req, Draft)

(* The collateral of the final body fits together and fits the final fee,   *)
(* whatever earlier rounds had put there: the inputs hold the total and the *)
(* return, the return is a valid output and the total is the percentage of  *)
(* the fee.                                                                 *)
CollateralFits ==
  LET held == Total(Chosen(req.collateral_utxo, {body.collateral[i] : i \in DOMAIN body.collateral}))
      back == SumValues(body.collateral_return)
  IN pc = "done" /\ NeedsCollateral =>
       /\ held = value_add(back, WithCoin(ZeroValue, body.total_collateral))
       /\ \A i \in DOMAIN body.collateral_return :
            body.collateral_return[i][Ada] >= compute_min_ada_required(body.collateral_return[i])
       /\ body.total_collateral * 100 >= body.fee * CollateralPercentage

(* transaction_balancing.h: "Redeemers must be updated to point to the correct *)
(* input".  Each spending redeemer has the position of its own input, and no   *)
(* two of them the same.                                                       *)
RedeemersPointAtInputs ==
  pc = "done" =>
    \A r \in DOMAIN redeemers :
      redeemers[r].tag = "spend" =>
        /\ redeemers[r].index + 1 \in DOMAIN body.inputs
        /\ body.inputs[redeemers[r].index + 1] = redeemers[r].input

(* Deferred redeemers were computed from, and scripts were evaluated on, the *)
(* transaction as it is handed back: no payload and no execution unit of an  *)
(* earlier round is left.                                                    *)
ScriptsSawFinalLayout ==
  pc = "done" =>
    \A r \in DOMAIN redeemers :
      /\ redeemers[r].deferred => redeemers[r].data = Layout
      /\ redeemers[r].ex_units = script_cost(r)

(* Indices, payloads and units are those of the transaction handed back. *)
RedeemersFitLayout == RedeemersPointAtInputs /\ ScriptsSawFinalLayout

(* The outputs are those of the caller, in their order, followed by the change *)
(* of the last round only.                                                     *)
NoLeftoverChange == pc = "done" => body.outputs = req.outputs \o change

(* The body handed back is made of the last round alone. *)
OnlyLastRound == TypeOK /\ CollateralFits /\ NoLeftoverChange

(* The rounds come to an end: the fee only rises, and the UTXOs bound it. *)
Termination == <>(pc \in {"done", "failed"})
=============================================================================
