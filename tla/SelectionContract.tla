------------------------- MODULE SelectionContract --------------------------
(***************************************************************************)
(* The terms of the contract between a coin selector and the balancer, as  *)
(* coin_selector_impl.h states them: what CoinSelection promises and       *)
(* Balancing relies on.                                                    *)
(***************************************************************************)
EXTENDS Values

(* A UTXO: its identity (the transaction input) and its value. *)
Utxo == [id : Nat, val : Bundle]

Ids(us)   == {us[i].id : i \in DOMAIN us}
Total(us) == SumValues([i \in DOMAIN us |-> us[i].val])

(* "sum(selection) = target + sum(change_outputs)" *)
LocallyBalanced(sel, ch, target) ==
  Total(sel) = value_add(target, SumValues(ch))

(* "every change output is min-ADA compliant", and none is larger than an *)
(* output may be unless a single asset is.                                *)
ChangeCompliant(ch) ==
  \A i \in DOMAIN ch :
    /\ ch[i][Ada] >= compute_min_ada_required(ch[i])
    /\ value_is_oversized(AssetsOf(ch[i])) => Cardinality(AssetsOf(ch[i])) = 1

(* Every UTXO is either selected, once, or left; a pre-selected one is selected. *)
Partitioned(pre, available, sel, rem) ==
  /\ Ids(sel) \cap Ids(rem) = {}
  /\ Ids(sel) \cup Ids(rem) = Ids(pre) \cup Ids(available)
  /\ Ids(pre) \subseteq Ids(sel)
  /\ Len(sel) = Cardinality(Ids(sel))
=============================================================================
