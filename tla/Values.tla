------------------------------- MODULE Values -------------------------------
(***************************************************************************)
(* Multi-asset values (lib/src/transaction_body/value.c) and the two       *)
(* protocol measures the coin selectors take of a value: the minimum ada   *)
(* an output carrying it must hold, and whether it is too large for one    *)
(* output.                                                                 *)
(*                                                                         *)
(* A value is a function from tokens to integers.  The native assets are   *)
(* 1..NAssets, numbered in the order an asset map keeps its keys, and the  *)
(* last token, Ada, is lovelace.  A token of quantity zero is a key the    *)
(* map does not have: subtraction filters such keys out.                   *)
(***************************************************************************)
EXTENDS Orders

CONSTANTS
  NAssets,         \* number of native assets
  MinAdaBase,      \* min-ADA of an output that carries no native asset
  MinAdaPerAsset,  \* what each further native asset adds to it
  MaxValueAssets   \* native assets that fit in one output, 0 for no limit

ASSUME ValuesAssumption ==
  /\ NAssets \in Nat
  /\ MinAdaBase \in Nat \ {0}
  /\ MinAdaPerAsset \in Nat
  /\ MaxValueAssets \in Nat

Assets == 1 .. NAssets
Ada    == NAssets + 1
Tokens == 1 .. (NAssets + 1)

Value  == [Tokens -> Int]
Bundle == [Tokens -> Nat]

ZeroValue == [t \in Tokens |-> 0]

value_add(v, w)      == [t \in Tokens |-> v[t] + w[t]]
value_subtract(v, w) == [t \in Tokens |-> v[t] - w[t]]

(* The sum of a sequence of values. *)
SumValues(vs) == FoldLeft(value_add, ZeroValue, vs)

(* The keys of cardano_value_as_assets_map, without and with lovelace. *)
AssetsOf(v) == {a \in Assets : v[a] # 0}
TokensOf(v) == {t \in Tokens : v[t] # 0}

value_is_non_negative(v) == \A t \in Tokens : v[t] >= 0

(* The bundle that holds coin lovelace and the assets of v. *)
WithCoin(v, coin) == [v EXCEPT ![Ada] = coin]

(* The min-ADA of an output: it grows with what the output carries and does *)
(* not depend on the coin itself, whose encoded size the code iterates to a *)
(* fixpoint.                                                                *)
compute_min_ada_required(v) ==
  MinAdaBase + MinAdaPerAsset * Cardinality(AssetsOf(v))

(* An output value is too large when it carries too many assets. *)
value_is_oversized(as) ==
  MaxValueAssets > 0 /\ Cardinality(as) > MaxValueAssets

(* Equipartition of an asset set into parts that fit: the pending list is a *)
(* stack, so the upper half of a split is finished before the lower half.   *)
(* A single asset is never split.                                           *)
split_value_assets(as) ==
  LET lower(s) == {a \in s : Cardinality({b \in s : b < a}) < Cardinality(s) \div 2}
      split[s \in SUBSET as] ==
        IF value_is_oversized(s) /\ Cardinality(s) >= 2
        THEN split[s \ lower(s)] \o split[lower(s)]
        ELSE <<s>>
  IN split[as]

(* The part of v that the asset set as keeps, without coin. *)
AssetSlice(v, as) == [t \in Tokens |-> IF t \in as THEN v[t] ELSE 0]
=============================================================================
