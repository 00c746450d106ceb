------------------------- MODULE RandomImproveChange -------------------------
(***************************************************************************)
(* Change generation of the random-improve coin selector: make_change of   *)
(* random_improve_coin_selector.c, with the buffers of                     *)
(* random_improve_change_state.c and the arithmetic of                     *)
(* random_improve_helpers.c.                                               *)
(*                                                                         *)
(* The excess of the selection over the target is distributed over one     *)
(* change map per user output; oversized maps are split; every kept map    *)
(* receives its min-ADA plus a share of what is left of the ada.           *)
(***************************************************************************)
EXTENDS Values

SumSeq(s) == FoldLeft(+, 0, s)

AtLeastZero(n) == IF n > 0 THEN n ELSE 0
Least(m, n)    == IF m < n THEN m ELSE n

-----------------------------------------------------------------------------
(* random_improve_helpers.c *)

(* Mutant: the remainders are not handed out. *)
partition_floors(target, weights) ==
  [i \in DOMAIN weights |-> (target * weights[i]) \div SumSeq(weights)]

(* Hamilton's method: floors first, then one more to the largest remainders, *)
(* ties to the larger part and then to the lower index.                      *)
partition(target, weights) ==
  LET W         == SumSeq(weights)
      part(i)   == (target * weights[i]) \div W
      rem(i)    == (target * weights[i]) % W
      shortfall == target - SumSeq([i \in DOMAIN weights |-> part(i)])
      ahead(i, j) == \/ rem(i) > rem(j)
                     \/ rem(i) = rem(j) /\ part(i) > part(j)
                     \/ rem(i) = rem(j) /\ part(i) = part(j) /\ i < j
      ranked    == SetToSortSeq({i \in DOMAIN weights : rem(i) # 0}, ahead)
      favoured  == {ranked[k] : k \in 1 .. Least(shortfall, Len(ranked))}
  IN [i \in DOMAIN weights |-> part(i) + (IF i \in favoured THEN 1 ELSE 0)]

(* Ascending insertion of q into a sorted sequence, before its equals. *)
InsertBeforeEquals(s, q) ==
  LET below == SelectSeq(s, LAMBDA x : x < q)
  IN  below \o <<q>> \o SubSeq(s, Len(below) + 1, Len(s))

(* Sorts the quantities, coalesces the two smallest until size of them are *)
(* left, and pads with zeros at the front.                                 *)
pad_coalesce(quantities, size) ==
  LET excess == AtLeastZero(Len(quantities) - size)
      coalesced[n \in 0 .. excess] ==
        IF n = 0 THEN FoldLeft(InsertBeforeEquals, <<>>, quantities)
        ELSE LET s == coalesced[n - 1]
             IN  InsertBeforeEquals(SubSeq(s, 3, Len(s)), s[1] + s[2])
      kept    == coalesced[excess]
      padding == size - Len(kept)
  IN [i \in 1 .. size |-> IF i <= padding THEN 0 ELSE kept[i - padding]]

(* Takes reduction off the quantities from the front. *)
reduce_quantities(reduction, quantities) ==
  LET taken(i) == Least(quantities[i],
                    AtLeastZero(reduction - SumSeq(SubSeq(quantities, 1, i - 1))))
  IN [i \in DOMAIN quantities |-> quantities[i] - taken(i)]

-----------------------------------------------------------------------------
(* random_improve_change_state.c: a change state is a sequence of maps, each *)
(* the assets of one change output and the weight of its share of the ada.   *)

MapCount(outs) == IF outs = <<>> THEN 1 ELSE Len(outs)

OutWeight(outs, m) == IF outs = <<>> THEN 1 ELSE AtLeastZero(outs[m][Ada])

UserWeights(outs, a) ==
  [m \in 1 .. MapCount(outs) |-> IF outs = <<>> THEN 0 ELSE AtLeastZero(outs[m][a])]

InputQuantities(sel, a) ==
  SelectSeq([i \in DOMAIN sel |-> sel[i][a]], LAMBDA q : q > 0)

(* An asset the user's outputs name is distributed in their proportion. *)
distribute_user_specified_excess(outs, a, excess) ==
  partition(excess, UserWeights(outs, a))

(* Any other asset keeps the shape of the inputs, less what is burnt and *)
(* with what is minted in the last map.                                  *)
distribute_non_user_specified_excess(sel, outs, a, excess) ==
  LET inputs   == InputQuantities(sel, a)
      selected == SumSeq(inputs)
      size     == MapCount(outs)
      shape    == pad_coalesce(inputs, size)
      kept     == reduce_quantities(AtLeastZero(selected - excess), shape)
  IN [kept EXCEPT ![size] = @ + AtLeastZero(excess - selected)]

distribute_asset_excess(sel, outs, a, excess) ==
  CASE excess = 0 -> [m \in 1 .. MapCount(outs) |-> 0]
    [] excess > 0 /\ SumSeq(UserWeights(outs, a)) > 0
         -> distribute_user_specified_excess(outs, a, excess)
    [] OTHER -> distribute_non_user_specified_excess(sel, outs, a, excess)

(* The change maps of an excess value, one per user output. *)
ChangeMaps(sel, outs, excess) ==
  LET share == [a \in Assets |-> distribute_asset_excess(sel, outs, a, excess[a])]
  IN [m \in 1 .. MapCount(outs) |->
        [assets |-> [t \in Tokens |-> IF t = Ada THEN 0 ELSE share[t][m]],
         weight |-> OutWeight(outs, m)]]

(* Splits every oversized map; its weight is shared out evenly. *)
split_oversized_maps(maps) ==
  LET pieces(m) ==
        LET parts == split_value_assets(AssetsOf(maps[m].assets))
            n     == Len(parts)
            w     == maps[m].weight
        IN [p \in 1 .. n |->
              [assets |-> AssetSlice(maps[m].assets, parts[p]),
               weight |-> w \div n + (IF p - 1 < w % n THEN 1 ELSE 0)]]
  IN FlattenSeq([m \in DOMAIN maps |-> pieces(m)])

(* Empty maps first: a stable sort by asset count. *)
order_maps_by_asset_count(maps) ==
  LET count(m) == Cardinality(AssetsOf(maps[m].assets))
      order == SetToSortSeq(DOMAIN maps, LAMBDA m, n :
                 count(m) < count(n) \/ (count(m) = count(n) /\ m < n))
  IN [i \in DOMAIN maps |-> maps[order[i]]]

MinAdas(maps) == [m \in DOMAIN maps |-> compute_min_ada_required(maps[m].assets)]

(* The number of leading empty maps that are dropped for want of ada: the *)
(* last map always stays.                                                 *)
drop_underfunded_empty_maps(maps, available) ==
  LET required(k) == SumSeq(SubSeq(MinAdas(maps), k + 1, Len(maps)))
      stop(k)     == \/ available >= required(k)
                     \/ k = Len(maps) - 1
                     \/ AssetsOf(maps[k + 1].assets) # {}
  IN CHOOSE k \in 0 .. Len(maps) - 1 : stop(k) /\ \A j \in 0 .. k - 1 : ~stop(j)

(* Every map gets its min-ADA and its share of the rest, in proportion to *)
(* the weights, or all of it in the last map when no map has a weight.    *)
emit_change_outputs(maps, available) ==
  LET mins    == MinAdas(maps)
      rest    == available - SumSeq(mins)
      weights == [m \in DOMAIN maps |-> maps[m].weight]
      shares  == IF SumSeq(weights) = 0
                 THEN [m \in DOMAIN maps |-> IF m = Len(maps) THEN rest ELSE 0]
                 ELSE partition(rest, weights)
  IN [m \in DOMAIN maps |-> WithCoin(maps[m].assets, mins[m] + shares[m])]

-----------------------------------------------------------------------------
(* random_improve_coin_selector.c *)

Insufficient == [ok |-> FALSE, outputs |-> <<>>]
Change(outs) == [ok |-> TRUE, outputs |-> outs]

(* make_change: sel is the sequence of selected values, outs that of the *)
(* user's outputs.                                                       *)
make_change(sel, target, outs) ==
  LET excess == value_subtract(SumValues(sel), target)
      maps   == ChangeMaps(sel, outs, excess)
      exact  == excess[Ada] = 0 /\ \A m \in DOMAIN maps : AssetsOf(maps[m].assets) = {}
      sorted == order_maps_by_asset_count(split_oversized_maps(maps))
      first  == drop_underfunded_empty_maps(sorted, excess[Ada])
      kept   == SubSeq(sorted, first + 1, Len(sorted))
  IN CASE ~value_is_non_negative(excess) -> Insufficient
       [] value_is_non_negative(excess) /\ exact -> Change(<<>>)
       [] value_is_non_negative(excess) /\ ~exact /\ excess[Ada] < SumSeq(MinAdas(kept))
            -> Insufficient
       [] OTHER -> Change(emit_change_outputs(kept, excess[Ada]))
=============================================================================
