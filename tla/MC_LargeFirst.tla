---------------------------- MODULE MC_LargeFirst ----------------------------
(***************************************************************************)
(* Instances of LargeFirst: every list of up to MaxAvailable available     *)
(* UTXOs over a few ledger-valid values, none or one pre-selected UTXO,    *)
(* which may also be among the available ones, and every target that user  *)
(* outputs, a fee or a withdrawal, and a mint or a burn give rise to.      *)
(* Values are tuples of the native assets' quantities, then the lovelace.  *)
(***************************************************************************)
EXTENDS LargeFirst

CONSTANTS MaxAvailable, UtxoValues, Targets

OneAssetUtxos == {<<0, 2>>, <<0, 5>>, <<1, 3>>, <<2, 6>>}
TwoAssetUtxos == {<<0, 0, 2>>, <<1, 0, 3>>, <<2, 0, 6>>, <<0, 1, 4>>}

TwoAssetTargets ==
  {<<0, 0, 0>>, <<0, 0, 1>>, <<0, 0, 9>>, <<1, 0, -2>>, <<3, 0, -2>>, <<1, 1, 3>>, <<0, 1, 5>>,
   <<2, -1, 3>>, <<0, 0, -3>>, <<-1, 0, 4>>}

(* A mint paid for by a withdrawal. *)
MintTargets == {<<-1, 0>>, <<-1, -3>>, <<-1, 3>>}

AvailableLists ==
  UNION {{[i \in 1 .. n |-> [id |-> i, val |-> v[i]]] : v \in [1 .. n -> UtxoValues]} :
           n \in 0 .. MaxAvailable}

(* No pre-selected UTXO, a UTXO of its own, or the first available one. *)
PreLists(available) ==
  {<<>>} \cup {<<[id |-> 9, val |-> v]>> : v \in UtxoValues}
         \cup {<<available[i]>> : i \in DOMAIN available \cap {1}}

MCRequests ==
  UNION {[pre : PreLists(a), available : {a}, target : Targets] : a \in AvailableLists}
=============================================================================
