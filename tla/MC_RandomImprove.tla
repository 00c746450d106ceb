-------------------------- MODULE MC_RandomImprove --------------------------
(***************************************************************************)
(* Instances of RandomImprove: every pool of up to MaxPool UTXOs drawn     *)
(* from a few ledger-valid values, every pre-selected prefix, and targets  *)
(* built from user outputs, a fee or a withdrawal, and a mint or a burn.   *)
(* Values are tuples of the quantities of two native assets, then the      *)
(* lovelace, so that a UTXO can hold three tokens.                         *)
(***************************************************************************)
EXTENDS RandomImprove

CONSTANTS MaxPool, MaxPre, Multipliers, UtxoValues, UserOutputs, Implicit

UtxoSamples == {<<0, 0, 2>>, <<0, 0, 5>>, <<1, 0, 3>>, <<1, 1, 6>>}

(* Every entry of a pool is a UTXO of its own. *)
Pools ==
  UNION {{[i \in 1 .. n |-> [id |-> i, val |-> v[i]]] : v \in [1 .. n -> UtxoValues]} :
           n \in 0 .. MaxPool}

OutputLists ==
  {<<>>, <<<<0, 0, 2>>>>, <<<<1, 0, 3>>>>, <<<<1, 1, 4>>>>, <<<<1, 0, 3>>, <<0, 1, 3>>>>,
   <<<<0, 0, 2>>, <<1, 0, 4>>>>}

(* Fee less withdrawals, and assets burnt less assets minted. *)
ImplicitValues == {<<0, 0, 1>>, <<1, 0, 1>>, <<0, -1, 1>>, <<0, 0, -4>>}

MCRequests ==
  {r \in [pool : Pools, pre : 0 .. MaxPre, outs : UserOutputs,
          target : {value_add(SumValues(o), i) : o \in UserOutputs, i \in Implicit},
          multiplier : Multipliers,
          memory : {"plenty", "scarce"}] :
     /\ r.pre <= Len(r.pool)
     /\ \E i \in Implicit : r.target = value_add(SumValues(r.outs), i)}
=============================================================================
