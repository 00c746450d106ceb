---------------------------- MODULE MC_Balancing -----------------------------
(***************************************************************************)
(* Instances of Balancing: transfers, mints, burns, certificates and       *)
(* withdrawals with and without scripts, a few UTXOs to pay from, and      *)
(* collateral that leaves change in one round and none in another.  Values *)
(* are tuples of the asset's quantity, then the lovelace.                  *)
(***************************************************************************)
EXTENDS Balancing

Plain == [outputs |-> << <<0, 6>> >>, mint |-> <<0, 0>>, withdrawals |-> <<>>,
          certificates |-> <<>>, proposals |-> <<>>, donation |-> 0]

Certified ==
  [Plain EXCEPT
     !.certificates = <<[kind |-> "stake_registration", deposit |-> 0, keys |-> {7}],
                        [kind |-> "drep_unregistration", deposit |-> 3, keys |-> {8}]>>,
     !.withdrawals = <<[amount |-> 4, key |-> 8]>>,
     !.proposals = <<1>>,
     !.donation = 1]

Contents == {Plain, Certified,
             [Plain EXCEPT !.outputs = << <<1, 5>> >>, !.mint = <<1, 0>>],
             [Plain EXCEPT !.mint = <<-1, 0>>]}

Of(id, val) == [id |-> id, val |-> val]

FirstScript  == Of(2, <<1, 9>>)
SecondScript == Of(7, <<0, 3>>)

SmallAvailable == {<<Of(1, <<0, 30>>), Of(3, <<1, 12>>)>>,
                   <<Of(1, <<1, 90>>), Of(3, <<0, 7>>), Of(4, <<0, 12>>)>>}

OneAvailable   == {<<Of(1, <<0, 30>>), Of(3, <<1, 12>>)>>}

NoCollateral   == {<<>>}
SomeCollateral == {<<Of(5, <<0, 42>>)>>, <<Of(5, <<0, 26>>), Of(6, <<1, 12>>)>>}

Spend(input, deferred) == [tag |-> "spend", input |-> input, index |-> 0, deferred |-> deferred]
Minting(deferred)      == [tag |-> "mint", input |-> 0, index |-> 0, deferred |-> deferred]
SomeScripts == {<<Spend(2, FALSE)>>, <<Spend(2, TRUE)>>, <<Spend(2, TRUE), Minting(TRUE)>>,
                <<Spend(7, FALSE), Spend(2, TRUE), Minting(FALSE)>>}

FewScripts == {<<>>, <<Spend(2, TRUE)>>}

(* The UTXOs of scripts are pre-selected, in the order their redeemers were added. *)
PreSelected(rs) ==
  IF \E i \in DOMAIN rs : rs[i].input = 7 THEN <<SecondScript, FirstScript>> ELSE <<FirstScript>>

RequestsWith(fees, available, collateral, scripts, evaluators, honesty) ==
  {[outputs |-> c.outputs, mint |-> c.mint, withdrawals |-> c.withdrawals,
    certificates |-> c.certificates, proposals |-> c.proposals, donation |-> c.donation,
    required_signers |-> {}, voters |-> {}, foreign_signature_count |-> 0,
    owner |-> [id \in 1 .. 7 |-> IF id \in {2, 7} THEN 0 ELSE IF id <= 3 THEN 7 ELSE id],
    ref_fee |-> 1, fee |-> f, pre |-> PreSelected(rs), available |-> a, collateral_utxo |-> cs,
    redeemers |-> rs, evaluator |-> e, honest |-> h] :
      c \in Contents, f \in fees, a \in available,
      cs \in collateral, rs \in scripts, e \in evaluators, h \in honesty}

(* Script transactions with a selector that keeps its contract, and a few of *)
(* them with one that may answer anything, with and without an evaluator.    *)
MCRequests ==
  RequestsWith({0}, SmallAvailable, SomeCollateral, SomeScripts, {TRUE}, {TRUE})
    \cup RequestsWith({0, 60}, OneAvailable, NoCollateral, FewScripts, BOOLEAN, BOOLEAN)
=============================================================================
