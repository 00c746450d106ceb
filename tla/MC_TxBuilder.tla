---------------------------- MODULE MC_TxBuilder ----------------------------
(***************************************************************************)
(* Instances of TxBuilder: programs that call the builder.  A program has  *)
(* a set of calls that it makes in any order, and a number of them, so     *)
(* that one run covers short programs of many methods and long ones that   *)
(* configure the builder and build.                                        *)
(***************************************************************************)
EXTENDS TxBuilder

Item(op, i, given) == [op |-> op, item |-> <<i>>, redeemer |-> given, datum |-> FALSE]
Cred(op, type, hash, given) == [op |-> op, item |-> <<type, hash>>, redeemer |-> given]
Setup == {[op |-> "config", item |-> f] :
            f \in {"change_address", "available_utxos", "collateral_address", "collateral_utxos"}}

(* Two Plutus scripts around a policy that is minted without a redeemer and with one. *)
Mints == {Item("mint", 1, "literal"), Item("mint", 2, "null"), Item("mint", 2, "literal"),
          Item("mint", 2, "callback"), Item("mint", 3, "literal")}

(* A committee key, a committee script and a script DRep. *)
Votes == {Cred("vote", 0, 7, "null"), Cred("vote", 1, 4, "literal"), Cred("vote", 3, 2, "callback")}

Certificates == {Item("certificate", 1, "null"), Item("certificate", 2, "callback")}

Proposals == {[op |-> "propose", item |-> <<1>>, guarded |-> FALSE],
              [op |-> "propose", item |-> <<2>>, guarded |-> TRUE]}

(* Two Plutus scripts, a native one and a key. *)
Withdrawals == {Cred("withdraw", 1, 5, "literal"), Cred("withdraw", 1, 3, "null"),
                Cred("withdraw", 1, 6, "callback"), Cred("withdraw", 0, 9, "null")}

ItemCalls == Mints \cup Votes \cup Certificates \cup Proposals \cup Withdrawals

BuildCalls ==
  Setup \cup
  {[op |-> "input", item |-> <<2>>, redeemer |-> "callback", datum |-> TRUE],
   [op |-> "input", item |-> <<4>>, redeemer |-> "null", datum |-> FALSE],
   Item("certificate", 2, "callback"), Item("certificate", 3, "callback"),
   [op |-> "script", language |-> "v1"], [op |-> "reference", language |-> "v3"],
   [op |-> "reference", language |-> "native"],
   [op |-> "output"], [op |-> "datum"], [op |-> "field", item |-> "donation"]}

AllCalls == ItemCalls \cup BuildCalls

Wallet == {<<1>>, <<3>>}

CONSTANT Programs

(* Programs that collect items, and programs that spend from scripts and build. *)
CollectOrBuild == {[calls |-> ItemCalls, length |-> 5], [calls |-> BuildCalls, length |-> 7]}

Withdraw == {[calls |-> Withdrawals, length |-> 4]}

VARIABLE program

MCInit == Init /\ program \in Programs

MCNext ==
  /\ UNCHANGED program
  /\ \/ /\ calls < program.length
        /\ (\E c \in program.calls : Method(c)) \/ BuildFails \/ Build \/ BuildAgain
     \/ Finished
     \/ calls = program.length /\ UNCHANGED vars

MCSpec == MCInit /\ [][MCNext]_<<vars, program>>
=============================================================================
