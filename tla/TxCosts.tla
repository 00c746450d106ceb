------------------------------- MODULE TxCosts -------------------------------
(***************************************************************************)
(* What a transaction costs and brings in besides its inputs and outputs:  *)
(* the implicit coin (implicit_coin.c), the keys that will sign it         *)
(* (unique_signers.c), its fee (fee.c, compute_vk_witnesses_cost) and its  *)
(* collateral (collateral.c).                                              *)
(*                                                                         *)
(* A transaction is two records.  The fixed part, what its author put      *)
(* there, has the fields withdrawals, certificates, proposals, donation,   *)
(* mint, required_signers, voters, foreign_signature_count, owner and      *)
(* ref_fee; the part that balancing fills in has inputs, outputs, fee,     *)
(* collateral, collateral_return and redeemers.  A key of 0 stands for a   *)
(* credential that is not a key.                                           *)
(***************************************************************************)
EXTENDS SelectionContract

CONSTANTS
  KeyDeposit, PoolDeposit,   \* protocol deposits
  MinFeeA, MinFeeB,          \* fee per size unit, and the constant part
  WitnessSize,               \* size of a verification-key witness
  HeaderStep,                \* most elements of a one-byte array header
  CoinStep,                  \* least coin whose encoding takes a unit more
  ExPrice,                   \* price of an execution unit
  CollateralPercentage, DefaultCollateral

ASSUME CostsAssumption ==
  /\ {KeyDeposit, PoolDeposit, MinFeeA, MinFeeB, WitnessSize, HeaderStep} \subseteq Nat
  /\ {CoinStep, ExPrice, CollateralPercentage, DefaultCollateral} \subseteq Nat

SumNumbers(ns) == FoldLeft(LAMBDA m, n : m + n, 0, ns)

-----------------------------------------------------------------------------
(* Implicit coin *)

(* The certificates that pay a deposit and those that get one back. *)
Depositing ==
  {"stake_registration", "pool_registration", "registration", "stake_registration_delegation",
   "vote_registration_delegation", "stake_vote_registration_delegation", "drep_registration"}
Refunding ==
  {"stake_deregistration", "pool_retirement", "unregistration", "drep_unregistration"}

(* The Shelley certificates go by the protocol parameters, the Conway ones *)
(* carry their deposit.                                                    *)
DepositOf(c) ==
  CASE c.kind \in {"stake_registration", "stake_deregistration"} -> KeyDeposit
    [] c.kind \in {"pool_registration", "pool_retirement"}       -> PoolDeposit
    [] OTHER                                                     -> c.deposit

(* The deposits of the certificates of some kinds. *)
DepositsOf(cs, kinds) ==
  SumNumbers([i \in DOMAIN cs |-> IF cs[i].kind \in kinds THEN DepositOf(cs[i]) ELSE 0])

compute_withdrawals(tx) == SumNumbers([i \in DOMAIN tx.withdrawals |-> tx.withdrawals[i].amount])
compute_deposits(tx)    == DepositsOf(tx.certificates, Depositing) + SumNumbers(tx.proposals)
compute_reclaims(tx)    == DepositsOf(tx.certificates, Refunding)

(* What the transaction brings in by itself, given its fee. *)
implicit_value(tx, fee) ==
  WithCoin(tx.mint, compute_withdrawals(tx) + compute_reclaims(tx)
                      - (compute_deposits(tx) + fee + tx.donation))

-----------------------------------------------------------------------------
(* Signers *)

input_signers(tx, ids)  == {tx.owner[ids[i]] : i \in DOMAIN ids}
withdrawal_signers(tx)  == {tx.withdrawals[i].key : i \in DOMAIN tx.withdrawals}

(* A plain stake registration needs no signature; a pool registration wants *)
(* those of all owners, every other certificate that of its credential.     *)
Unsigned == {"stake_registration", "genesis_key_delegation", "move_instantaneous_rewards"}

certificate_signers(tx) ==
  UNION {tx.certificates[i].keys :
           i \in {j \in DOMAIN tx.certificates : tx.certificates[j].kind \notin Unsigned}}

get_unique_signers(tx, b) ==
  (tx.required_signers \cup input_signers(tx, b.inputs) \cup input_signers(tx, b.collateral)
     \cup withdrawal_signers(tx) \cup certificate_signers(tx) \cup tx.voters) \ {0}

-----------------------------------------------------------------------------
(* Fee *)

coin_size(c) == IF c < CoinStep THEN 1 ELSE 2

(* The serialized size: an input takes one unit, an output one and one more *)
(* for each asset and for a wide coin.                                      *)
output_size(v)   == Cardinality(AssetsOf(v)) + coin_size(v[Ada])
outputs_size(vs) == SumNumbers([i \in DOMAIN vs |-> output_size(vs[i])])

transaction_size(b) ==
  Len(b.inputs) + Len(b.collateral) + coin_size(b.fee)
    + outputs_size(b.outputs) + outputs_size(b.collateral_return)
    + SumNumbers([r \in DOMAIN b.redeemers |-> b.redeemers[r].size])

compute_min_script_fee(tx, b) ==
  IF b.redeemers = <<>> THEN 0
  ELSE ExPrice * SumNumbers([r \in DOMAIN b.redeemers |-> b.redeemers[r].ex_units]) + tx.ref_fee

compute_transaction_fee(tx, b) ==
  compute_min_script_fee(tx, b) + MinFeeB + MinFeeA * transaction_size(b)

cbor_array_header_size(n) == IF n <= HeaderStep THEN 1 ELSE 2

compute_vk_witnesses_cost(n) ==
  (1 + cbor_array_header_size(n) + WitnessSize * n) * MinFeeA

(* The fee that the balancer asks of a transaction that is not signed yet. *)
required_fee(tx, b) ==
  compute_transaction_fee(tx, b)
    + compute_vk_witnesses_cost(tx.foreign_signature_count
                                  + Cardinality(get_unique_signers(tx, b)))

-----------------------------------------------------------------------------
(* Collateral *)

(* The percentage of the fee, rounded up. *)
calculate_collateral_amount(fee) ==
  IF fee = 0 \/ CollateralPercentage = 0 THEN DefaultCollateral
  ELSE (fee * CollateralPercentage + 99) \div 100

-----------------------------------------------------------------------------
(* cardano_is_transaction_balanced: outputs less inputs less the implicit  *)
(* value, which counts the fee, leave nothing; the inputs' values come     *)
(* from the first resolved UTXO with that identity.                        *)
ValueOf(resolved, id) ==
  LET at == Min({i \in DOMAIN resolved : resolved[i].id = id})
  IN  resolved[at].val

(* Mutant: only the coin is compared. *)
is_coin_balanced(tx, b, resolved) ==
  LET ins  == SumValues([i \in DOMAIN b.inputs |-> ValueOf(resolved, b.inputs[i])])
      outs == SumValues(b.outputs)
      diff == value_subtract(outs, ins)
  IN  value_subtract(diff, implicit_value(tx, b.fee))[Ada] = 0

is_transaction_balanced(tx, b, resolved) ==
  LET ins  == SumValues([i \in DOMAIN b.inputs |-> ValueOf(resolved, b.inputs[i])])
      outs == SumValues(b.outputs)
      diff == value_subtract(outs, ins)
  IN  value_subtract(diff, implicit_value(tx, b.fee)) = ZeroValue
=============================================================================
