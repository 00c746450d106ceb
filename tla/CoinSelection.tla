---------------------------- MODULE CoinSelection ----------------------------
(***************************************************************************)
(* What a coin selector promises its caller, the balancer: the contract of *)
(* cardano_coin_select_func_t in coin_selector_impl.h and of the wrapper   *)
(* cardano_coin_selector_select.  A call either fails or answers with any  *)
(* selection, remaining list and change outputs that satisfy the contract. *)
(* Both selectors of the library are shown to implement it.                *)
(***************************************************************************)
EXTENDS SelectionContract

VARIABLES
  req,        \* the request: pre-selected and available UTXOs, and the target
  status,     \* "pending", "ok" or "failed"
  selection,  \* the selected UTXOs
  remaining,  \* the UTXOs left
  change      \* the values of the change outputs

vars == <<req, status, selection, remaining, change>>

Contract ==
  /\ LocallyBalanced(selection, change, req.target)
  /\ ChangeCompliant(change)
  /\ Partitioned(req.pre, req.available, selection, remaining)

Init ==
  /\ status = "pending"
  /\ selection = <<>>
  /\ remaining = <<>>
  /\ change = <<>>

Succeed ==
  /\ status = "pending"
  /\ status' = "ok"
  /\ req' = req
  /\ Contract'

Fail ==
  /\ status = "pending"
  /\ status' = "failed"
  /\ UNCHANGED <<req, selection, remaining, change>>

Next == Succeed \/ Fail

Spec == Init /\ [][Next]_vars
=============================================================================
