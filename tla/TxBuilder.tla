------------------------------ MODULE TxBuilder ------------------------------
(***************************************************************************)
(* The transaction builder (transaction_builder.c and internals/): a       *)
(* sequence of calls of its methods by the program that uses it.           *)
(*                                                                         *)
(* A method records its first failure and turns every later call into a    *)
(* no-op.  Items that scripts may have to validate (spent inputs, minted   *)
(* policies, withdrawals, votes, certificates, proposals) come with an     *)
(* optional redeemer, literal or produced by a callback during balancing.  *)
(* A redeemer names its item by the position it has in the transaction, so *)
(* the builder keeps those positions right while items arrive in any order.*)
(*                                                                         *)
(* The transaction is shared: build hands out a reference to the one the   *)
(* builder works on.  Balancing itself is module Balancing; here a call of *)
(* cardano_balance_transaction either fails or lays out the inputs.        *)
(***************************************************************************)
EXTENDS Naturals, Sequences, FiniteSets, Functions, SequencesExt, Orders

CONSTANTS
  Calls,       \* the calls the program may make
  WalletIds,   \* the inputs the coin selector may add
  CostModels,  \* the Plutus versions the protocol parameters have a cost model for
  MaxCalls     \* bound on the number of calls

Versions == {"v1", "v2", "v3"}

(* The bytes that identify an item: a hash, or the type (the value of the C *)
(* enum) and the hash of a credential or a voter.                           *)
Identity == [1..1 -> Nat]
Credential == Nat \X Nat

ScriptHash == 1   \* CARDANO_CREDENTIAL_TYPE_SCRIPT_HASH

(* What the setters of the builder and of the transaction body set. *)
ConfigFields == {"change_address", "available_utxos", "collateral_address", "collateral_utxos",
                 "coin_selector", "tx_evaluator", "additional_signature_count"}
BodyFields == {"network_id", "fee", "donation", "invalid_before", "invalid_after", "auxiliary_data", "guards"}

(* How a call gives the redeemer of its item. *)
Given == {"null", "literal", "callback"}

ASSUME CallsAssumption ==
  \A c \in Calls :
    /\ c.op \in {"config", "field", "output", "input", "reference", "mint", "withdraw", "vote",
                 "certificate", "propose", "datum", "script"}
    /\ c.op \in {"input", "mint", "certificate", "propose"} => c.item \in Identity
    /\ c.op \in {"withdraw", "vote"} => c.item \in Credential
    /\ c.op \in {"input", "mint", "withdraw", "vote", "certificate"} => c.redeemer \in Given
    /\ c.op = "config" => c.item \in ConfigFields
    /\ c.op = "field" => c.item \in BodyFields
    /\ c.op = "input" => c.datum \in BOOLEAN
    /\ c.op = "propose" => c.guarded \in BOOLEAN
    /\ c.op \in {"reference", "script"} => c.language \in Versions \cup {"native"}
ASSUME BoundsAssumption ==
  /\ WalletIds \subseteq Identity /\ IsFiniteSet(WalletIds)
  /\ CostModels \subseteq Versions /\ MaxCalls \in Nat

VARIABLES
  last_error,    \* builder->last_error
  config,        \* the fields of the state that a setter has filled
  body,          \* the transaction body
  redeemers,     \* the redeemers of the witness set, in the order they were added: the
                 \* list is kept sorted (redeemer_list.c:632), and no place in it is used
  datums,        \* the number of datums of the witness set
  maps,          \* the maps from sortable ids to redeemers, 0 for a NULL redeemer
  inputs,        \* pre_selected_inputs with the redeemer of each, 0 for none
  deferred,      \* the redeemers a callback is registered for
  languages,     \* has_plutus_v1, has_plutus_v2, has_plutus_v3
  result,        \* what the last call of build returned
  supplied,      \* history: the items some call gave a redeemer for
  first_failure, \* history: how the first failing call failed
  calls          \* the number of calls so far

tx    == <<body, redeemers, datums>>
state == <<config, maps, inputs, deferred, languages>>
vars  == <<last_error, tx, state, result, supplied, first_failure, calls>>

NoHash == [kind |-> "none", covers |-> <<>>]

Init ==
  /\ last_error = "success"
  /\ config = {}
  /\ body = [mint |-> {}, withdrawals |-> <<>>, votes |-> {}, certificates |-> <<>>, proposals |-> <<>>,
             fields |-> {}, outputs |-> 0, reference_inputs |-> 0, inputs |-> <<>>, script_data_hash |-> NoHash]
  /\ redeemers = <<>>
  /\ datums = 0
  /\ maps = [tag \in {"mint", "reward", "vote"} |-> <<>>]
  /\ inputs = <<>>
  /\ deferred = {}
  /\ languages = {}
  /\ result = "none"
  /\ supplied = {}
  /\ first_failure = "none"
  /\ calls = 0

-----------------------------------------------------------------------------
(* Mutant: methods that go on after an error. *)
AlwaysReady == calls < MaxCalls

(* Every method starts with this test. *)
Ready == last_error = "success" /\ calls < MaxCalls

(* track_builder_result *)
Track(error) ==
  /\ last_error' = IF error = "success" THEN last_error ELSE error
  /\ first_failure' = IF error = "success" \/ first_failure # "none" THEN first_failure ELSE error
  /\ calls' = calls + 1

-----------------------------------------------------------------------------
(* compare_by_bytes on ids of one length. *)
Before(a, b) == \E i \in DOMAIN a : a[i] < b[i] /\ \A j \in 1..(i - 1) : a[j] = b[j]

(* cardano_array_sort with compare_by_bytes: the items in the order of their *)
(* bytes, and of their places where the bytes are the same.                  *)
InByteOrder(items, bytes) ==
  LET below(i, j) == Before(bytes[i], bytes[j]) \/ (bytes[i] = bytes[j] /\ i < j)
      order == InOrder(DOMAIN items, {p \in (DOMAIN items) \X (DOMAIN items) : below(p[1], p[2])})
  IN  [n \in DOMAIN items |-> items[order[n]]]

(* The position of a key in the sorted array of keys. *)
Position(key, keys) == Cardinality({k \in keys : Before(k, key)})

(* The index update that ends cardano_blake2b_hash_to_redeemer_map_insert. *)
Reindexed(rs, map) ==
  [r \in DOMAIN rs |->
     IF \E key \in DOMAIN map : map[key] = r
     THEN [rs[r] EXCEPT !.index = Position(CHOOSE key \in DOMAIN map : map[key] = r, DOMAIN map)]
     ELSE rs[r]]

(* cardano_blake2b_hash_to_redeemer_map_insert of a key the map does not have. *)
WithKey(map, key, r) == [k \in DOMAIN map \cup {key} |-> IF k = key THEN r ELSE map[k]]

NewRedeemer(tag, item, index, given) ==
  [tag |-> tag, item |-> item, index |-> index,
   data |-> IF given = "callback" THEN "placeholder" ELSE "literal"]

(* cardano_builder_add_redeemer, or the insertion of a NULL redeemer: a key the *)
(* map has already keeps what it has, and a new redeemer is dropped.            *)
AddRedeemer(tag, item, given) ==
  LET new == WithKey(maps[tag], item, IF given = "null" THEN 0 ELSE Len(redeemers) + 1)
      rs  == IF given = "null" THEN redeemers
                               ELSE Append(redeemers, NewRedeemer(tag, item, 0, given))
  IN IF item \in DOMAIN maps[tag]
     THEN UNCHANGED <<redeemers, maps>>
     ELSE /\ maps' = [maps EXCEPT ![tag] = new]
          /\ redeemers' = Reindexed(rs, new)

(* cardano_builder_register_deferred_from_map: a callback is registered for the  *)
(* redeemer that the map now has for the item, and a NULL one is an error.       *)
RegisterDeferred(tag, item, given) ==
  \/ given # "callback" /\ UNCHANGED deferred /\ Track("success")
  \/ /\ given = "callback"
     /\ maps'[tag][item] # 0
     /\ deferred' = deferred \cup {maps'[tag][item]}
     /\ Track("success")
  \/ /\ given = "callback"
     /\ maps'[tag][item] = 0
     /\ UNCHANGED deferred
     /\ Track("pointer_is_null")

(* History: the call supplied a redeemer for the item. *)
Supply(tag, item, given) ==
  supplied' = IF given = "null" THEN supplied ELSE supplied \cup {<<tag, item>>}

-----------------------------------------------------------------------------
(* The methods.  Setters of the builder: change address, UTXOs, collateral, coin *)
(* selector and evaluator (which have defaults), number of extra signatures.     *)
Configure(c) ==
  /\ Ready
  /\ c.op = "config"
  /\ config' = config \cup {c.item}
  /\ Track("success")
  /\ UNCHANGED <<tx, maps, inputs, deferred, languages, result, supplied>>

(* A NULL or malformed argument: the method fails before it changes anything. *)
InvalidArgument(c) ==
  /\ Ready
  /\ Track("invalid_argument")
  /\ UNCHANGED <<tx, state, result, supplied>>

(* Setters of the body: network, least fee, donation, validity, metadata, signers. *)
SetBodyField(c) ==
  /\ Ready
  /\ c.op = "field"
  /\ body' = [body EXCEPT !.fields = @ \cup {c.item}]
  /\ Track("success")
  /\ UNCHANGED <<redeemers, datums, state, result, supplied>>

(* Mutant: outputs are added without a look at the error. *)
AddOutputAlways(c) ==
  /\ calls < MaxCalls
  /\ c.op = "output"
  /\ body' = [body EXCEPT !.outputs = @ + 1]
  /\ Track("success")
  /\ UNCHANGED <<redeemers, datums, state, result, supplied>>

AddOutput(c) ==
  /\ Ready
  /\ c.op = "output"
  /\ body' = [body EXCEPT !.outputs = @ + 1]
  /\ Track("success")
  /\ UNCHANGED <<redeemers, datums, state, result, supplied>>

(* The first entry of the input-to-redeemer map for an input. *)
FirstRedeemer(ins, id) ==
  LET entries == {i \in DOMAIN ins : ins[i].id = id /\ ins[i].redeemer # 0}
  IN  ins[CHOOSE i \in entries : \A j \in entries : i <= j].redeemer

(* An input may come with a redeemer and with a datum.  Neither the inputs nor *)
(* the map are searched for an earlier entry of the same input.                *)
AddInput(c) ==
  /\ Ready
  /\ c.op = "input"
  /\ redeemers' = IF c.redeemer = "null" THEN redeemers
                  ELSE Append(redeemers, NewRedeemer("spend", c.item, 0, c.redeemer))
  /\ inputs' = Append(inputs, [id |-> c.item,
                               redeemer |-> IF c.redeemer = "null" THEN 0 ELSE Len(redeemers) + 1])
  /\ deferred' = IF c.redeemer = "callback" THEN deferred \cup {FirstRedeemer(inputs', c.item)} ELSE deferred
  /\ datums' = IF c.datum THEN datums + 1 ELSE datums
  /\ Supply("spend", c.item, c.redeemer)
  /\ Track("success")
  /\ UNCHANGED <<body, config, maps, languages, result>>

AddReferenceInput(c) ==
  /\ Ready
  /\ c.op = "reference"
  /\ body' = [body EXCEPT !.reference_inputs = @ + 1]
  /\ languages' = languages \cup ({c.language} \cap Versions)
  /\ Track("success")
  /\ UNCHANGED <<redeemers, datums, config, maps, inputs, deferred, result, supplied>>

(* Mutant: a policy without a redeemer takes no place in the map. *)
MintTokenOfPlutus(c) ==
  /\ Ready
  /\ c.op = "mint"
  /\ body' = [body EXCEPT !.mint = @ \cup {c.item}]
  /\ \/ c.redeemer = "null" /\ UNCHANGED <<redeemers, maps>>
     \/ c.redeemer # "null" /\ AddRedeemer("mint", c.item, c.redeemer)
  /\ RegisterDeferred("mint", c.item, c.redeemer)
  /\ Supply("mint", c.item, c.redeemer)
  /\ UNCHANGED <<datums, config, inputs, languages, result>>

MintToken(c) ==
  /\ Ready
  /\ c.op = "mint"
  /\ body' = [body EXCEPT !.mint = @ \cup {c.item}]
  /\ AddRedeemer("mint", c.item, c.redeemer)
  /\ RegisterDeferred("mint", c.item, c.redeemer)
  /\ Supply("mint", c.item, c.redeemer)
  /\ UNCHANGED <<datums, config, inputs, languages, result>>

(* A withdrawal map is sorted by the bytes of the reward address, whose header *)
(* byte is larger for a script hash, and may hold an address twice.            *)
address_bytes(credential) == <<14 + credential[1], credential[2]>>

InsertWithdrawal(ws, w) ==
  LET all == Append(ws, w)
  IN  InByteOrder(all, [i \in DOMAIN all |-> address_bytes(all[i])])

(* Without a redeemer only a script hash takes a place in the map, and taking *)
(* one twice is an error, unlike for a policy or a voter.                     *)
WithdrawRewards(c) ==
  LET plain == c.redeemer = "null" /\ c.item[1] # ScriptHash
      twice == c.redeemer = "null" /\ ~plain /\ c.item \in DOMAIN maps["reward"]
  IN /\ Ready
     /\ c.op = "withdraw"
     /\ body' = [body EXCEPT !.withdrawals = InsertWithdrawal(@, c.item)]
     /\ \/ plain /\ Track("success") /\ UNCHANGED <<redeemers, maps, deferred>>
        \/ twice /\ Track("duplicated_key") /\ UNCHANGED <<redeemers, maps, deferred>>
        \/ /\ ~plain
           /\ ~twice
           /\ AddRedeemer("reward", c.item, c.redeemer)
           /\ RegisterDeferred("reward", c.item, c.redeemer)
     /\ Supply("reward", c.item, c.redeemer)
     /\ UNCHANGED <<datums, config, inputs, languages, result>>

Vote(c) ==
  /\ Ready
  /\ c.op = "vote"
  /\ body' = [body EXCEPT !.votes = @ \cup {c.item}]
  /\ AddRedeemer("vote", c.item, c.redeemer)
  /\ RegisterDeferred("vote", c.item, c.redeemer)
  /\ Supply("vote", c.item, c.redeemer)
  /\ UNCHANGED <<datums, config, inputs, languages, result>>

(* Mutant: the certificate is looked up at the position of the one before it. *)
AddCertificateOffByOne(c) ==
  LET index == Len(body.certificates)
      own   == {r \in DOMAIN redeemers' : redeemers'[r].tag = "certifying" /\ redeemers'[r].index <= index}
  IN /\ Ready
     /\ c.op = "certificate"
     /\ body' = [body EXCEPT !.certificates = Append(@, c.item)]
     /\ redeemers' = IF c.redeemer = "null" THEN redeemers
                     ELSE Append(redeemers, NewRedeemer("certifying", c.item, index, c.redeemer))
     /\ deferred' = IF c.redeemer = "callback"
                    THEN deferred \cup {CHOOSE r \in own : \A q \in own : r <= q} ELSE deferred
     /\ Track("success")
     /\ Supply("certifying", c.item, c.redeemer)
     /\ UNCHANGED <<datums, config, maps, inputs, languages, result>>

(* A certificate that was added with a deferred redeemer is found again, to    *)
(* register its callback, by its position.                                     *)
RegisterCertificate(c, index) ==
  LET own == {r \in DOMAIN redeemers' : redeemers'[r].tag = "certifying" /\ redeemers'[r].index = index}
  IN deferred' = IF c.redeemer = "callback" THEN deferred \cup {CHOOSE r \in own : TRUE} ELSE deferred

AddCertificate(c) ==
  LET index == Len(body.certificates)
  IN /\ Ready
     /\ c.op = "certificate"
     /\ body' = [body EXCEPT !.certificates = Append(@, c.item)]
     /\ redeemers' = IF c.redeemer = "null" THEN redeemers
                     ELSE Append(redeemers, NewRedeemer("certifying", c.item, index, c.redeemer))
     /\ RegisterCertificate(c, index)
     /\ Track("success")
     /\ Supply("certifying", c.item, c.redeemer)
     /\ UNCHANGED <<datums, config, maps, inputs, languages, result>>

(* Proposals that the constitution guards (parameter changes and treasury *)
(* withdrawals) get an empty redeemer.                                    *)
Propose(c) ==
  /\ Ready
  /\ c.op = "propose"
  /\ body' = [body EXCEPT !.proposals = Append(@, c.item)]
  /\ redeemers' = IF c.guarded
                  THEN Append(redeemers, NewRedeemer("proposing", c.item, Len(body.proposals), "literal"))
                  ELSE redeemers
  /\ Track("success")
  /\ Supply("proposing", c.item, IF c.guarded THEN "literal" ELSE "null")
  /\ UNCHANGED <<datums, state, result>>

AddDatum(c) ==
  /\ Ready
  /\ c.op = "datum"
  /\ datums' = datums + 1
  /\ Track("success")
  /\ UNCHANGED <<body, redeemers, state, result, supplied>>

AddScript(c) ==
  /\ Ready
  /\ c.op = "script"
  /\ languages' = languages \cup ({c.language} \cap Versions)
  /\ Track("success")
  /\ UNCHANGED <<tx, config, maps, inputs, deferred, result, supplied>>

-----------------------------------------------------------------------------
(* Build *)

has_script_data == redeemers # <<>> \/ datums > 0

MissingConfig ==
  \/ ~({"change_address", "available_utxos"} \subseteq config)
  \/ has_script_data /\ ~({"collateral_address", "collateral_utxos"} \subseteq config)

DummyHash == IF has_script_data THEN [kind |-> "dummy", covers |-> <<>>] ELSE body.script_data_hash

(* The inputs of the body: what the program added and what the selector took. *)
LaidOut(taken) ==
  LET ids == [i \in DOMAIN inputs |-> inputs[i].id]
               \o InOrder(taken, {p \in taken \X taken : Before(p[1], p[2])})
  IN  InByteOrder(ids, ids)

(* cardano_input_to_redeemer_map_update_redeemer_index for every input in turn. *)
SpendIndex(r, laid) ==
  LET own == {i \in DOMAIN inputs : inputs[i].redeemer # 0 /\ FirstRedeemer(inputs, inputs[i].id) = r}
      at  == {i \in DOMAIN laid : \E o \in own : laid[i] = inputs[o].id}
  IN  IF own = {} THEN redeemers[r].index ELSE (CHOOSE i \in at : \A j \in at : j <= i) - 1

(* What a successful cardano_balance_transaction leaves of the redeemers. *)
Balanced(laid) ==
  [r \in DOMAIN redeemers |->
     [redeemers[r] EXCEPT !.index = SpendIndex(r, laid), !.data = IF r \in deferred THEN "resolved" ELSE @]]

(* A build fails for missing configuration, in balancing, or for want of a cost *)
(* model.  What balancing had done by then stays in a transaction that nobody   *)
(* gets, see module Balancing.                                                  *)
BuildFails ==
  /\ Ready
  /\ \/ /\ MissingConfig
        /\ UNCHANGED body
     \/ /\ ~MissingConfig
        /\ body' = [body EXCEPT !.script_data_hash = DummyHash]
  /\ result' = "build_failed"
  /\ Track("build_failed")
  /\ UNCHANGED <<redeemers, datums, state, supplied>>

(* Mutant: the hash is computed before balancing. *)
BuildHashesFirst ==
  /\ Ready
  /\ ~MissingConfig
  /\ has_script_data => languages \subseteq CostModels
  /\ \E taken \in SUBSET WalletIds :
       LET laid == LaidOut(taken)
       IN /\ redeemers' = Balanced(laid)
          /\ body' = [body EXCEPT !.inputs = laid,
                                  !.script_data_hash =
                                     IF has_script_data
                                     THEN [kind |-> "real", covers |-> <<redeemers, datums, languages>>]
                                     ELSE @]
  /\ result' = "success"
  /\ last_error' = "illegal_state"
  /\ calls' = calls + 1
  /\ UNCHANGED <<datums, state, supplied, first_failure>>

(* The placeholder of the script data hash is replaced after balancing, which *)
(* changes the redeemers; a build that succeeds closes the builder.           *)
Build ==
  /\ Ready
  /\ ~MissingConfig
  /\ has_script_data => languages \subseteq CostModels
  /\ \E taken \in SUBSET WalletIds :
       LET laid == LaidOut(taken)
       IN /\ redeemers' = Balanced(laid)
          /\ body' = [body EXCEPT !.inputs = laid,
                                  !.script_data_hash =
                                     IF has_script_data
                                     THEN [kind |-> "real", covers |-> <<redeemers', datums, languages>>]
                                     ELSE @]
  /\ result' = "success"
  /\ last_error' = "illegal_state"
  /\ calls' = calls + 1
  /\ UNCHANGED <<datums, state, supplied, first_failure>>

(* A build after an error, or after a build, returns what the builder holds. *)
BuildAgain ==
  /\ last_error # "success"
  /\ calls < MaxCalls
  /\ result' = last_error
  /\ calls' = calls + 1
  /\ UNCHANGED <<last_error, tx, state, supplied, first_failure>>

(* The program makes no more calls. *)
Finished == calls = MaxCalls /\ UNCHANGED vars

Method(c) ==
  \/ Configure(c) \/ SetBodyField(c) \/ InvalidArgument(c) \/ AddOutput(c)
  \/ AddInput(c) \/ AddReferenceInput(c)
  \/ MintToken(c) \/ WithdrawRewards(c) \/ Vote(c) \/ AddCertificate(c) \/ Propose(c)
  \/ AddDatum(c) \/ AddScript(c)

Next == (\E c \in Calls : Method(c)) \/ BuildFails \/ Build \/ BuildAgain \/ Finished

Spec == Init /\ [][Next]_vars
-----------------------------------------------------------------------------
HandedOut == result = "success" \/ last_error = "illegal_state"

Tag == {"spend", "mint", "reward", "vote", "certifying", "proposing"}

(* Type correctness of the builder. *)
TypeOK ==
  /\ last_error \in {"success", "invalid_argument", "pointer_is_null", "duplicated_key", "build_failed",
                     "illegal_state"}
  /\ config \subseteq ConfigFields
  /\ body.mint \subseteq Identity /\ body.votes \subseteq Credential
  /\ body.withdrawals \in Seq(Credential)
  /\ \A r \in DOMAIN redeemers :
       /\ redeemers[r].tag \in Tag
       /\ redeemers[r].index \in Nat
       /\ redeemers[r].data \in {"literal", "placeholder", "resolved"}
  /\ deferred \subseteq DOMAIN redeemers
  /\ \A tag \in DOMAIN maps : \A k \in DOMAIN maps[tag] : maps[tag][k] \in {0} \cup DOMAIN redeemers
  /\ languages \subseteq Versions
  /\ calls \in 0..MaxCalls

(* The order of the voters in the body, cardano_voter_compare. *)
voter_before(v, w) == v[1] < w[1] \/ (v[1] = w[1] /\ v[2] < w[2])

(* The items a redeemer points at, as resolve_script_hash finds them. *)
PointedAt(r) ==
  LET tag == redeemers[r].tag
      n   == redeemers[r].index
      At(items) == IF n < Len(items) THEN {items[n + 1]} ELSE {}
  IN CASE tag = "mint"       -> {p \in body.mint : Cardinality({q \in body.mint : q[1] < p[1]}) = n}
       [] tag = "vote"       -> {v \in body.votes : Cardinality({w \in body.votes : voter_before(w, v)}) = n}
       [] tag = "spend"      -> At(body.inputs)
       [] tag = "reward"     -> At(body.withdrawals)
       [] tag = "certifying" -> At(body.certificates)
       [] tag = "proposing"  -> At(body.proposals)

DistinctInputs ==
  /\ \A i, j \in DOMAIN inputs : inputs[i].id = inputs[j].id => i = j
  /\ \A i \in DOMAIN inputs : inputs[i].id \notin WalletIds

(* In whatever order items arrive, and with redeemers for some of them only, *)
(* the redeemer of a mint, a vote, a certificate or a proposal points at     *)
(* the item it was given for, at every moment.                               *)
PointersFindTheirItem ==
  \A r \in DOMAIN redeemers :
    redeemers[r].tag \in {"mint", "vote", "certifying", "proposing"} => PointedAt(r) = {redeemers[r].item}

(* In a transaction that is handed out, the redeemer of an input points at it, *)
(* if no input was added twice.                                                *)
SpendPointersFindTheirInput ==
  HandedOut /\ DistinctInputs =>
    \A r \in DOMAIN redeemers : redeemers[r].tag = "spend" => PointedAt(r) = {redeemers[r].item}

(* The redeemer of a withdrawal points at that withdrawal of the body. *)
RewardPointersFindTheirWithdrawal ==
  \A r \in DOMAIN redeemers :
    redeemers[r].tag = "reward" => PointedAt(r) = {redeemers[r].item}

(* That holds if all withdrawals are from scripts and no account is named twice: *)
(* scripts without a redeemer, native ones, keep their place in the order.       *)
ScriptRewardPointers ==
  LET ws == body.withdrawals
  IN  (\A i, j \in DOMAIN ws : ws[i][1] = ScriptHash /\ (ws[i] = ws[j] => i = j))
        => RewardPointersFindTheirWithdrawal

(* No placeholder is left in a transaction that is handed out: the callback of *)
(* every deferred redeemer was registered for that redeemer.                   *)
NoPlaceholderLeft ==
  HandedOut /\ DistinctInputs => \A r \in DOMAIN redeemers : redeemers[r].data # "placeholder"

(* Unless a call failed, an item some call gave a redeemer for has one, or was *)
(* named before without a redeemer: its NULL entry in the map then stays.      *)
SuppliedRedeemersKept ==
  first_failure = "none" =>
    \A s \in supplied :
      \/ \E r \in DOMAIN redeemers : redeemers[r].tag = s[1] /\ redeemers[r].item = s[2]
      \/ s[1] \in DOMAIN maps /\ s[2] \in DOMAIN maps[s[1]] /\ maps[s[1]][s[2]] = 0

(* The redeemers that the builder keeps are complete: one that comes with the  *)
(* first mention of its item is in the transaction, points at the input or the *)
(* withdrawal it is for, and has its payload when handed out.  One that comes  *)
(* later, for an item that was named without, is dropped by                    *)
(* cardano_builder_add_redeemer without an error and is excepted.              *)
RedeemersComplete ==
  /\ TypeOK
  /\ SpendPointersFindTheirInput
  /\ ScriptRewardPointers
  /\ NoPlaceholderLeft
  /\ SuppliedRedeemersKept

(* The script data hash of a transaction that is handed out is that of the *)
(* redeemers and datums it has, under the languages of the known scripts.  *)
HashCoversWitnesses ==
  HandedOut =>
    body.script_data_hash =
      IF has_script_data THEN [kind |-> "real", covers |-> <<redeemers, datums, languages>>] ELSE NoHash

(* Once a call has failed, build reports that failure, whatever calls follow. *)
FirstFailureReported ==
  first_failure # "none" => last_error = first_failure /\ result \in {"none", first_failure}

(* A transaction that was handed out never changes again, although the program *)
(* may go on calling the builder that shares it.                               *)
HandedOutIsFinal == [][HandedOut => UNCHANGED tx]_vars
=============================================================================
