# A TLA+ verification of cardano-c

cardano-c is a C library for Cardano applications. It has no threads and no
network code of its own, and the only state it keeps outside a process is a
serialized key handler. What is hard in it are long sequences of calls in an
order that the caller chooses: the construction of a transaction, whose every
index, sum and hash must refer to the final layout; codecs that keep a stack of
open containers, and objects that remember the bytes they came from; the
evaluator of Plutus scripts, which has to agree with every other node on result
and cost; and a key handler in which every step may fail while a secret is in
memory. These modules model that, and prove what could be proved about it.

All source paths below are relative to `src/lib/src` unless they start with
`lib/`.

## The system

| Part | State it keeps | Operations | Works with |
|---|---|---|---|
| Transaction builder (`transaction_builder/transaction_builder.c`, `internals/`) | the transaction under construction, maps from items to redeemers, pre-selected inputs, deferred callbacks, flags for script languages, the first error | some seventy-five methods in twelve kinds, `build` | calls balancing, owns coin selector and evaluator |
| Balancing (`transaction_builder/balancing/`) | locals of one call: the fee, the caller's outputs; it writes the caller's body and redeemers in place | `cardano_balance_transaction` | calls the selector (for inputs and for collateral), the callbacks, the evaluator |
| Coin selection (`transaction_builder/coin_selection/`) | per call: the index of the pool, the picks; or two lists of UTXOs | `select` of two selectors, and of any selector an application supplies | called by balancing, once or twice a round |
| Fees, deposits, signers (`fee.c`, `implicit_coin.c`, `unique_signers.c`) | none | functions of a transaction | balancing |
| Evaluators (`transaction_builder/evaluation/`, `uplc/`) | per call: the CEK machine's stack, environments and budget | `evaluate` | resolve the item a redeemer points at, run its script |
| Transaction codec (`transaction/`, `witness_set/`, `plutus_data/`) | objects that keep the bytes they were decoded from | `from_cbor`, `to_cbor`, setters, `clear_cbor_cache`, applying witnesses | built on the CBOR reader and writer |
| Other data types (`transaction_body/`, `certs/`, `common/`, ...) | objects with reference counts | constructors, getters, codecs | everything |
| CBOR and JSON (`cbor/`, `json/`) | a cursor or a buffer and a stack of open containers | read, skip, write, encode, parse, print | data types |
| Keys (`key_handlers/`, `crypto/`, `bip39/`, `message_signing/`) | an encrypted seed, which may be written to storage | derive, sign, serialize | applications |
| Providers (`providers/`) | a table of callbacks | queries, submission | applications, one evaluator |

What makes this hard, component by component (PROJECT.json lists each hazard at
its line):

* **Random-improve selection.** Deletion from the buckets of the index is lazy,
  totals are kept incrementally, and the most recent pick can be undone.
  Correct: no UTXO is hidden by a stale entry, a shortage that is reported is a
  real one, nothing is lost or counted twice, the loops end.
* **Large-first selection.** One loop sorts, moves and erases in the list it
  walks; taking a UTXO to pay for change may bring tokens that need more
  change. Correct: every UTXO is selected or left, change is exact and each
  output holds its minimum, few inputs are taken, a failure is legitimate.
* **Balancing.** Everything depends on everything else; the answer is a
  fixpoint of rounds, and each round must forget the one before. Correct: value
  is preserved also if the selector gets its change wrong, the fee pays for the final bytes,
  collateral fits that fee, indices, payloads and execution units belong to the
  final layout, the rounds end.
* **Builder.** Methods return nothing and may be called in any order, also after
  a failure or a build. A redeemer names its item by a position that later calls
  move. Correct: every redeemer of the result points at its item, no placeholder
  is left, the script data hash covers what is handed out, the first failure is
  the one reported, what was handed out stays as it is.
* **CBOR reader.** The announced state is cached, counters of enclosing
  containers must survive inner ones, an indefinite container ends where its
  bytes say so, and any call may fail half-way. Correct: the frames are those of
  the grammar at the current offset, a well-formed document is never refused
  and a truncated one never finished, a skip ends where its item ends.
* **JSON writer and parser.** What may be written depends on every call before
  it, and each is several writes and allocations, of which any may fail. Correct:
  a legal caller is never refused and gets exactly its document,
  what is encoded is parsed as what was meant, and printing gives it back.
* **Transaction codec.** One transaction has many encodings, and hashes and
  signatures cover the bytes; every object has a cache, every container of it
  another, and setters touch none. Correct: signing keeps every byte that is
  signed or hashed, an encoding is stable, and after clearing the current state
  is written.
* **CEK machine and builtins.** Environments are shared between closures in
  chunks, steps are charged in batches, costs saturate, and the machine may run
  past its budget until the next flush. Correct: result and cost are those of a
  step-by-step evaluation by substitution, for every batch; the builtins answer
  what their definitions say at the edges of their arguments.
* **Key handler.** A dozen steps, any of which may fail, each with its own list
  of what to release, and copies of the key in the functions they call; a restart
  between serializing and reading back. Correct: what the handler holds of the
  secret is gone behind a call, signing gives all witnesses or none, damaged
  storage never gives another handler.
* **Reference counts.** Getters return what callers drop at once and go on
  using; for a later module.

## Modules

| Module | Models | Notes |
|---|---|---|
| `Orders` | `cardano_array_sort` of `collections/array.c` | the sorted list of a set, for an order that is given as a set of pairs |
| `Values` | `value.c`, splitting of values, minimum lovelace of an output | a value is a function from assets to integers, lovelace last |
| `SelectionContract`, `CoinSelection` | `coin_selector_impl.h`, `coin_selector.c` | the abstract specification: a call fails, or answers with any balanced and compliant selection |
| `RandomImproveChange` | `random_improve_change_state.c`, `random_improve_helpers.c` | partition, padding, coalescing and funding of change, as functions |
| `RandomImprove` | `random_improve_coin_selector.c`, `random_improve_selection_index.c` | one action per step of the index and of the driver |
| `LargeFirst` | `large_first_*.c`, `change_builder.c` | one action per iteration of each loop |
| `TxCosts` | `fee.c`, `implicit_coin.c`, `unique_signers.c`, amounts of `collateral.c` | functions of a draft transaction |
| `Balancing` | `transaction_balancing.c`, `collateral.c`, `deferred_redeemer_list.c`, `input_to_redeemer_map.c` | one action per stage of a round; uses `SelectionContract` for what a selector answers |
| `TxBuilder` | `transaction_builder.c`, `internals/` | one action per kind of method; balancing is one step of `Build` |
| `CborReader` | `cbor/cbor_reader/` | one action per call, one per node of a skip; the reference is the grammar of RFC 8949 |
| `JsonTokens` | nothing: the reference definitions | tokens, and the rules of JSON over them |
| `JsonWriter`, `JsonParser` | `json_writer.c`, `json_parser.c` | one action per writer call; one per function of the parser's descent |
| `JsonText` | `json_object.c` | composes writer, parser and printing of what was parsed |
| `CborCache` | `cbor_cache` of an object | written instead of the object where there is one |
| `PlutusCodec` | `plutus_data/` | data, their caches and encodings, as functions |
| `TxCodec` | `transaction.c`, `witness_set.c`, `plutus_data_set.c`, `redeemer.c`, `redeemer_list.c`, `vkey_witness_set.c` | one action per call that changes the transaction; the codec of Plutus data is a parameter, `PlutusCodec` in the run |
| `UplcBytes`, `UplcValues`, `UplcBuiltins` | `uplc/builtins/`, `uplc_builtin.c` | the builtins as operators, and their dispatch |
| `BuiltinMeaning` | nothing: the reference definitions | written from what a builtin means, not from the code |
| `CekMachine` | `uplc/machine/`, `uplc_step_accumulator.c` | one action per step of the machine, with the reference evaluator |
| `SecureKeyHandler` | `key_handlers/` | one action per step of a call, with every failure it can meet |
| `ValueTheorems` | lemmas | induction, sorted lists, sums over sets and over sequences, splitting of values |
| `RandomImproveProofs`, `LargeFirstProofs`, `BalancingProofs`, `TxBuilderProofs`, `CborProofs`, `JsonTextProofs`, `SecureKeyHandlerProofs` | theorems | one module for each of the components they are named for; `CborProofs` has those of `CborReader` and of `TxCodec` |
| `MC_*` | instances for TLC | `SecureKeyHandler` needs none |

The composition follows the calls. `RandomImprove` and `LargeFirst` are shown
to implement `CoinSelection` (`ImplementsCoinSelection`, a refinement mapping
that hides the index and shows an answer when the call ends). `Balancing` then
asks for nothing but the terms of that contract, so its results hold for both
selectors and for every other one that keeps it; a request says whether its
selector is honest; one that is not chooses among the UTXOs it was given, keeps
the pre-selected ones, which the redeemers name, and returns no change, too little
or change without its assets (`WrongAnswer`, `WrongChange`). `TxBuilder` in turn
uses of balancing only that the inputs are laid out in order and the redeemers
updated, which `Balancing` checks (`RedeemersFitLayout`). `JsonText` puts the
parser behind the writer and the printer behind the parser. `CekMachine` calls
the operators of `UplcBuiltins`, and its reference evaluator calls those of
`BuiltinMeaning`.

### How state and actions correspond to the code

*RandomImprove.* `buckets[p][t][e]` counts the copies of pool entry `e` in the
tier-`t` bucket of processor `p`; the order inside a bucket does not matter,
because a draw takes a random slot, which is a choice over all of them.
`DrawStale`, `DrawFresh`, `DrawUnrecorded` and `NextTier` are the iterations of
`index_pick`; `KeepPick`, `UndoPick` and `NothingToPick` are the outcomes of
`run_selection_step`; `RetryWithMoreAda` and `NoMoreAda` those of
`generate_change_with_retries`. `DrawUnrecorded` is the failure of
`record_pick` to allocate, which requests with scarce memory can meet; other
failed allocations, among them that of the list in `pick_additional_ada`, are
left out.

*LargeFirst.* `SelectToken` is one iteration of the loop over the tokens of the
target with the sort and all moves it makes; `TopUp` one iteration of the loop
that funds the change. What the loop over the sorted list does is stated in
closed form (`select_utxos`), which the proofs are about. The loop itself, which
counts by hand and takes its index back when it has erased under it, is
`LoopBegins`, `MoveUtxo` and `LoopEnds`; `LoopTakesTheFront` compares the two in
every state from which the loop is entered.

*Balancing.* `pc` follows the body of the loop: collateral, select, inputs,
change, resolve, evaluate, fee. `RaiseFee` is the reset at the end of a round
that was made for too small a fee. Sizes in bytes are replaced by counts and by
one step in the size of a coin (`CoinStep`), so that raising the fee can make
the transaction larger. `script_cost` stands for the scripts: a function of the
layout they see. The loop around the selection of collateral
(`collateral.c:271-345`) goes round again only for change below the least lovelace
of an output; the selector has funded that already, so `SetCollateral` passes it once.

*TxBuilder.* `redeemers` is the list in the witness set, in the order in which
they were added (the code keeps it sorted, which nothing here depends on), `maps` the three
sorted maps of `blake2b_hash_to_redeemer_map.c` with 0 for NULL, `inputs` the
pre-selected inputs together with `input_to_redeemer_map`. Items are identified
by the numbers that order them: a policy by its hash, an account or a voter by
the kind and the hash of its credential. Inputs and withdrawals of the
transaction are sorted by them (`InByteOrder`). The history variables `supplied` and
`first_failure` record what calls asked for. The sixteen certificate methods and
the fourteen proposal methods differ in the item they construct only; one action
stands for each group, and one for the setters. A NULL, malformed or
unallocatable argument is `InvalidArgument`, which every method can meet before
it changes anything; a failure half-way leaves a builder that is closed and a
transaction that nobody gets.

*CborReader.* `reader` is the struct: offset, cached state, frames with type,
announced length, items read and the offset of the frame. The buffer is kept
byte by byte, because a header, its argument and a payload are told apart by
position only; what number or string a payload stands for is left out. The
widths of `int64_t` and `size_t` are constants, so that announced lengths above
and below the limits occur. `SkipValue` begins the loop of
`read_encoded_value` and `SkipNextNode` is one iteration of it.

*JsonWriter, JsonParser, JsonText.* A text is a sequence of tokens; `out` is the
buffer, `frames` the fixed array of contexts. What JSON is, is said once, in
`JsonTokens`: `After[text]` gives the containers that a text leaves open and what
may come next. The history variable `caller` holds the text that the calls mean
by these rules, whether they still obey them (`legal`), whether a raw value or
an object came behind another value (`late`), and whether a comma was lost (`lost`).
A call of the writer whose buffer cannot grow records the failure, except for the
comma of `write_signed_int`, whose result the code does not look at
(`UncheckedCommas`): it may be missing while the rest arrives. The call stack of the
recursive parser is the variable `calls`; what a call returns is the text of its
value. Every allocation of the parser may fail; `OutOfMemory` are the failures it
reports, `DropItem` the push to an array that cannot grow, which it does not look
at. `GrowAt` gives the sizes at which an array has to grow: 31 and on in the code,
smaller in the instance, so that it happens in short texts.

*TxCodec.* Bytes are trees of the choices that encodings differ in: tagged or
not, definite or not, the order of fields, the form of an integer or a
constructor. An object has the cache of the C struct next to its fields, and a
decoded container one more. `SendAndReceive` encodes and decodes again. The
history variables say what has happened to the object since it was received.

*CekMachine.* `state` is `state_t`; frames and the chunks of an environment are
sequences. `acc` is the step accumulator. `StepCompute` and `StepReturn` are the
two halves of the loop, each with the charge that precedes it, `StepDone` what
comes behind the loop. A failed allocation ends the call (`StepNoMemory`), or stays
hidden in a builtin (`StepStarved`): the integer arguments of some builtins are
turned into big integers when they are first needed, and a failure of that is
answered like an argument of the wrong type; that an integer once turned stays
turned is left out, it only makes fewer of these failures possible. `total` adds up
the same costs one by one. Byte strings have bytes of 2 bits in the instance,
and the widths that the code checks are constants.

*SecureKeyHandler.* `secret` tells which of passphrase, decrypted data, root key,
derived key and signing key are live; a release is part of the step that makes it,
on the success and on each error path as the code lists them. `residue` are the
local arrays of the functions that the handler calls which hold a copy of a key and
are not zeroed: `pbkdf2_key` and `derived_key` of `bip32_private_key.c`, `sk` of
`ed25519_private_key.c`. A witness set is created with room for 128 witnesses, and
the model is of calls that stay below (`WitnessCapacity`): there adding one fails
where the code says so. The storage is a
record of fields that may be cut, lengthened or changed between two runs of the
program.

## Runs

All runs enumerate their requests, inputs or calls exhaustively within the
bounds. An invariant that is a conjunction names its parts.

| Run | Instance | Shows |
|---|---|---|
| `random_improve` | two assets, pools of up to 3 UTXOs, at most one pre-selected, the list of picks may fail to grow | `PickFindsAll`, `ShortfallIsReal`, `SelectionAccounted` (`TypeOK`, `TotalsExact`, `SelectionMatchesIndex`), `UndoRestoresTotal`, `ImplementsCoinSelection`, `Termination` |
| `large_first` | two assets of which an output holds one, up to 3 available, pre-selected ones that may overlap | `ListsAccounted` (`TypeOK`, `Conservation`), `LoopTakesTheFront`, `AnswerIsBest` (`FewestInputs`, `FailureIsLegitimate`), `ImplementsCoinSelection` with change that is split, `Termination` |
| `large_first_mint` | targets that a mint or a withdrawal pays for | violation of `SelectsAnInput` |
| `balancing` | transfers, mint, burn, certificates with up to three redeemers, three collateral lists; honest selectors and such as get the change wrong, with and without an evaluator | `OnlyLastRound` (`TypeOK`, `CollateralFits`, `NoLeftoverChange`), `BalancedOrRefused` (`ValuePreserved`, `HonestSelectorBalances`), `RedeemersFitLayout` (`RedeemersPointAtInputs`, `ScriptsSawFinalLayout`), `FeeCovers`, `Termination` |
| `builder` | up to 7 calls, of programs that collect items and of programs that configure, build and go on | `RedeemersComplete` (`TypeOK`, `SpendPointersFindTheirInput`, `ScriptRewardPointers`, `NoPlaceholderLeft`, `SuppliedRedeemersKept`), `PointersFindTheirItem`, `HashCoversWitnesses`, `FirstFailureReported`, `HandedOutIsFinal` |
| `builder_rewards` | withdrawals of keys and scripts | violation of `RewardPointersFindTheirWithdrawal` |
| `cbor_reader` | buffers of up to 4 bytes over eight bytes that open, close, tag or fill containers, of up to 3 over a wider alphabet; `INT64_MAX` 127, `SIZE_MAX` 15; frames may fail to be allocated | `ReaderConsistent` (`TypeOK`, `CacheFresh`, `CountersFit`), `AcceptsDocuments` (`Aligned`, `NeverStuck`, `FinishedIsComplete`), `SkipExact`, `SkipTerminates` |
| `json_text` | every sequence of calls, legal or not, up to 9 tokens of output and depth 4, failing allocations, resets; every input of up to 5 tokens | `FramesInStep` (`TypeOK`, `FramesMatchBrackets`, `LegalCallsAccepted`, `WriterFollowsCaller`), `WritesDocument` (`OutputIsText`, `EncodedIsDocument`), `ParsesJson` (`ParsedIsInput`, `JsonIsAccepted`), `PrintedIsParsed` |
| `json_empty_containers` | arrays of empty containers | violation of `NestingDecides` |
| `cek_machine` | every closed program of up to five nodes, some seventy larger ones, calls of builtins at the edges of their arguments; chunks of 2 slots, batches of 3 steps, ample and scarce budgets, memory that may run out | `AgreesWithReference`, `BuiltinsSound` (`BuiltinsAgree`, `ValuesCanonical`), `BatchedAsStepwise` (`TypeOK`, `ChargedExactly`, `BudgetRespected`, `OverrunBounded`), `Terminates` |
| `key_handler` | both types of handler, 2 secrets, 2 passphrases, 2 paths, a failure at any step, a restart at any time, damaged storage | `SecretsGuarded` (`TypeOK`, `SecretsReleased`, `OnlyWithPassphrase`, `CopiesNeedPassphrase`), `AllWitnessesOrNone`, `RestoredIsSaved`, `CallReturns` |
| `tx_codec` | ten received transactions in different encodings, of which two are refused; up to 4 calls | `SigningKeepsBytes`, `EncodingIsStable`, `ClearedIsCurrent` |

*Why the bounds are enough.* Three UTXOs are the least with which a processor
can draw an entry that a second one took while a third is free, and with which
an undo happens between two draws; two assets give all three tiers. An output holds
any number of assets there (`MaxValueAssets` is 0), so that change is split for its
assets in `large_first` only, not by `split_oversized_maps`. Three
UTXOs, again, let a token loop of large-first move one, skip one and leave one.
In `balancing` the default collateral of the first round exceeds what later
rounds need, one collateral list leaves change in some rounds and none in
others, and `CoinStep` lies within the fees that occur, so that a raised fee
makes the next round's transaction larger. Five items are enough for one to
arrive before, between and behind two others of its kind while a second kind
interleaves; seven calls configure the builder (four), spend, build and go on
calling it. Four bytes hold a container in a container with an item and a break
behind it, a tag in front of either, and a length that the buffer does not
hold. The instance also compares `After` with the grammar of JSON, written the
other way round, on every text of up to five tokens (`AfterIsGrammar`). Nine
tokens hold an object with a container and a second member, and
enough open brackets to pass the limit of depth 4. Programs of five nodes apply, force, match on and
return closures; two slots make an environment of three variables cross a
chunk, three steps make every longer program cross a batch, and the larger
programs capture, nest cases and discharge closures. Two paths give a signing
call that fails at its second witness. Four calls are enough to add, sign, clear
and send on.

*Fairness.* A call of a selector, of balancing, of the evaluator, of a key
handler, and the loop of a skip are sequential computations that wait for nobody,
so their steps are weakly fair; for balancing this assumes that selector,
callbacks and evaluator return, which the code assumes too, and for the key
handler that the passphrase callback does. In `RandomImprove` the fairness of
`MakeChange` is written as that of leaving the control point `"change"`, where it
is the only step and always enabled. That a program makes another call is never
assumed: builder, codecs and writer have no fairness for their callers.
Deadlock is checked in the runs of selection, balancing, builder and key
handler, where ended calls stutter explicitly (`Terminated`, `Finished`) or
another call is always possible. The other runs end where a document, a
program or the bound on calls ends; there `NeverStuck`, `JsonIsAccepted`,
`AgreesWithReference` and the liveness properties say that they do not stop
earlier.

*Properties with an exception.* `SuppliedRedeemersKept` excepts a redeemer that
comes for an item which an earlier call named without one. `OutputIsText` and
`EncodedIsDocument` except the writer that lost a comma (and misplaced ones, `late`),
`ParsedIsInput` the parse that dropped an item, and
`AgreesWithReference` the execution in which a builtin hid a failed allocation;
`SecretsReleased` is about the five objects of the handler. What is excepted is
described below. `AcceptsDocuments`
leaves out readers that lost a header to a failed allocation, a tag at the end and
malformed strings of indefinite length; for the first only `ReaderConsistent`
speaks. `EncodingIsStable` leaves out a set that was
received empty and added to without clearing, and `ClearedIsCurrent` speaks of
edits that clearing reaches (the history variable `buried` marks the others);
both are described below, too.

## What the runs found

* **`SelectsAnInput`** - large-first takes an input for a target without
  requirements only if the target names no asset at all; a mint that a
  withdrawal pays for gets an empty selection.
* **`RewardPointersFindTheirWithdrawal`** - withdrawals of keys have no place in
  the builder's map but come first in the transaction, so that a script's reward
  redeemer next to a key's withdrawal points at the wrong one.
  `ScriptRewardPointers` shows that the index is right without them.
* **`NestingDecides`** - the parser counts a level for every empty container
  and never gives it back (`json_parser.c:726`): an array of enough empty arrays,
  which the writer encodes, is refused for its depth.

Failures that the code does not notice, and copies it does not erase. They are in
the models, with a variable that says when one has happened and that the properties
except; TLC gives a trace for each when the variable is required to stay as it began:

* *A lost comma* (`caller.lost`). `write_signed_int` does not look at the result of
  writing its comma (`json_writer.c:821`). When the buffer cannot grow there and can
  for what follows, an array of two numbers is encoded without its comma, with
  success; `json_writer.h:901` says that an error is deferred until encode.
* *A dropped item* (`dropped`). The parser does not look at what `cardano_array_push`
  returns (`json_parser.c:646`, `:779`): an array or object that cannot grow loses
  the item, and the parse succeeds; `json_object.h:63` says NULL.
* *A starved builtin* (`starved`). One that cannot turn its argument into a big
  integer answers with a script error (`builtins.c:455`, `:483`), and a division
  whose correction cannot be allocated with a wrong quotient (`:695`). Neither sets
  `host_error`, so that lack of memory is reported as the outcome of the script,
  which `uplc_machine.h:68` says it is not.
* *Copies of keys* (`residue`). `software_secure_key_handler.h:125` says that no
  residual sensitive information remains in memory. Making the root key and deriving
  from it leave it in arrays on the stack (`bip32_private_key.c:195`, `:354`), and so
  does signing with a key of 32 bytes (`ed25519_private_key.c:583`).
  `CopiesNeedPassphrase` bounds when: never without the passphrase.

Met while modelling; no property is about them:

* *Selection.* Random-improve concatenates the pre-selected and the available
  list, so that a UTXO in both can be selected twice or also be returned as
  remaining (`random_improve_selection_index.c:334`). Change that can be made,
  but in fewer outputs than wanted, is released before the retry with one more
  UTXO; if the retry fails, the call reports an insufficient balance
  (`random_improve_coin_selector.c:543`).
* *Balancing.* A list of collateral UTXOs that is empty makes a script
  transaction succeed without collateral (`collateral.c:249`). The first round
  with fee 0 demands the default collateral (`collateral.c:130`). A failed call
  leaves its last round in the caller's transaction
  (`transaction_balancing.c:594`).
* *Builder.* A redeemer for an item that was named before without one is
  dropped; of an input that is added twice the second redeemer keeps its
  placeholder; a script that comes with a spent input does not enter the
  languages of the script data hash (`builder_inputs.c:304`).
* *CBOR reader.* A skip at the end of a container closes it, and its depth, a
  `size_t`, wraps below 0, so that it may stop with success in another container
  (`cbor_reader_core.c:748`; `cbor_reader.h:330` speaks of the next value). A
  tag with nothing behind it at the end of the buffer gives FINISHED. A frame
  that cannot be allocated leaves its header consumed. Reading a string does not
  look at the types of its chunks. Integers of 2^63 and more are read as
  negative ones by `read_int`.
* *JSON.* The commas around raw values and objects are misplaced
  (`json_writer.c:656`, `:708`; `json_writer.h:660` promises separators). The writer accepts a second value behind a container
  member, a name behind a name, and two documents at the root; encoding an
  untouched writer gives the empty text, and encoding into a buffer gives
  incomplete ones. The parser forgives trailing commas and a string that the
  input cuts off. The text of a parsed object is cached in the format that was
  asked for first, its allocation is not checked (`json_object.c:114`) and the
  length it reports includes the terminator.
* *Transaction codec.* `clear_cbor_cache` does not reach data below a
  constructor or a map or inside the set of data (`constr_plutus_data.c:505`,
  `plutus_map.c:670`, `plutus_data_set.c:430`), so that such edits are not sent
  though `transaction.h:610` says that the next serialization reflects the current
  state. A list of redeemers is cloned from its cache, without edits that were
  not cleared (`redeemer_list.c:710`). A set that was received empty, added to
  and not cleared is written as the empty set. A witness set or a body in a map
  of indefinite length is refused. Negative integers of exactly 64 bits are
  written as other numbers (`plutus_data.c:691`). A transaction in an array of
  indefinite length is read as three items and written as four
  (`transaction.c:181`, `:270`). A constructor with an unknown tag is read as the
  alternative 102 (`constr_plutus_data.c:79`, `:278`). A list of redeemers with an
  index of 2^32 or more, which can be set, is not written (`redeemer_list.c:515`). A
  set of data that cannot grow is decoded to no object, with success
  (`plutus_data_set.c:222`). In the model frames have a definite length, tags are
  known, indices small and allocations succeed.
* *CEK machine.* When the budget runs out inside the loop, pending steps are not
  flushed, and the spent budget that is reported lacks them
  (`uplc_machine.c:1976`). A builtin runs before its cost is compared with the
  budget. A budget of `INT64_MAX` is never exhausted.
* *Keys.* Signing does not release the witness that could not be added
  (`bip32_sign_transaction`), and adding one notices a failed push by an
  assertion only (`vkey_witness_set.c:409`), which matters from the 128th witness
  of a set on.

## What is proved

TLAPS proves the following for every value of the constants: any number of
UTXOs and assets, any request, any order of draws; any set of calls, any
program, any buffer and any length of it, any received transaction. No bound of a
run is used; the one limit is that of the code on witnesses without growth, 127 paths
of a signing call. Each inductive invariant was checked by TLC on the component's run before it was
proved.

| Module | Theorem | Property | Inductive invariant |
|---|---|---|---|
| `RandomImproveProofs` | `PickIsComplete`, `FailureIsShortage`, `SelectionIsAccounted`, `UndoIsExact` | `PickFindsAll`, `ShortfallIsReal`, `SelectionAccounted`, `UndoRestoresTotal` | `IInv` |
| `LargeFirstProofs` | `ListsAreAccounted`, `AnswersAreBest`, `LargeFirstImplements` | `ListsAccounted`, `AnswerIsBest`, `ImplementsCoinSelection` | `IInv` |
| `BalancingProofs` | `TheFeeCovers`, `OnlyTheLastRound`, `BalancedOrElseRefused`, `TheRedeemersFit` | `FeeCovers`, `OnlyLastRound`, `BalancedOrRefused`, `RedeemersFitLayout` | `IInv` |
| `TxBuilderProofs` | `PointersAlwaysFindTheirItem`, `HandedOutStaysFinal`, `HashAlwaysCoversWitnesses`, `FirstFailureAlwaysReported`, `RedeemersAreComplete` | `PointersFindTheirItem`, `HandedOutIsFinal`, `HashCoversWitnesses`, `FirstFailureReported`, `RedeemersComplete` | `IInv`, `CInv` for the last |
| `CborProofs` | `ReaderIsConsistent`, `SkipIsExact` | `ReaderConsistent`, `SkipExact` | `IInv` |
| `CborProofs` | `SigningKeeps`, `EncodingStays` | `SigningKeepsBytes`, `EncodingIsStable` of `TxCodec` | `CodecInv` |
| `JsonTextProofs` | `FramesStayInStep`, `LegalCallerGetsDocument`, `JsonIsParsed`, `ParsedIsPrinted` | `FramesInStep`, `WritesDocument`, `ParsesJson`, `PrintedIsParsed` | `WriterInv`, `ParserInv` |
| `SecureKeyHandlerProofs` | `SecretsAreGuarded`, `WitnessesAreComplete`, `StorageIsSafe` | `SecretsGuarded`, `AllWitnessesOrNone`, `RestoredIsSaved` | `IInv`, `KnownCopies` |

**ValueTheorems.** Sums, sorted lists and splits are defined by
folds and recursive functions, and what they are follows by induction. The
induction theorems of the library have an operator as a parameter, which the
provers do not instantiate; `Induction`, `InductionUpTo` and
`SequenceInduction` state induction for a *set* of naturals or sequences
instead, and from them follow that a sorted list has exactly the elements of the
set in order (`InOrderProperties`), that a sum is that of its parts
(`SumConcat`, `SumAppend`, `SumReplaceOne`, `SetSums`), and that the pieces of a
value that is split are disjoint, make it up and each fit an output
(`SplitIsSplit`).

**RandomImproveProofs.** `PickFindsAll` is not inductive. Whether a pick finds
an entry depends on what other processors left in the buckets and on what an
undo puts back, so `IInv` says that a free entry is in every bucket it is
registered in (`FreeListed`), that the tiers already drawn from are empty
(`DrawnEmpty`), that the entry of a pick that may be undone is in every bucket
but the one it came from (`PickUndoable`), and, for `ShortfallIsReal`, that a
processor which left the round is satisfied or has used up its token even if the
last pick is undone (`InactiveDone`), which needs the total at the start of the
turn (`BeforeExact`) and what a pass without progress has seen (`PassInv`). For
`SelectionAccounted`: the picks on record are the entries selected beyond the
pre-selected ones, each once (`Recorded`), and the list that is returned lags
behind them by the one pick of `pick_additional_ada` (`Collected`). The
assumption is `RequestsAssumption`, the types of a request. How change is
divided plays no role here; the functions of `RandomImproveChange` stay
unexpanded.

**LargeFirstProofs.** The two lists have no UTXO in common (`Moved`) and
together have those of the request (`Shared`), while the loop sorts, moves and
erases in the list it walks; `accumulated_value` is what the selection is worth
(`Summed`); the tokens the loop has passed are covered (`Covered`, `Met`); the
change is what the selection is worth beyond the target (`Owed`), also behind
every top-up. With the lemmas on sorting, the front of the sorted list is a
smallest set of inputs that covers the one token a target asks for, which is
`FewestInputs`; with those
on splitting, an answer is one that the contract of `CoinSelection` allows, so
the selector implements it. `RequestsAssumption` says that UTXOs are entries of
the ledger: an id has one value, whichever list it is in, and holds lovelace.

**BalancingProofs.** Every part of `IInv` says what holds from one stage of a
round on: the collateral fits the fee of this round (`Backed`), the selection is
what the selector was asked for in this round (`Picked`), the inputs are laid
out and the spending redeemers point at them (`Placed`), the deferred payloads
saw that layout (`Resolved`), the units are those of it (`Evaluated`); `Round`
and `Kept` say what the reset in between leaves. What holds at the end is then
that of one round, the last. `ValuePreserved` follows from the code's own check,
also for a selector that gets the change wrong; that an honest selector is never refused is
`HonestSelectorBalances`. The assumptions are `ContentsAssumption`, types, and
`RequestsAssumption`: the UTXOs are entries of the ledger, a spending redeemer
names a pre-selected input, and no two redeemers name the same item, which is how
the builder adds them.

**TxBuilderProofs.** `IInv` has three parts besides `HashCoversWitnesses`.
`Shape`: the body and the redeemers keep their fields. `Sticky`: without a
recorded error nothing failed, nothing was built, and there is no script data
hash yet. `Pointers`: an entry of a map is NULL or the redeemer of its key, every
redeemer of a map is the entry of its item and has the item's position among the
keys; the keys are the policies and the voters of the body; redeemers of
certificates and proposals have the place of their item; the inputs refer to
spending redeemers only, so that balancing moves no other index. That the
position among the keys of a map determines the item is an argument about
cardinalities (`LaterIsHigher`): of two keys the later one has strictly more
keys before it. `CInv` adds for `RedeemersComplete` how a spent input, a
withdrawal, a deferred callback and a redeemer that a caller supplied are linked
to the list of redeemers (`Links`). `PlaceIsPosition` and `AddedInputsAreLaidOut`
connect this with the sorted inputs: what the program added is among what
balancing lays out, and the index it gives is the place of the input there.
The assumptions are `CallsAssumption` and `BoundsAssumption`, types of calls and
wallet.

**CborProofs, the reader.** The calls are many, their effects few: each is shown to
refuse and leave the reader as it was, to read an item, to read a tag, to enter
a container or to leave one, and `Sound` (types, the bottom frame, counters that
do not exceed the announced length, no more frames than bytes read) is shown for
these five. `SkipExact` needs in addition that a skip which began in front of an
item has not left the frame it began in (`LoopKept`): the frames below are those
it found, and its depth is the number of frames it opened. Because there are
fewer frames than bytes, and fewer bytes than `SIZE_MAX`, the depth of such a
skip never wraps; it is the skip that begins at the end of a container that does.
The assumptions are types, and that the buffer is smaller than `SIZE_MAX`, as
an object in memory is.

**CborProofs, the transaction.** Nothing is assumed of the codec of Plutus data:
what keeps the bytes of data is the caches around them, and the two theorems
hold for every codec. `CodecInv` says what the properties themselves do not.
Whatever was edited, the object is well formed (`IsTx`): the order in which the
fields are written has each key once, a field is NULL or an object of its kind,
a cache is NULL or the bytes of a set, and of each key there is one signature.
While nothing but signatures was added (`IsSignedFrom`), body, auxiliary data,
validity and frame are those of the received bytes, the other fields are the
decoded ones, caches included, and the signatures are the received ones with the
applied ones over them. That the properties follow is an argument about
lists. Fields that are empty are left out when they are written, and what is left
is read again in the order in which it was written, with the absent fields behind
it; so the list of fields of the second encoding is that of the first
(`AscendingOfSome`, `AscendingIsUnique`). `vkey_witness_set_apply` is a loop that
replaces and appends, and the signature each key has behind it is the last
one given, by induction over the loop. Sorting plays no role but that it returns
a sequence as long as the one it was given: a list of redeemers is written from its cache or, without one, in the
form in which it is read again. The assumption is `CodecAssumption`: received bytes have
the shape of a transaction, and a received set of witnesses has each key once,
which is what makes it a set; the decoder does not check it
(`cardano_array_push`, `vkey_witness_set.c:206`), and of a list with a key twice
only the first signature is ever replaced.

**JsonTextProofs.** What a text means is defined by recursion over it, so the
proofs begin with the recursion itself: `SequenceRecursion` shows that a function
defined by its value on `<<>>` and its step for one more token exists, and
`AfterRecursion`, `OpenBracketsRecursion`, `SerializedRecursion`,
`ForgivenRecursion`, `JoinedRecursion` and `WithoutRecursion` give the equations of
the six functions used. `AfterNested` then says that a JSON text inside another one is
read as it is read alone, below the containers around it.
`WriterInv` has two layers. `Sound` holds whatever is called: the contexts of the
frames are the open brackets of the output, unless an error is recorded.
`InStep` holds of a legal caller: frames, expectation and count of the innermost
frame follow the text that was meant, and so does the output unless a comma was
misplaced or lost (`Exact`); a lost comma changes neither brackets nor frames. `SerializedFollows` carries that through
`cardano_write_json_object`, token by token, and also shows that an object
nested too deep is refused, which `PrintedIsParsed` needs.
`ParserInv` says for every step of the descent that what the calls in progress have
collected, joined from the outermost to the innermost, is what was read of the
input up to what is forgiven, and that by the rules of JSON it leaves open just
the containers being parsed (`AtValue`, `AtItem`, `AtReturn`, `AtNext`). So what
is returned at the end is JSON. This is lost when an item is dropped: what was
collected is then no longer what was read, so that `JsonIsParsed` and
`ParsedIsPrinted` are about parses that dropped none. The run also checks that
what is left of the others is JSON and is printed as it is. For the other direction `DepthCounts` bounds the
depth by the containers that are open plus the empty ones that were passed: a
JSON text that is refused can only be refused for its depth, and then its nesting
and its empty containers together reach the limit. The assumptions are types: the
limit is a positive number (`DepthAssumption`), inputs are sequences of tokens
(`InputsAssumption`), and an object that is written is a JSON value
(`ObjectsAssumption`), which an object of this library is.

**SecureKeyHandlerProofs.** `Memory` says of every step exactly which secrets are
live before it, of the handler's own five; a release that an error path leaves out
breaks it in the step where it is missing, not at the end of the call. What callees
leave behind is not part of it; `KnownCopies` says that nothing is left before the
secret is decrypted, from which `CopiesNeedPassphrase` follows. `Fits` says which steps belong
to which call of which handler, `Progress` that the set holds the witnesses of
the paths walked so far, so that what is returned has all of them. `Restorable`:
whatever happened to the storage, it is read as the handler saved there or as
none. Encryption and checksum are ideal, as in the model; `SecureAssumption`
says that a damaged field reads as something else than the encrypted data of a
handler, that is, that the damage is one, and that a call has fewer paths than a
witness set has room for.

**Only model-checked**:

* liveness (`Termination`, `SkipTerminates`, `Terminates`, `CallReturns`), which
  is out of the provers' reach;
* that the loop of large-first takes the front of the sorted list
  (`LoopTakesTheFront`); the proofs are about the closed form;
* the refinement of `CoinSelection` by `RandomImprove`, which needs that the
  division of change, with padding and coalescing, keeps the sum: folds over
  several lists at once;
* `AcceptsDocuments`: the grammar is a recursive function over the bytes that
  the reader is compared with, and `FINISHED` would have to be shown by
  induction over it;
* `ClearedIsCurrent`: that decoding undoes encoding is, for Plutus data, an
  induction over data;
* the CEK machine and the builtins, whose terms, values and data are trees that
  recursive operators walk.

## What is not modelled, and why

* Builtins of cryptography, BLS, text, tracing and the wrapping of data, the
  cost functions, cryptography itself, encodings, BIP-39: functions of bytes or
  of unbounded integers, covered by test vectors, out of TLC's reach.
* Flat codec, text syntax, script context, message signing, the CBOR writer,
  constructors and getters of the data types and the codecs of those that keep
  no cache: conversions without control that a model would add something to.
  They make up most of the library's lines, together with the documentation in
  its headers.
* Spelling of JSON strings and numbers: tokens.
* Providers, allocators, buffers, time: tables of callbacks and wrappers.
* Overflow of coins (the library adds `uint64_t` and `int64_t`): sums of ledger
  values stay below 2^63 because all lovelace there is is less than 2^56.
* Sizes in bytes of transactions: abstract, see above. With main-net parameters
  the minimum lovelace of an output lies within one size class of CBOR integers;
  for others the fixpoint of `fee.c:502-571` deserves a module of its own.
* `lib/external`, examples and benchmarks.

## Plan

Done: values and contract; random-improve and its change; large-first; costs and
balancing; builder; CBOR reader; JSON writer, parser and printing; CEK machine
and builtins; key handler; transaction codec. Proofs of random-improve,
large-first with its refinement, balancing, builder, CBOR reader, JSON, key handler
and, but for clearing, the transaction codec.

Next, in this order:

1. Proofs: that random-improve implements `CoinSelection`, with lemmas on what
   partition, padding and coalescing of change keep.
2. `MinAda`: the iteration of `cardano_compute_min_ada_required` at the
   boundaries of CBOR integer sizes, with 64-bit arithmetic.
3. `Ownership` (`object.c`, `array.c`): reference counts under borrowed getters.
