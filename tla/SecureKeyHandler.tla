--------------------------- MODULE SecureKeyHandler ---------------------------
(***************************************************************************)
(* The software key handler: lib/src/key_handlers.  A handler keeps its    *)
(* secret encrypted; a call asks the program for the passphrase, decrypts, *)
(* derives what it needs, signs, and gives back a public key or a set of   *)
(* witnesses.  A call is a sequence of steps, any of which may fail, and   *)
(* each failure has its own list of what is released.  A handler may be    *)
(* written to storage and read back by a program that was restarted.       *)
(*                                                                         *)
(* Encryption is ideal (lib/src/crypto/emip3.c): the secret comes back     *)
(* under the passphrase it was sealed with and nothing under another.  So  *)
(* is the checksum (crc32.c): different bytes have different sums.         *)
(*                                                                         *)
(* What the handler owns and releases is one thing (secret); the copies    *)
(* that the functions it calls leave in their own arrays are another       *)
(* (residue): nothing zeroes those.                                        *)
(***************************************************************************)
EXTENDS Naturals, Sequences, FiniteSets

CONSTANTS
    Secrets,       \* entropies and private keys
    Passphrases,   \* what the callback may answer
    Paths,         \* derivation paths
    MaxPaths,      \* the most paths of one call, which cause no array to grow
    Txs,           \* transactions
    Junk,          \* what a damaged field of the storage reads as
    NULL           \* the null pointer

\* The array of a new witness set.  cardano_vkey_witness_set_add grows it from the
\* 128th witness on, and when that fails it only asserts: a build without asserts
\* loses the witness.  The model is of the calls that stay below.
WitnessCapacity == 128

ASSUME SecureAssumption ==
    /\ MaxPaths \in Nat /\ MaxPaths + 1 <= WitnessCapacity /\ IsFiniteSet(Paths)
    /\ Junk \notin Secrets \X Passphrases

VARIABLES
    handler,   \* NoHandler, or [type, encrypted_data]
    saved,     \* the handler that was last written to storage
    call,      \* the call that runs: Idle, or its operation, arguments and step
    secret,    \* [object |-> "none" or "live"]: the handler's own copies of secrets
    residue,   \* arrays in which the call, or the last one, left a key
    given,     \* the passphrase the callback last gave
    set,       \* *vkey_witness_set: NULL, or the witnesses added so far
    result,    \* what the last call returned
    storage    \* the bytes kept outside the program, by fields

vars == <<handler, saved, call, secret, residue, given, set, result, storage>>

-----------------------------------------------------------------------------

NoHandler == [type |-> "none", encrypted_data |-> NULL]
Idle == [op |-> "idle"]
NoResult == [op |-> "none", status |-> "none"]
Types == {"BIP32", "ED25519"}

\* The functions a handler has by its type; the others are NULL.
Operations(type) ==
    CASE type = "BIP32" -> {"bip32_get_extended_account_public_key", "bip32_sign_transaction"}
      [] type = "ED25519" -> {"ed25519_get_public_key", "ed25519_sign_transaction"}
      [] OTHER -> {}
AllOperations == Operations("BIP32") \cup Operations("ED25519")
Signs(op) == op \in {"bip32_sign_transaction", "ed25519_sign_transaction"}

\* The objects that hold a secret: the buffer of the passphrase, the decrypted
\* data, the root key (or the ed25519 key), a key derived from it, and the
\* ed25519 key of a derived key.
Objects == {"passphrase", "decrypted_data", "root", "derived", "signing"}
AllGone == [o \in Objects |-> "none"]
Without(mem, objects) == [o \in Objects |-> IF o \in objects THEN "none" ELSE mem[o]]
With(mem, object) == [mem EXCEPT ![object] = "live"]

Seal(s, p) == <<s, p>>
Derive(s, path) == <<s, path>>

-----------------------------------------------------------------------------
(* Creation and storage.                                                   *)

HandlerNew(type, s, p) ==
    /\ call = Idle /\ handler = NoHandler
    /\ \/ /\ handler' = [type |-> type, encrypted_data |-> Seal(s, p)]
          /\ result' = [op |-> "new", status |-> "SUCCESS"]
       \/ /\ result' = [op |-> "new", status |-> "FAILED"]
          /\ UNCHANGED handler
    /\ UNCHANGED <<saved, call, secret, residue, given, set, storage>>

\* The last reference is dropped: the encrypted data is zeroed and released.
Unref ==
    /\ call = Idle /\ handler # NoHandler
    /\ handler' = NoHandler
    /\ UNCHANGED <<saved, call, secret, residue, given, set, result, storage>>

Checksum(fields) == <<"crc", fields>>

serialize(h) ==
    LET fields == <<"magic", "version", h.type, 1, h.encrypted_data>>
    IN  Append(fields, Checksum(fields))

Serialize ==
    /\ call = Idle /\ handler # NoHandler
    /\ \/ /\ storage' = serialize(handler) /\ saved' = handler
          /\ result' = [op |-> "serialize", status |-> "SUCCESS"]
       \/ /\ result' = [op |-> "serialize", status |-> "FAILED"]
          /\ UNCHANGED <<storage, saved>>
    /\ UNCHANGED <<handler, call, secret, residue, given, set>>

\* The error that stops the reading of a buffer at its first bad field, or "".
\* The size says how many of the fields that follow are data.
HeaderError(f) ==
    IF f = <<>> THEN "OUT_OF_BOUNDS_MEMORY_READ"
    ELSE IF f[1] # "magic" THEN "INVALID_MAGIC"
    ELSE IF Len(f) = 1 THEN "OUT_OF_BOUNDS_MEMORY_READ"
    ELSE IF f[2] # "version" THEN "DECODING"
    ELSE IF Len(f) < 4 THEN "OUT_OF_BOUNDS_MEMORY_READ"
    ELSE IF f[4] = 0 THEN "DECODING"
    ELSE IF Len(f) < 4 + f[4] + 1 THEN "OUT_OF_BOUNDS_MEMORY_READ"
    ELSE ""

\* Mutant: the checksum is read and not compared.
deserialize_unchecked(f) ==
    IF HeaderError(f) # "" THEN [error |-> HeaderError(f), h |-> NoHandler]
    ELSE IF f[3] \notin Types THEN [error |-> "DECODING", h |-> NoHandler]
    ELSE [error |-> "", h |-> [type |-> f[3],
            encrypted_data |-> IF f[4] = 1 THEN f[5] ELSE SubSeq(f, 5, 4 + f[4])]]

deserialize(f) ==
    IF HeaderError(f) # "" THEN [error |-> HeaderError(f), h |-> NoHandler]
    ELSE IF f[4 + f[4] + 1] # Checksum(SubSeq(f, 1, Len(f) - 1))
         THEN [error |-> "CHECKSUM_MISMATCH", h |-> NoHandler]
    ELSE IF f[3] \notin Types THEN [error |-> "DECODING", h |-> NoHandler]
    ELSE [error |-> "", h |-> [type |-> f[3],
            encrypted_data |-> IF f[4] = 1 THEN f[5] ELSE SubSeq(f, 5, 4 + f[4])]]

Deserialize ==
    /\ call = Idle /\ handler = NoHandler
    /\ LET read == deserialize(storage)
       IN  \/ /\ handler' = read.h
              /\ result' = [op |-> "deserialize",
                            status |-> IF read.error = "" THEN "SUCCESS" ELSE read.error]
           \/ /\ handler' = handler
              /\ result' = [op |-> "deserialize", status |-> "FAILED"]
    /\ UNCHANGED <<saved, call, secret, residue, given, set, storage>>

\* External: what is stored loses its end, gains something or reads differently
\* in one place.
StorageDamaged ==
    /\ call = Idle /\ saved # NoHandler /\ storage = serialize(saved)
    /\ \/ storage' = SubSeq(storage, 1, Len(storage) - 1)
       \/ storage' = Append(storage, Junk)
       \/ \E i \in 1..Len(storage) :
            \E new \in CASE i = 3 -> Types \cup {Junk} [] i = 4 -> {0, 2} [] OTHER -> {Junk} :
              storage' = [storage EXCEPT ![i] = new]
    /\ UNCHANGED <<handler, saved, call, secret, residue, given, set, result>>

\* External: the program ends at any point, also within a call, and starts again.
Restart ==
    /\ handler' = NoHandler /\ call' = Idle /\ secret' = AllGone
    /\ residue' = {} /\ given' = NULL /\ set' = NULL /\ result' = NoResult
    /\ UNCHANGED <<saved, storage>>

-----------------------------------------------------------------------------
(* A call.                                                                 *)

Goto(step) == call' = [call EXCEPT !.step = step]

\* The call returns.  What is not released here stays in memory.
Return(status, released) ==
    /\ call' = Idle
    /\ secret' = Without(secret, released)
    /\ result' = [op |-> call.op, status |-> status, tx |-> call.tx, paths |-> call.paths]

\* cardano_vkey_witness_set_unref, where a set was made.
FailSigning(released) == Return("FAILED", released) /\ set' = NULL

\* The arrays that stay as they are when the function they belong to returns:
\* pbkdf2_key[96] of cardano_bip32_private_key_from_bip39_entropy,
\* derived_key[96] of cardano_bip32_private_key_derive, sk[64] of
\* compute_signature_with_normal_key.  A function that fails may do so before or
\* after it has filled its array.
Copies == {"pbkdf2_key", "derived_key", "sk"}
LeavesCopies(copies) == residue' = residue \cup copies
MayLeaveCopies(copies) == residue' \in {residue, residue \cup copies}

At(step) == call # Idle /\ call.step = step

\* The caller's pointer is NULL before a call that signs.
Begin(op, tx, paths) ==
    /\ call = Idle /\ handler # NoHandler
    /\ IF op \in Operations(handler.type)
       THEN /\ call' = [op |-> op, tx |-> tx, paths |-> paths, step |-> "passphrase", i |-> 1]
            /\ result' = NoResult
       ELSE /\ result' = [op |-> op, status |-> "NOT_IMPLEMENTED"]
            /\ UNCHANGED call
    /\ residue' = {} /\ given' = NULL /\ set' = NULL
    /\ UNCHANGED <<handler, saved, secret, storage>>

\* The callback fills the buffer; its answer may have no length or one too large.
GetPassphrase ==
    /\ At("passphrase")
    /\ given' \in Passphrases \cup {NULL}
    /\ secret' = With(secret, "passphrase")
    /\ Goto("decrypt")
    /\ UNCHANGED <<handler, saved, residue, set, result, storage>>

\* cardano_crypto_emip3_decrypt; the passphrase is zeroed behind it either way.
Decrypt ==
    /\ At("decrypt")
    /\ \/ /\ \E s \in Secrets : handler.encrypted_data = Seal(s, given)
          /\ secret' = With(Without(secret, {"passphrase"}), "decrypted_data")
          /\ Goto("key")
          /\ UNCHANGED result
       \/ Return(IF given = NULL THEN "INVALID_PASSPHRASE" ELSE "FAILED",
                 {"passphrase", "decrypted_data"})
    /\ UNCHANGED <<handler, saved, residue, given, set, storage>>

\* Mutant: the data is zeroed only when a key came out of it.
MakeKeyKeeps ==
    /\ At("key")
    /\ \/ /\ secret' = With(Without(secret, {"decrypted_data"}), "root")
          /\ Goto(IF Signs(call.op) THEN "hash"
                  ELSE IF handler.type = "BIP32" THEN "derive" ELSE "public")
          /\ LeavesCopies(IF handler.type = "BIP32" THEN {"pbkdf2_key"} ELSE {})
          /\ UNCHANGED result
       \/ /\ Return("FAILED", {})
          /\ MayLeaveCopies(IF handler.type = "BIP32" THEN {"pbkdf2_key"} ELSE {})
    /\ UNCHANGED <<handler, saved, given, set, storage>>

\* The root key, or the ed25519 key; the decrypted data is zeroed either way.
MakeKey ==
    /\ At("key")
    /\ \/ /\ secret' = With(Without(secret, {"decrypted_data"}), "root")
          /\ Goto(IF Signs(call.op) THEN "hash"
                  ELSE IF handler.type = "BIP32" THEN "derive" ELSE "public")
          /\ LeavesCopies(IF handler.type = "BIP32" THEN {"pbkdf2_key"} ELSE {})
          /\ UNCHANGED result
       \/ /\ Return("FAILED", {"decrypted_data"})
          /\ MayLeaveCopies(IF handler.type = "BIP32" THEN {"pbkdf2_key"} ELSE {})
    /\ UNCHANGED <<handler, saved, given, set, storage>>

\* The account key of a derivation path of three; the root goes either way.
DeriveAccount ==
    /\ At("derive") /\ ~Signs(call.op)
    /\ \/ /\ secret' = With(Without(secret, {"root"}), "derived")
          /\ Goto("public")
          /\ LeavesCopies({"derived_key"})
          /\ UNCHANGED result
       \/ Return("FAILED", {"root"}) /\ MayLeaveCopies({"derived_key"})
    /\ UNCHANGED <<handler, saved, given, set, storage>>

\* The public key that was asked for, the last step of both getters.
GetPublicKey ==
    /\ At("public") /\ ~Signs(call.op)
    /\ \E status \in {"SUCCESS", "FAILED"} :
         Return(status, IF handler.type = "BIP32" THEN {"derived"} ELSE {"root"})
    /\ UNCHANGED <<handler, saved, residue, given, set, storage>>

\* cardano_transaction_get_id and cardano_vkey_witness_set_new.
StartSigning ==
    /\ At("hash")
    /\ \/ /\ set' = {}
          /\ Goto(CASE handler.type = "ED25519" -> "sign"
                    [] handler.type = "BIP32" /\ call.paths = <<>> -> "finish"
                    [] OTHER -> "derive")
          /\ UNCHANGED <<secret, result>>
       \/ Return("FAILED", {"root"}) /\ UNCHANGED set
    /\ UNCHANGED <<handler, saved, residue, given, storage>>

DeriveKey ==
    /\ At("derive") /\ Signs(call.op)
    /\ \/ /\ secret' = With(secret, "derived")
          /\ Goto("to_ed25519")
          /\ LeavesCopies({"derived_key"})
          /\ UNCHANGED <<result, set>>
       \/ FailSigning({"root"}) /\ MayLeaveCopies({"derived_key"})
    /\ UNCHANGED <<handler, saved, given, storage>>

ToEd25519 ==
    /\ At("to_ed25519")
    /\ \/ /\ secret' = With(Without(secret, {"derived"}), "signing")
          /\ Goto("sign")
          /\ UNCHANGED <<result, set>>
       \/ FailSigning({"derived", "root"})
    /\ UNCHANGED <<handler, saved, residue, given, storage>>

SigningKey == IF handler.type = "BIP32" THEN "signing" ELSE "root"

\* A key of 64 bytes is used in place and its by-products are zeroed; one of 32
\* bytes is copied to sk[64].  Only an ed25519 handler may hold such a key.
Sign ==
    /\ At("sign")
    /\ \/ Goto("witness_key") /\ UNCHANGED <<result, secret, set>>
       \/ FailSigning({"signing", "root"})
    /\ MayLeaveCopies(IF handler.type = "ED25519" THEN {"sk"} ELSE {})
    /\ UNCHANGED <<handler, saved, given, storage>>

\* The public key of the witness; the key that signed goes either way.
WitnessKey ==
    /\ At("witness_key")
    /\ \/ /\ secret' = Without(secret, {SigningKey})
          /\ Goto("witness")
          /\ UNCHANGED <<result, set>>
       \/ FailSigning({SigningKey, "root"})
    /\ UNCHANGED <<handler, saved, residue, given, storage>>

\* Mutant: a witness that cannot be made ends the call with the set as it is.
AddWitnessPartial ==
    /\ At("witness")
    /\ LET s   == handler.encrypted_data[1]
           key == IF handler.type = "BIP32" THEN Derive(s, call.paths[call.i]) ELSE s
           more == handler.type = "BIP32" /\ call.i < Len(call.paths)
       IN  \/ /\ set' = set \cup {[vkey |-> key, tx |-> call.tx]}
              /\ call' = [call EXCEPT !.i = IF more THEN @ + 1 ELSE @,
                                      !.step = IF more THEN "derive" ELSE "finish"]
              /\ UNCHANGED <<secret, result>>
           \/ Return("FAILED", {"root"}) /\ UNCHANGED set
    /\ UNCHANGED <<handler, saved, residue, given, storage>>

\* Mutant: the next path is not gone on to.
AddWitnessAgain ==
    /\ At("witness")
    /\ LET s   == handler.encrypted_data[1]
           key == IF handler.type = "BIP32" THEN Derive(s, call.paths[call.i]) ELSE s
           more == handler.type = "BIP32" /\ call.i < Len(call.paths)
       IN  \/ /\ set' = set \cup {[vkey |-> key, tx |-> call.tx]}
              /\ call' = [call EXCEPT !.step = IF more THEN "derive" ELSE "finish"]
              /\ UNCHANGED <<secret, result>>
           \/ FailSigning({"root"})
    /\ UNCHANGED <<handler, saved, residue, given, storage>>

\* cardano_vkey_witness_new and cardano_vkey_witness_set_add, which replaces the
\* signature of a key that is already there.
AddWitness ==
    /\ At("witness")
    /\ LET s   == handler.encrypted_data[1]
           key == IF handler.type = "BIP32" THEN Derive(s, call.paths[call.i]) ELSE s
           more == handler.type = "BIP32" /\ call.i < Len(call.paths)
       IN  \/ /\ set' = set \cup {[vkey |-> key, tx |-> call.tx]}
              /\ call' = [call EXCEPT !.i = IF more THEN @ + 1 ELSE @,
                                      !.step = IF more THEN "derive" ELSE "finish"]
              /\ UNCHANGED <<secret, result>>
           \/ FailSigning({"root"})
    /\ UNCHANGED <<handler, saved, residue, given, storage>>

Finish ==
    /\ At("finish")
    /\ Return("SUCCESS", IF handler.type = "BIP32" THEN {"root"} ELSE {})
    /\ UNCHANGED <<handler, saved, residue, given, set, storage>>

-----------------------------------------------------------------------------

PathLists == UNION {[1..n -> Paths] : n \in 0..MaxPaths}

Init ==
    /\ handler = NoHandler /\ saved = NoHandler /\ call = Idle /\ secret = AllGone
    /\ residue = {} /\ given = NULL /\ set = NULL /\ storage = <<>>
    /\ result = NoResult

Step ==
    \/ GetPassphrase \/ Decrypt \/ MakeKey \/ DeriveAccount \/ GetPublicKey
    \/ StartSigning \/ DeriveKey \/ ToEd25519 \/ Sign \/ WitnessKey \/ AddWitness \/ Finish

Next ==
    \/ \E type \in Types, s \in Secrets, p \in Passphrases : HandlerNew(type, s, p)
    \/ Unref \/ Serialize \/ Deserialize \/ StorageDamaged \/ Restart
    \/ \E op \in AllOperations, tx \in Txs, paths \in PathLists : Begin(op, tx, paths)
    \/ Step

\* A call runs on by itself; whether another is made, the storage is damaged or
\* the program ends is up to others.
Spec == Init /\ [][Next]_vars /\ WF_vars(Step)

-----------------------------------------------------------------------------
(* Properties.                                                             *)

Handlers == [type : Types, encrypted_data : Secrets \X Passphrases]

\* The state is well formed.  Within a call the step fits the operation, the
\* handler's type and the keys that are in memory.
TypeOK ==
    /\ handler \in Handlers \cup {NoHandler} /\ saved \in Handlers \cup {NoHandler}
    /\ secret \in [Objects -> {"none", "live"}] /\ residue \subseteq Copies
    /\ given \in Passphrases \cup {NULL}
    /\ call # Idle =>
         /\ call.op \in Operations(handler.type)
         /\ call.i \in 1..Len(call.paths) + 1
         /\ call.step \in {"derive", "to_ed25519", "witness"} /\ Signs(call.op) =>
              (secret["root"] = "live") = (handler.type = "BIP32")

\* Whatever step fails, a call that has returned has zeroed and released what the
\* handler itself owned of the secret: the buffer of the passphrase, the decrypted
\* data and the objects of the root key, the derived key and the signing key.  It
\* says nothing of the copies in the arrays of the functions the handler calls:
\* residue = {} does not hold behind a call, although software_secure_key_handler.h
\* (:125) says that "no residual sensitive information remains in memory".
SecretsReleased == call = Idle => secret = AllGone

Signed == result.status = "SUCCESS" /\ Signs(result.op) /\ call = Idle

KeysFor(h, paths) ==
    IF h.type = "BIP32" THEN {Derive(h.encrypted_data[1], paths[i]) : i \in 1..Len(paths)}
                        ELSE {h.encrypted_data[1]}

\* A caller gets all witnesses or none: after a success the set has a signature
\* of the transaction for every path that was asked for and for no other key, and
\* after any failure that is reported the pointer is NULL again.  (A witness set
\* that has to grow is beyond the bound on paths: see WitnessCapacity.)
AllWitnessesOrNone ==
    /\ Signed /\ handler # NoHandler =>
         set = {[vkey |-> k, tx |-> result.tx] : k \in KeysFor(handler, result.paths)}
    /\ call = Idle /\ Signs(result.op) /\ result.status # "SUCCESS" => set = NULL

\* Nothing is signed, and no key given out, unless the callback gave the
\* passphrase the secret was sealed with.
OnlyWithPassphrase ==
    call = Idle /\ result.op \in AllOperations /\ result.status = "SUCCESS" /\ handler # NoHandler
        => given = handler.encrypted_data[2]

\* A call, failed or not, leaves a copy of a key behind in an array of a function
\* it made use of (cardano_bip32_private_key_derive and others) only if the callback
\* gave that passphrase.
CopiesNeedPassphrase ==
    call = Idle /\ result.op \in AllOperations /\ residue # {} /\ handler # NoHandler
        => given = handler.encrypted_data[2]

\* The handler holds secrets during a call only, and uses them with the passphrase
\* only.
SecretsGuarded == TypeOK /\ SecretsReleased /\ OnlyWithPassphrase /\ CopiesNeedPassphrase

\* A handler that was read from storage is the one that was written, its type and
\* its secret: bytes that were cut, lengthened or changed yield none.
RestoredIsSaved ==
    result = [op |-> "deserialize", status |-> "SUCCESS"] => handler \in {saved, NoHandler}

\* A call returns, unless the program ends.
CallReturns == call # Idle ~> call = Idle
=============================================================================
