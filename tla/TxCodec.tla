------------------------------ MODULE TxCodec -------------------------------
(***************************************************************************)
(* A transaction that is received as CBOR, looked at, signed, edited and   *)
(* sent on: transaction.c, witness_set.c, plutus_data_set.c, redeemer.c,   *)
(* redeemer_list.c, vkey_witness_set.c and the caches of the body and of   *)
(* the auxiliary data.  Setters never touch a cache: it is the caller who  *)
(* decides, with clear_cbor_cache, whether the original bytes or the       *)
(* current state are written.                                              *)
(*                                                                         *)
(* Bytes of a transaction are <<frame, body, witness set, <<is_valid>> or  *)
(* nothing, auxiliary data or NULL>>; those of a body are <<canonical,     *)
(* fee>>, of auxiliary data <<era, metadata>>, of a witness set <<number   *)
(* of entries announced, <<key, bytes>> ...>>, of the set of a field       *)
(* <<tagged, indefinite, items>>, of redeemers <<as map, indefinite,       *)
(* <<tag, index, data, units>> ...>>.  Plutus data and their codec are     *)
(* parameters, for which PlutusCodec is the value.                         *)
(*                                                                         *)
(* Fields of the body are one number, the fee; those of the auxiliary data *)
(* are one, the metadata; the five sets of scripts and of bootstrap        *)
(* witnesses, which differ in their elements only, are the field 1.  All   *)
(* allocations succeed: that a set of data which cannot grow is decoded to *)
(* nothing with success (plutus_data_set.c:222) is outside this model.     *)
(* Frames have a definite length: one of indefinite length is read without *)
(* is_valid and, having no size of its own, is written with it             *)
(* (transaction.c:181, :270).                                              *)
(***************************************************************************)
EXTENDS Orders, CborCache

CONSTANTS Docs,          \* transactions as they are received
          NewWitnesses,  \* sequences of <<key, signature>> to apply
          MaxCalls,      \* calls that change the transaction
          data_from_cbor(_), data_to_cbor(_), data_clear_cbor_cache(_),
          DataEdits(_, _),   \* what one call can make of an object
          DataContent(_),    \* what data are, however they are encoded
          data_new(_)        \* data that were not decoded

\* The shape of the bytes.  A set of witnesses has one of each key.
IsSequence(s) == Len(s) \in Nat /\ s = [i \in 1..Len(s) |-> s[i]]

EachKeyOnce(witnesses) ==
    \A i, j \in 1..Len(witnesses) : witnesses[i][1] = witnesses[j][1] => i = j

IsSetBytes(bytes) == bytes = <<bytes[1], bytes[2], bytes[3]>> /\ IsSequence(bytes[3])

IsFieldBytes(f) ==
    f = <<f[1], f[2]>> /\ IsSetBytes(f[2]) /\ (f[1] = 0 => EachKeyOnce(f[2][3]))

IsPair(bytes) == bytes = <<bytes[1], bytes[2]>>

IsTransaction(bytes) ==
    /\ bytes = <<bytes[1], bytes[2], bytes[3], bytes[4], bytes[5]>>
    /\ <<bytes[1], bytes[4]>> \in {<<3, <<>>>>, <<4, <<TRUE>>>>, <<4, <<FALSE>>>>}
    /\ IsPair(bytes[2])
    /\ IsPair(bytes[3]) /\ IsSequence(bytes[3][2])
    /\ \A i \in 1..Len(bytes[3][2]) : IsFieldBytes(bytes[3][2][i])
    /\ bytes[5] = NULL \/ IsPair(bytes[5])

ASSUME CodecAssumption ==
    /\ MaxCalls \in Nat
    /\ \A bytes \in Docs : IsTransaction(bytes)
    /\ \A new \in NewWitnesses : IsSequence(new)

VARIABLES tx,         \* the object, NULL before there is one
          received,   \* the bytes it was decoded from, NULL if it was not
          pristine,   \* nothing but signatures was added since then
          signatures, \* the witnesses that were applied since then
          cleared,    \* clear_cbor_cache was called since then
          buried,     \* something was edited that clearing does not reach
          calls

codec_vars == <<tx, received, pristine, signatures, cleared, buried, calls>>

-----------------------------------------------------------------------------
(* The witness set.  A field is NULL or a sequence of one object.          *)

FieldKeys == {0, 1, 4, 5}   \* vkeys, scripts, plutus data, redeemers

SetObject(tagged, items) == [tagged |-> tagged, items |-> items, cache |-> NULL]

WitnessSet == [order |-> <<0, 1, 4, 5>>, field |-> [k \in FieldKeys |-> NULL]]

Before(r, s) == r.tag < s.tag \/ (r.tag = s.tag /\ r.index < s.index)

\* The sort is stable.
array_sort(items) ==
    LET positions == 1..Len(items)
        at == InOrder(positions,
                      {p \in positions \X positions :
                          \/ Before(items[p[1]], items[p[2]])
                          \/ ~Before(items[p[2]], items[p[1]]) /\ p[1] < p[2]})
    IN  [i \in positions |-> items[at[i]]]

set_from_cbor(bytes) == SetObject(bytes[1], bytes[3])
set_to_cbor(set) == <<set.tagged, FALSE, set.items>>

\* Mutant: the bytes are not kept.
plutus_data_set_from_cbor_uncached(bytes) ==
    SetObject(bytes[1], [i \in 1..Len(bytes[3]) |-> data_from_cbor(bytes[3][i])])

plutus_data_set_from_cbor(bytes) ==
    [SetObject(bytes[1], [i \in 1..Len(bytes[3]) |-> data_from_cbor(bytes[3][i])])
        EXCEPT !.cache = bytes]

plutus_data_set_to_cbor(set) ==
    OrCache(set.cache, <<set.tagged, FALSE,
                         [i \in 1..Len(set.items) |-> data_to_cbor(set.items[i])]>>)

\* The elements keep their caches.
plutus_data_set_clear_cbor_cache(set) == [set EXCEPT !.cache = NULL, !.tagged = TRUE]

redeemer_from_cbor(bytes, as_map) ==
    [tag |-> bytes[1], index |-> bytes[2], data |-> data_from_cbor(bytes[3]),
     units |-> bytes[4], cache |-> IF as_map THEN NULL ELSE bytes]

redeemer_list_from_cbor(bytes) ==
    LET read == [i \in 1..Len(bytes[3]) |-> redeemer_from_cbor(bytes[3][i], bytes[1])]
    IN  [items |-> array_sort(read), cache |-> bytes]

\* Indices are below 2^32: a larger one is not written (redeemer_list.c:515).
redeemer_list_to_cbor(list) ==
    OrCache(list.cache,
            <<TRUE, FALSE, [i \in 1..Len(list.items) |->
                LET r == list.items[i]
                IN  <<r.tag, r.index, data_to_cbor(r.data), r.units>>]>>)

redeemer_list_add(list, r) == [list EXCEPT !.items = array_sort(Append(@, r))]

redeemer_clear_cbor_cache(r) ==
    [r EXCEPT !.cache = NULL, !.data = data_clear_cbor_cache(@)]

redeemer_list_clear_cbor_cache(list) ==
    [items |-> [i \in 1..Len(list.items) |-> redeemer_clear_cbor_cache(list.items[i])],
     cache |-> NULL]

\* The clone is made through CBOR, from the cache where there is one.  That the
\* original is sorted as well (redeemer_list.c:742) does not show: redeemers are
\* sorted by key and index when they are read or added, SetClonedRedeemers drops
\* the original, and Contents compares them as a set.
redeemer_list_clone(list) ==
    redeemer_list_clear_cbor_cache(redeemer_list_from_cbor(redeemer_list_to_cbor(list)))

Decoded(key, bytes) ==
    CASE key \in {0, 1} -> set_from_cbor(bytes)
      [] key = 4 -> plutus_data_set_from_cbor(bytes)
      [] key = 5 -> redeemer_list_from_cbor(bytes)

Encoded(key, object) ==
    CASE key \in {0, 1} -> set_to_cbor(object)
      [] key = 4 -> plutus_data_set_to_cbor(object)
      [] key = 5 -> redeemer_list_to_cbor(object)

\* A field that occurs twice is refused, and so is a wrong number of entries.
FieldsDecodable(bytes) ==
    LET fields == bytes[2]
    IN  /\ bytes[1] = Len(fields)
        /\ \A i \in 1..Len(fields) : fields[i][1] \in FieldKeys
        /\ \A i, j \in 1..Len(fields) : fields[i][1] = fields[j][1] => i = j

\* The fields that occur, in the order in which they do, and then the others.
witness_set_from_cbor(bytes) ==
    LET fields == bytes[2]
        at(k)  == {i \in 1..Len(fields) : fields[i][1] = k}
        seen   == [i \in 1..Len(fields) |-> fields[i][1]]
    IN  [order |-> seen \o Ascending({k \in FieldKeys : at(k) = {}}),
         field |-> [k \in FieldKeys |->
                       IF at(k) = {} THEN NULL
                       ELSE <<Decoded(k, fields[CHOOSE i \in at(k) : TRUE][2])>>]]

get_length(w, k) == IF w.field[k] = NULL THEN 0 ELSE Len(w.field[k][1].items)

\* Mutant: every field that is not NULL is counted.
get_map_size_of_fields(w) == Cardinality({k \in FieldKeys : w.field[k] # NULL})

get_map_size(w) == Cardinality({k \in FieldKeys : get_length(w, k) > 0})

write_field_if_present(w, k) == <<k, Encoded(k, w.field[k][1])>>

\* The elements of a sequence at some positions, in order.
Where(s, positions) ==
    LET at == Ascending(positions) IN [i \in 1..Cardinality(positions) |-> s[at[i]]]

witness_set_to_cbor(w) ==
    LET present == Where(w.order, {i \in 1..Len(w.order) : get_length(w, w.order[i]) > 0})
    IN  <<get_map_size(w), [i \in 1..Len(present) |-> write_field_if_present(w, present[i])]>>

witness_set_clear_cbor_cache(w) ==
    LET clear(k, object) ==
            CASE k \in {0, 1} -> [object EXCEPT !.tagged = TRUE]
              [] k = 4 -> plutus_data_set_clear_cbor_cache(object)
              [] k = 5 -> redeemer_list_clear_cbor_cache(object)
    IN  [order |-> WitnessSet.order,
         field |-> [k \in FieldKeys |->
                       IF w.field[k] = NULL THEN NULL ELSE <<clear(k, w.field[k][1])>>]]

\* A key that has signed gets the new signature, at its place.
vkey_witness_set_add(set, witness) ==
    LET known == {i \in 1..Len(set.items) : set.items[i][1] = witness[1]}
    IN  IF known = {} THEN [set EXCEPT !.items = Append(@, witness)]
        ELSE LET first == CHOOSE i \in known : \A j \in known : i <= j
             IN  [set EXCEPT !.items[first] = witness]

vkey_witness_set_apply(set, new) ==
    LET applied[n \in 0..Len(new)] ==
            IF n = 0 THEN set ELSE vkey_witness_set_add(applied[n - 1], new[n])
    IN  applied[Len(new)]

-----------------------------------------------------------------------------
(* The transaction.                                                        *)

body_to_cbor(body) == OrCache(body.cache, <<TRUE, body.fee>>)
aux_to_cbor(aux) == IF aux = NULL THEN NULL ELSE OrCache(aux[1].cache, <<"tagged", aux[1].metadata>>)

transaction_new(body, w, aux) ==
    [body |-> body, wits |-> w, aux |-> aux, is_valid |-> TRUE, frame_size |-> 4]

transaction_from_cbor(bytes) ==
    LET body == [cache |-> bytes[2], fee |-> bytes[2][2]]
        aux  == IF bytes[5] = NULL THEN NULL
                ELSE <<[cache |-> bytes[5], metadata |-> bytes[5][2]]>>
    IN  [transaction_new(body, witness_set_from_cbor(bytes[3]), aux)
            EXCEPT !.is_valid = (bytes[4] = <<>> \/ bytes[4] = <<TRUE>>), !.frame_size = bytes[1]]

transaction_to_cbor(t) ==
    LET frame == IF t.is_valid THEN t.frame_size ELSE 4
    IN  <<frame, body_to_cbor(t.body), witness_set_to_cbor(t.wits),
          IF frame = 4 THEN <<t.is_valid>> ELSE <<>>, aux_to_cbor(t.aux)>>

\* The transaction with another object, or NULL, for a field of its witnesses.
WithField(t, k, field) == [t EXCEPT !.wits.field[k] = field]

transaction_clear_cbor_cache(t) ==
    [t EXCEPT !.body.cache = NULL, !.wits = witness_set_clear_cbor_cache(@),
              !.aux = IF @ = NULL THEN NULL ELSE <<[@[1] EXCEPT !.cache = NULL]>>]

-----------------------------------------------------------------------------
(* Calls.                                                                  *)

CodecInit ==
    /\ tx = NULL /\ received = NULL
    /\ pristine = TRUE /\ signatures = <<>>
    /\ cleared = FALSE /\ buried = FALSE
    /\ calls = 0

Started(object, bytes) ==
    /\ tx' = object /\ received' = bytes
    /\ pristine' = TRUE /\ signatures' = <<>>
    /\ cleared' = FALSE /\ buried' = FALSE

New ==
    /\ tx = NULL
    /\ Started(transaction_new([cache |-> NULL, fee |-> 0], WitnessSet, NULL), NULL)
    /\ UNCHANGED calls

\* What cannot be decoded leaves no object.
FromCbor(bytes) ==
    /\ tx = NULL
    /\ FieldsDecodable(bytes[3])
    /\ Started(transaction_from_cbor(bytes), bytes)
    /\ UNCHANGED calls

Call == tx # NULL /\ calls < MaxCalls /\ calls' = calls + 1

\* Another program receives what this one sends.
SendAndReceive ==
    /\ Call
    /\ LET bytes == transaction_to_cbor(tx)
       IN  FieldsDecodable(bytes[3]) /\ Started(transaction_from_cbor(bytes), bytes)

ApplyVkeyWitnesses(new) ==
    LET old == tx.wits.field[0]
        set == IF old = NULL THEN SetObject(TRUE, <<>>) ELSE old[1]
    IN  /\ Call
        /\ tx' = WithField(tx, 0, <<vkey_witness_set_apply(set, new)>>)
        /\ signatures' = signatures \o new
        /\ UNCHANGED <<received, pristine, cleared, buried>>

ClearCborCache ==
    /\ Call
    /\ tx' = transaction_clear_cbor_cache(tx)
    /\ pristine' = FALSE /\ cleared' = TRUE
    /\ UNCHANGED <<received, signatures, buried>>

\* A setter of the transaction or of something its getters hand out.
Edit(new, reached) ==
    /\ Call
    /\ tx' = new
    /\ pristine' = FALSE
    /\ buried' = (buried \/ ~reached)
    /\ UNCHANGED <<received, signatures, cleared>>

SetIsValid == tx # NULL /\ Edit([tx EXCEPT !.is_valid = ~@], TRUE)
SetFee == tx # NULL /\ Edit([tx EXCEPT !.body.fee = @ + 1], TRUE)

SetMetadata == tx # NULL /\ tx.aux # NULL /\ Edit([tx EXCEPT !.aux[1].metadata = @ + 1], TRUE)

SetAuxiliaryData ==
    \E aux \in {NULL, <<[cache |-> NULL, metadata |-> 5]>>} :
        tx # NULL /\ Edit([tx EXCEPT !.aux = aux], TRUE)

SetPlutusData ==
    \E set \in {NULL, <<SetObject(TRUE, <<>>)>>, <<SetObject(TRUE, <<data_new(7)>>)>>} :
        tx # NULL /\ Edit(WithField(tx, 4, set), TRUE)

AddPlutusData ==
    /\ tx # NULL /\ tx.wits.field[4] # NULL
    /\ LET set == tx.wits.field[4][1]
       IN  Edit(WithField(tx, 4, <<[set EXCEPT !.items = Append(@, data_new(6))]>>), TRUE)

\* Of what is in the set, nothing is cleared with the set.
EditPlutusData ==
    /\ tx # NULL /\ tx.wits.field[4] # NULL
    /\ LET set == tx.wits.field[4][1]
       IN  \E i \in 1..Len(set.items) :
             \E edit \in DataEdits(set.items[i], FALSE) :
                Edit(WithField(tx, 4, <<[set EXCEPT !.items[i] = edit[1]]>>), edit[2])

AddScript ==
    /\ tx # NULL
    /\ LET old == tx.wits.field[1]
           set == IF old = NULL THEN SetObject(TRUE, <<>>) ELSE old[1]
       IN  Edit(WithField(tx, 1, <<[set EXCEPT !.items = Append(@, calls)]>>), TRUE)

SetRedeemer(i, redeemer, reached) ==
    LET list == tx.wits.field[5][1]
    IN  Edit(WithField(tx, 5, <<[list EXCEPT !.items[i] = redeemer]>>), reached)

EditRedeemer ==
    /\ tx # NULL /\ tx.wits.field[5] # NULL
    /\ \E i \in 1..get_length(tx.wits, 5) :
         LET redeemer == tx.wits.field[5][1].items[i]
         IN  \/ SetRedeemer(i, [redeemer EXCEPT !.units = @ + 1], TRUE)       \* set_ex_units
             \/ SetRedeemer(i, [redeemer EXCEPT !.index = @ + 2], TRUE)       \* set_index: not sorted
             \/ SetRedeemer(i, [redeemer EXCEPT !.data = data_new(6)], TRUE)  \* set_data
             \/ \E edit \in DataEdits(redeemer.data, TRUE) :
                  SetRedeemer(i, [redeemer EXCEPT !.data = edit[1]], edit[2])

AddRedeemer ==
    /\ tx # NULL
    /\ LET old   == tx.wits.field[5]
           list  == IF old = NULL THEN [items |-> <<>>, cache |-> NULL] ELSE old[1]
           added == [tag |-> 0, index |-> 1, data |-> data_new(4), units |-> 1, cache |-> NULL]
       IN  Edit(WithField(tx, 5, <<redeemer_list_add(list, added)>>), TRUE)

\* set_redeemers with a clone, which is how evaluators hand redeemers back.
SetClonedRedeemers ==
    /\ tx # NULL /\ tx.wits.field[5] # NULL
    /\ Edit(WithField(tx, 5, <<redeemer_list_clone(tx.wits.field[5][1])>>), TRUE)

CodecNext ==
    \/ New
    \/ \E bytes \in Docs : FromCbor(bytes)
    \/ SendAndReceive
    \/ \E new \in NewWitnesses : ApplyVkeyWitnesses(new)
    \/ ClearCborCache
    \/ SetIsValid \/ SetFee \/ SetMetadata \/ SetAuxiliaryData
    \/ SetPlutusData \/ AddPlutusData \/ EditPlutusData
    \/ AddScript
    \/ EditRedeemer \/ AddRedeemer \/ SetClonedRedeemers

CodecSpec == CodecInit /\ [][CodecNext]_codec_vars

-----------------------------------------------------------------------------
(* Properties.                                                             *)

\* The items of a field of the witnesses, none where there is no such field.
ItemsOf(bytes, key) ==
    LET at == {i \in 1..Len(bytes[3][2]) : bytes[3][2][i][1] = key}
    IN  IF at = {} THEN <<>> ELSE bytes[3][2][CHOOSE i \in at : TRUE][2][3]

\* The signature each key has, of a sequence of witnesses: the last one.
Signed(witnesses) ==
    LET of(key)  == {i \in 1..Len(witnesses) : witnesses[i][1] = key}
        last(key) == CHOOSE i \in of(key) : \A j \in of(key) : j <= i
    IN  [key \in {witnesses[i][1] : i \in 1..Len(witnesses)} |-> witnesses[last(key)][2]]

\* The datums and redeemers of the witnesses, in the order in which they are.
DatumsAndRedeemers(bytes) ==
    LET fields == bytes[3][2]
    IN  Where(fields, {i \in 1..Len(fields) : fields[i][1] \in {4, 5} /\ fields[i][2][3] # <<>>})

\* Signing changes nothing that is signed or hashed: whatever encoding a
\* transaction was received in, the body, the validity flag, the auxiliary data,
\* the datums and the redeemers are sent on byte for byte and in their place, and
\* the signatures are the received ones with the applied ones over them, each key
\* once.  The id, the auxiliary data hash and the script data hash stay right.
SigningKeepsBytes ==
    tx # NULL /\ received # NULL /\ pristine =>
        LET out == transaction_to_cbor(tx)
        IN  /\ <<out[1], out[2], out[4], out[5]>> =
                   <<received[1], received[2], received[4], received[5]>>
            /\ DatumsAndRedeemers(out) = DatumsAndRedeemers(received)
            /\ Signed(ItemsOf(out, 0)) = Signed(ItemsOf(received, 0) \o signatures)
            /\ EachKeyOnce(ItemsOf(out, 0))

\* A set that was received empty, was added to and still has its cache: it is
\* written as the empty set it was, which the next program will leave out.
AddedToEmpty ==
    \E k \in {4, 5} : /\ get_length(tx.wits, k) > 0
                      /\ tx.wits.field[k][1].cache # NULL
                      /\ tx.wits.field[k][1].cache[3] = <<>>

\* What is written can be read, and is then written again as the same bytes: a
\* transaction that passes through several programs keeps its id and hashes from
\* the first encoding on, after whatever edits (but AddedToEmpty).
EncodingIsStable ==
    tx # NULL =>
        LET bytes == transaction_to_cbor(tx)
        IN  /\ FieldsDecodable(bytes[3])
            /\ AddedToEmpty \/ transaction_to_cbor(transaction_from_cbor(bytes)) = bytes

\* What a transaction says, however it is encoded.
Contents(t) ==
    LET items(k) == IF t.wits.field[k] = NULL THEN <<>> ELSE t.wits.field[k][1].items
    IN  [fee |-> t.body.fee, is_valid |-> t.is_valid,
         metadata |-> IF t.aux = NULL THEN NULL ELSE <<t.aux[1].metadata>>,
         vkeys |-> items(0), scripts |-> items(1),
         datums |-> [i \in 1..Len(items(4)) |-> DataContent(items(4)[i])],
         redeemers |-> {<<r.tag, r.index, DataContent(r.data), r.units>> : r \in ToSet(items(5))}]

\* After clear_cbor_cache what is sent is what the object holds, edits before and
\* after the call included, for all edits that clearing reaches; and so it is for
\* a transaction that was never received (transaction.c:538).
ClearedIsCurrent ==
    tx # NULL /\ (cleared \/ received = NULL) /\ ~buried =>
        Contents(transaction_from_cbor(transaction_to_cbor(tx))) = Contents(tx)
=============================================================================
