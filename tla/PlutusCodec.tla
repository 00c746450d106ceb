---------------------------- MODULE PlutusCodec -----------------------------
(***************************************************************************)
(* plutus_data/: Plutus data and their CBOR.  An object that was decoded   *)
(* keeps the bytes it was decoded from and writes them again until its     *)
(* cache is cleared, because a hash that covers them must stay right       *)
(* whichever of several encodings their author chose.                      *)
(*                                                                         *)
(* Bytes are abstracted to what the encodings differ in:                   *)
(*   <<"int", minimal, n>>             an integer (or a byte string), in   *)
(*                                     the shortest form or another        *)
(*   <<"array", indefinite, items>>    a list                              *)
(*   <<"map", indefinite, items>>      a map, keys and values in turn      *)
(*   <<"constr", compact, n, array>>   a constructor, tag 121.. or tag 102 *)
(* A tag that is none of these is not among them; the code reads it as the *)
(* alternative 102 and keeps its bytes (constr_plutus_data.c:79, :278).    *)
(***************************************************************************)
EXTENDS Integers, Sequences, CborCache

CONSTANT MAX_COMPACT   \* the largest alternative with a tag of its own, 127

\* An object.  cache is that of cardano_plutus_data_t, inner that of the list,
\* map or constructor in it, fields that of the list in a constructor.
Object(kind) == [kind |-> kind, n |-> 0, indefinite |-> FALSE, kids |-> <<>>,
                 cache |-> NULL, inner |-> NULL, fields |-> NULL]

new_integer(n) == [Object("int") EXCEPT !.n = n]

\* Decoding, given the decoded items.
plutus_list_from_cbor(bytes, kids) == [Object("array") EXCEPT !.inner = bytes, !.kids = kids]
plutus_map_from_cbor(bytes, kids) ==
    [Object("map") EXCEPT !.inner = bytes, !.kids = kids, !.indefinite = bytes[2]]
constr_from_cbor(bytes, kids) ==
    [Object("constr") EXCEPT !.inner = bytes, !.kids = kids, !.n = bytes[3], !.fields = bytes[4]]

RECURSIVE plutus_data_from_cbor(_)
plutus_data_from_cbor(bytes) ==
    LET all(items) == [i \in 1..Len(items) |-> plutus_data_from_cbor(items[i])]
        read == CASE bytes[1] = "int"    -> new_integer(bytes[3])
                  [] bytes[1] = "array"  -> plutus_list_from_cbor(bytes, all(bytes[3]))
                  [] bytes[1] = "map"    -> plutus_map_from_cbor(bytes, all(bytes[3]))
                  [] bytes[1] = "constr" -> constr_from_cbor(bytes, all(bytes[4][3]))
    IN  [read EXCEPT !.cache = bytes]

\* Encoding, given the encoded items.
plutus_list_to_cbor(cache, items) == OrCache(cache, <<"array", items # <<>>, items>>)
plutus_map_to_cbor(data, items) == OrCache(data.inner, <<"map", data.indefinite, items>>)
constr_to_cbor(data, items) ==
    OrCache(data.inner, <<"constr", data.n <= MAX_COMPACT, data.n,
                          plutus_list_to_cbor(data.fields, items)>>)

RECURSIVE plutus_data_to_cbor(_)
plutus_data_to_cbor(data) ==
    LET items == [i \in 1..Len(data.kids) |-> plutus_data_to_cbor(data.kids[i])]
    IN  OrCache(data.cache,
                CASE data.kind = "int"    -> <<"int", TRUE, data.n>>
                  [] data.kind = "array"  -> plutus_list_to_cbor(data.inner, items)
                  [] data.kind = "map"    -> plutus_map_to_cbor(data, items)
                  [] data.kind = "constr" -> constr_to_cbor(data, items))

\* Mutant: the elements of a list keep their caches.
plutus_data_clear_flat(data) == [data EXCEPT !.cache = NULL, !.inner = NULL]

\* A list clears its elements; a map does not clear its keys and values, and a
\* constructor does not clear its list.
RECURSIVE plutus_data_clear_cbor_cache(_)
plutus_data_clear_cbor_cache(data) ==
    LET cleared == [data EXCEPT !.cache = NULL, !.inner = NULL]
    IN  IF data.kind # "array" THEN cleared
        ELSE [cleared EXCEPT !.kids = [i \in 1..Len(data.kids) |->
                                          plutus_data_clear_cbor_cache(data.kids[i])]]

-----------------------------------------------------------------------------
plutus_list_add(data) == [data EXCEPT !.kids = Append(@, new_integer(9))]
plutus_map_insert(data) == [data EXCEPT !.kids = @ \o <<new_integer(8), new_integer(9)>>]
constr_set_alternative(data) == [data EXCEPT !.n = @ + 1]

\* What one call can make of an object that its caller reached by getters, and
\* whether clearing the cache of the whole object, if reached, gets there too.
RECURSIVE Edits(_, _)
Edits(data, reached) ==
    (CASE data.kind = "int"    -> {}
       [] data.kind = "array"  -> {<<plutus_list_add(data), reached>>}
       [] data.kind = "map"    -> {<<plutus_map_insert(data), reached>>}
       [] data.kind = "constr" -> {<<constr_set_alternative(data), reached>>,
                                   <<plutus_list_add(data), data.fields = NULL /\ reached>>})
    \cup UNION {{<<[data EXCEPT !.kids[i] = e[1]], e[2]>> :
                    e \in Edits(data.kids[i], reached /\ data.kind = "array")} :
                i \in 1..Len(data.kids)}

\* What the data are, however they are encoded (cardano_plutus_data_equals).
RECURSIVE Content(_)
Content(data) ==
    <<data.kind, data.n, [i \in 1..Len(data.kids) |-> Content(data.kids[i])]>>
=============================================================================
