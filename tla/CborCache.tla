----------------------------- MODULE CborCache ------------------------------
(***************************************************************************)
(* The cbor_cache of an object: the bytes it was decoded from, which its   *)
(* to_cbor writes again until clear_cbor_cache.                            *)
(***************************************************************************)

NULL == <<>>   \* no cache, no object

OrCache(cache, bytes) == IF cache # NULL THEN cache ELSE bytes
=============================================================================
