SPECIFICATION CodecSpec
CONSTANTS
    MAX_COMPACT = 0
    data_from_cbor <- plutus_data_from_cbor
    data_to_cbor <- plutus_data_to_cbor
    data_clear_cbor_cache <- plutus_data_clear_cbor_cache
    DataEdits <- Edits
    DataContent <- Content
    data_new <- new_integer
    Docs <- MCDocs
    NewWitnesses <- MCNewWitnesses
    MaxCalls = 4
INVARIANTS
    SigningKeepsBytes
    EncodingIsStable
    ClearedIsCurrent
CHECK_DEADLOCK FALSE
