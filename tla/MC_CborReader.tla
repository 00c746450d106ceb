--------------------------- MODULE MC_CborReader ---------------------------
(* Every buffer of up to CoreLength bytes over the bytes that open, close, *)
(* tag or fill a container, and every shorter one over a wider alphabet.   *)
EXTENDS CborReader

CONSTANTS Core, CoreLength, Wide, WideLength

UpTo(n, alphabet) == UNION {[1..k -> alphabet] : k \in 1..n}

MCBuffers == UpTo(CoreLength, Core) \cup UpTo(WideLength, Wide)
=============================================================================
