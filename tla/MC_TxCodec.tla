----------------------------- MODULE MC_TxCodec -----------------------------
(***************************************************************************)
(* Transactions for TxCodec, in encodings that other programs choose:      *)
(* integers longer than needed, arrays of either length form, tagged and   *)
(* untagged sets, redeemers as a map or an array and in any order, a body  *)
(* with its keys out of order, fields in any order, either frame.          *)
(***************************************************************************)
EXTENDS TxCodec, PlutusCodec

int(n) == <<"int", TRUE, n>>
long(n) == <<"int", FALSE, n>>
array(indefinite, items) == <<"array", indefinite, items>>
map(indefinite, items) == <<"map", indefinite, items>>
constr(compact, n, list) == <<"constr", compact, n, list>>

vkeys(tagged, items) == <<0, <<tagged, FALSE, items>>>>
scripts(tagged, items) == <<1, <<tagged, TRUE, items>>>>
datums(tagged, indefinite, items) == <<4, <<tagged, indefinite, items>>>>
redeemers(asMap, items) == <<5, <<asMap, FALSE, items>>>>

document(frame, body, fields, valid, aux) == <<frame, body, <<Len(fields), fields>>, valid, aux>>

Signed1 == <<<<"alice", 1>>>>
Signed2 == <<<<"bob", 2>>, <<"alice", 1>>>>

Spend0 == <<0, 0, constr(FALSE, 1, array(FALSE, <<long(3)>>)), 5>>
Spend1 == <<0, 3, array(FALSE, <<array(TRUE, <<long(1)>>), constr(TRUE, 0, array(TRUE, <<int(2)>>))>>), 6>>
Mint0 == <<1, 0, map(TRUE, <<int(1), array(FALSE, <<int(2)>>)>>), 7>>

MCDocs == {
    document(4, <<TRUE, 1>>, <<>>, <<TRUE>>, NULL),
    document(4, <<FALSE, 1>>, <<vkeys(FALSE, Signed1)>>, <<FALSE>>, <<"plain", 1>>),
    document(3, <<FALSE, 2>>, <<vkeys(TRUE, Signed2), scripts(FALSE, <<9>>)>>, <<>>, <<"array", 1>>),
    document(3, <<TRUE, 1>>, <<datums(FALSE, TRUE, <<long(3), array(FALSE, <<int(1)>>)>>)>>, <<>>, NULL),
    document(4, <<FALSE, 1>>, <<redeemers(TRUE, <<Mint0, Spend0>>), vkeys(FALSE, Signed2),
             datums(TRUE, FALSE, <<constr(FALSE, 0, array(FALSE, <<>>))>>)>>, <<TRUE>>, <<"tagged", 2>>),
    document(4, <<TRUE, 1>>, <<datums(FALSE, FALSE, <<map(FALSE, <<int(1), long(2)>>)>>),
             redeemers(FALSE, <<Spend1, Spend0>>), vkeys(TRUE, Signed1)>>, <<TRUE>>, NULL),
    document(4, <<TRUE, 1>>, <<scripts(TRUE, <<1, 2>>), redeemers(FALSE, <<Mint0>>)>>, <<FALSE>>, NULL),
    document(4, <<TRUE, 1>>, <<datums(FALSE, TRUE, <<>>), redeemers(TRUE, <<>>)>>, <<TRUE>>, NULL),
    document(4, <<TRUE, 1>>, <<vkeys(TRUE, Signed1), vkeys(TRUE, Signed2)>>, <<TRUE>>, NULL),
    document(4, <<TRUE, 1>>, <<<<9, <<TRUE, FALSE, <<>>>>>>>>, <<TRUE>>, NULL)}

MCNewWitnesses == {<<>>, <<<<"alice", 3>>>>, <<<<"carol", 4>>, <<"bob", 5>>>>}
=============================================================================
