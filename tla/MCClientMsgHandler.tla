------------------------- MODULE MCClientMsgHandler -------------------------
(* One client handler: one name of each kind, one predefined topic and one *)
(* predefined id that is not configured.                                   *)
EXTENDS ClientMsgHandler

CONSTANTS plain, other, short, wild, predefined   \* model values: the names

MCNames == {plain}
MCShortNames == {short}
MCWildcards == {wild}
MCNone == {}
MCTwoNames == {plain, other}
MCAllQoS == {-1, 0, 1}
MCPredefTopicIdTable == [i \in {1} |-> predefined]
=============================================================================
